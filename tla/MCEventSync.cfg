CONSTANTS
    p1 = p1 p2 = p2 p3 = p3 c1 = c1 c2 = c2
    None = None
    Callers = {c1, c2}
    Positions = {p1, p2, p3}
    Symbols = {"L1", "L2", "S"}
    Orders = {"A", "B"}
    Fills = {"a1", "a2", "a3", "b1"}
    OrderOf <- MCOrderOf
    SymbolOf <- MCSymbolOf
    EffectOf <- MCEffectOf
    SideOf <- MCSideOf
    AmountOf <- MCAmountOf
    Deliveries <- ByFill
    FirstLegs <- FirstTwo
    LaterLegs <- Third
    Scopes <- SweepsAndOrders
    MaxCalls = 3
SPECIFICATION Spec
SYMMETRY Symmetry
INVARIANTS NoDuplicateEvents NothingSkipped EventsOnOwnLegs ScopeEqualsSweep
    OverlapsOnOnePosition
PROPERTY ImplementsBook
CHECK_DEADLOCK FALSE
