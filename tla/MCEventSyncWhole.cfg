CONSTANTS
    p1 = p1 p2 = p2 p3 = p3 c1 = c1 c2 = c2
    None = None
    Callers = {c1, c2}
    Positions = {p1, p2}
    Symbols = {"L1", "L2", "S"}
    Orders = {"A", "B", "C", "D", "E"}
    Fills = {"a1", "a2", "b1", "b2", "c1", "c2", "c3", "d1", "e1"}
    OrderOf <- MCOrderOf
    SymbolOf <- MCSymbolOf
    EffectOf <- MCEffectOf
    SideOf <- MCSideOf
    AmountOf <- MCAmountOf
    Deliveries <- ByOrder
    FirstLegs <- FirstTwo
    LaterLegs <- NoLegs
    Scopes <- SweepsAndOrders
    MaxCalls = 3
SPECIFICATION Spec
SYMMETRY Symmetry
INVARIANTS EachFillCountedOnce MoneyConserved
CHECK_DEADLOCK FALSE
