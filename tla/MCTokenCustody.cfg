CONSTANTS
    None = None
    States = {s1, s2}
    Grants = {g1, g2}
    Workers = {w1, w2}
    Requests = {c1, c2, c3}
    Lifetime = 2
    SoonBefore = 1
    StateTTL = 1
    MaxClock = 3
    MaxVersion = 3
SPECIFICATION Spec
SYMMETRY Symmetry
INVARIANTS StateUsedOnce NeverPresentsStale StoredTokenLive HealthHonest
PROPERTY RowMovesForward
CHECK_DEADLOCK FALSE
