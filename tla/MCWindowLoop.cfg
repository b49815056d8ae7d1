CONSTANTS
    Lookback = 6
    MaxRange = 2
    Overlap = 1
    None = None
    Times <- MCTimes
SPECIFICATION Spec
INVARIANTS Tiled FullWindows
PROPERTY Terminates
CHECK_DEADLOCK FALSE
