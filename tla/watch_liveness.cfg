SPECIFICATION McSpec
CONSTANTS
    d1 = d1  d2 = d2
    Dirs = {d1, d2, d3, d4}
    Names = {a}
    Members = {m}
    Tops = {"static", "root"}
    Depth = 2
    None = None
    Resyncs = TRUE
    Overflows = FALSE
    Races = TRUE
    Budget = 4
    Debounce = 1
    MaxDebounce = 2
    Interval = 3
CHECK_DEADLOCK FALSE
INVARIANT PassInTime
PROPERTY Follows
