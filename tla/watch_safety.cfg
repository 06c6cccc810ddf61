SPECIFICATION Spec
CONSTANTS
    Dirs = {d1, d2, d3, d4}
    Names = {a}
    Members = {m}
    Tops = {"static", "root"}
    Depth = 2
    None = None
    Resyncs = TRUE
    Overflows = TRUE
    Races = TRUE
    Budget = 5
CHECK_DEADLOCK FALSE
SYMMETRY Symmetry
INVARIANTS NoChangeMissed LossNoticed WatchesNeeded
PROPERTY DegradedKept
