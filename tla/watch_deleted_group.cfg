SPECIFICATION Spec
CONSTANTS
    Dirs = {d1, d2, d3}
    Names = {a}
    Members = {m}
    Tops = {"root"}
    Depth = 1
    None = None
    Resyncs = FALSE
    Overflows = FALSE
    Races = FALSE
    Budget = 4
CHECK_DEADLOCK FALSE
SYMMETRY Symmetry
INVARIANT DeletedGroupGoes
