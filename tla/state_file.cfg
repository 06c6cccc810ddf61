CONSTANTS
    w1 = w1
    w2 = w2
    r1 = r1
    empty = empty
    one = one
    two = two
    f1 = f1
    f2 = f2
    f3 = f3
    Writers <- MCWriters
    Readers <- MCReaders
    Values <- MCValues
    Empty = empty
    Files <- MCFiles
    None = None
    Malformed = Malformed
    Newer = Newer
SPECIFICATION Spec
SYMMETRY Symmetry
INVARIANT AcknowledgedSurvives
INVARIANT NoBlindReplace
INVARIANT CorruptKept
INVARIANT ReadersWhole
PROPERTY RegisterSpec
