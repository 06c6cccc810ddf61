SPECIFICATION Spec
CONSTANTS
    t1 = t1  t2 = t2  s1 = s1  s2 = s2  g1 = g1  g2 = g2  d1 = d1  d2 = d2  ro = ro
    Keys = {1, 2}
    Groups = {g1, g2}
    GroupOf <- McGroupOf
    Sources = {s1, s2}
    Targets = {t1, t2}
    DevInos = {d1, d2}
    Restrictions = {ro}
    AlwaysOn = {}
    NoRecord = NoRecord
    Gone = Gone
    DesiredOf <- McDesiredOf
    RecordsOf <- McRecordsOf
    SourceStates <- McSourceStates
    TargetStates <- McTargetStates
    FrozenSets <- McFrozenSets
INVARIANTS OneMemberPerTarget MountsWaitForRemovals RemovalsAreProved NothingSilent StatusTruthful
CHECK_DEADLOCK FALSE
