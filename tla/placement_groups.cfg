SPECIFICATION Spec
CONSTANTS
    NameChars <- McNameChars
    Configs <- McConfigs
    Trees <- McTrees
    MaxNameLen = 3
    MaxPathLen = 6
INVARIANTS GroupsNeverShareAView
CHECK_DEADLOCK FALSE
