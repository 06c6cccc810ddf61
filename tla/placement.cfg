SPECIFICATION Spec
CONSTANTS
    NameChars <- McNameChars
    Configs <- McConfigs
    Trees <- McTrees
    MaxNameLen = 3
    MaxPathLen = 6
INVARIANTS NoTraversal MembersApart ViewsApart OneGroupPerDirectory MembershipUncovered LimitsExact
CHECK_DEADLOCK FALSE
