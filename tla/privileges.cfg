SPECIFICATION Spec
CONSTANTS
    Caps = {"sys_admin", "setuid", "setgid", "setpcap", "net_admin"}
    Uids = {0, 1, 2}
    Gids = {0, 1, 2}
    NoId = NoId
    UnknownUser = UnknownUser
    ServiceUsers <- McServiceUsers
    SecureStarts <- McSecureStarts
INVARIANTS FailuresExplained NotRootByAccident LockedDown
CHECK_DEADLOCK FALSE
