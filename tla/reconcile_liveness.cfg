SPECIFICATION FairSpec
CONSTANTS
    t1 = t1  t2 = t2  s1 = s1  s2 = s2  g1 = g1  g2 = g2  d1 = d1  d2 = d2  ro = ro  nosuid = nosuid
    Keys = {1, 2}
    Groups = {g1, g2}
    GroupOf <- McGroupOf
    Sources = {s1, s2}
    Targets = {t1, t2}
    DevInos = {d1, d2}
    Restrictions = {ro, nosuid}
    AlwaysOn = {nosuid}
    NoRecord = NoRecord
    Gone = Gone
    Configs <- McConfigs
    MntIds = {1, 2, 3, 4, 5}
    UniqueSupported = FALSE
    Foreign = Foreign
    Allowed = {"reboot", "crash", "shutdown", "save", "attach", "identity", "umount", "config", "member", "readable", "source", "blocked", "foreign", "loosen", "statefile"}
    Budget = 2
INVARIANT MountsAccountedFor
PROPERTY Converges
