SPECIFICATION Spec
CONSTANTS
    a = a  s = s  i = i  g1 = g1  g2 = g2  h = h
    Sets = {s}
    Inner = {i}
    Groups = {g1, g2, h}
    Above <- McAbove
    Members = {a}
    Self = Self
    Budget = 2
    MainFile = "byssus.toml"
    FileNames = {"s.toml", "h.toml", "new.toml", ".tmp"}
    Selected = {"s.toml", "h.toml", "new.toml"}
    Labels = {s, h}
    Envs <- McEnvs
SYMMETRY Symmetry
INVARIANTS CalmPassExact LogAgrees LoggedOnce StatusTells DryRunTells CheckPredictsReload
PROPERTY UnmountedOnlyIfGone
