SPECIFICATION Spec
CONSTANTS
    Slots = {s1, s2}
    Third = s3
    Items = {i1, i2}
    Special = {i1}
    Plain = {p1, p2}
    Groups = {g1}
    Settings = {a, b}
    MaxStatuses = 2
    MaxChanges = 1
    None = None
SYMMETRY Symmetry
INVARIANT AlwaysAnAdministrator
CHECK_DEADLOCK FALSE
