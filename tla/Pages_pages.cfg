SPECIFICATION Spec
CONSTANTS
    Slots = {s1, s2}
    Third = s3
    Items = {i1, i2}
    Special = {i1}
    Plain = {p1, p2}
    Groups = {g1}
    Settings = {a, b}
    MaxStatuses = 1
    MaxChanges = 1
    None = None
SYMMETRY Symmetry
INVARIANTS TypeOK FlagsAreReal ShownIsAskedFor FormIsOfTheRecord EditIsMadeOverCurrentBasics
\* The detail view of a template that failed to load offers nothing but the side bar.
CHECK_DEADLOCK FALSE
