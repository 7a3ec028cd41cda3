SPECIFICATION Spec
CONSTANTS
    Slots = {c1, c2}
    Handlers = {h1, h2}
    Ticks = {t1}
    MaxSessions = 2
    MaxTokens = 3
    MaxFailures = 1
    None = None
SYMMETRY Symmetry
INVARIANTS TypeOK RotationIsSafe WaitersAreServed
PROPERTIES StaysSignedIn
\* The bounds on logins and tokens stop it.
CHECK_DEADLOCK FALSE
