SPECIFICATION Spec
CONSTANTS
    tier1 = tier1
    lead = lead
    admin = admin
    customer = customer
    Users = {tier1, lead}
    RolesOf <- HandlersRoles
    NoUser = NoUser
    Requests = {r1, r2}
    Escalations = {e1}
    NoEscalation = NoEscalation
    EnabledOps <- AnswersOnly
    SeedStatuses = {}
    MaxVersion = 4
    SerialResponders = FALSE
SYMMETRY RequestSymmetry
INVARIANT AnsweredOnce
CHECK_DEADLOCK FALSE
