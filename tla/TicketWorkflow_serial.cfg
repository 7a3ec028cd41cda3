SPECIFICATION Spec
CONSTANTS
    tier1 = tier1
    lead = lead
    admin = admin
    customer = customer
    Users = {tier1, lead}
    RolesOf <- HandlersRoles
    NoUser = NoUser
    Requests = {r1, r2}
    Escalations = {e1, e2}
    NoEscalation = NoEscalation
    EnabledOps <- OwnershipOnly
    SeedStatuses = {"IN_PROGRESS"}
    MaxVersion = 4
    SerialResponders = TRUE
SYMMETRY Symmetry
INVARIANTS TypeOK AtMostOnePending HandlerHasAuthority AnsweredOnce PendingFreezesOwnership
PROPERTIES AppliesToWhatWasShown ImplementsOwnership
CHECK_DEADLOCK FALSE
