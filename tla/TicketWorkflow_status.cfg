SPECIFICATION Spec
CONSTANTS
    tier1 = tier1
    lead = lead
    admin = admin
    customer = customer
    Users = {admin, customer}
    RolesOf <- AdminAndCustomerRoles
    NoUser = NoUser
    Requests = {r1, r2}
    Escalations = {e1}
    NoEscalation = NoEscalation
    EnabledOps <- StatusDuringEscalation
    SeedStatuses = {"RESPONSE_TIMEOUT", "RESOLVED"}
    MaxVersion = 4
    SerialResponders = TRUE
SYMMETRY RequestSymmetry
INVARIANTS PendingIsShown
PROPERTIES LifecycleOrder
CHECK_DEADLOCK FALSE
