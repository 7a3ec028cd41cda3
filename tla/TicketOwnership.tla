-------------------------- MODULE TicketOwnership --------------------------
(***************************************************************************)
(* What the ticket service promises about ownership, one atomic step per   *)
(* flow of docs/功能模块/工单升级逻辑.md: who handles a ticket, in which    *)
(* pool it sits, and who is being invited to take it over.  While somebody *)
(* is invited nothing else moves the ticket, a refused invitation leaves   *)
(* it where it was, and an invitation is answered once.                    *)
(***************************************************************************)
EXTENDS TicketRoles

VARIABLES
    owner,      \* assigned_to_user_id
    pool,       \* current_pool_code
    level,      \* responsibility_level
    invited     \* target of the escalation awaiting an answer, or NoUser

vars == <<owner, pool, level, invited>>

TypeOK ==
    /\ owner \in Users \cup {NoUser}
    /\ pool \in Pools \cup {NoPool}
    /\ level \in Tiers
    /\ invited \in Users \cup {NoUser}

Init ==
    /\ TypeOK
    /\ invited = NoUser
    /\ owner # NoUser => UserCanOperatePool(owner, OperationPool(pool, level))

Unowned == owner = NoUser
Settled == invited = NoUser
Guard == OperationPool(pool, level)

Create(p) ==
    /\ Settled /\ Unowned /\ pool = NoPool
    /\ pool' = p
    /\ level' = PoolLevel[p]
    /\ UNCHANGED <<owner, invited>>

Claim(user, role) ==
    /\ Settled /\ Unowned
    /\ RoleCanOperatePool(role, pool)
    /\ owner' = user
    /\ level' = DefaultLevel(role)
    /\ UNCHANGED <<pool, invited>>

MoveToPool ==
    /\ Settled /\ ~Unowned
    /\ owner' = NoUser
    /\ pool' = Guard
    /\ UNCHANGED <<level, invited>>

Assign(user) ==
    /\ Settled
    /\ UserCanOperatePool(user, Guard)
    /\ owner' = user
    /\ level' = HighestRole(user)
    /\ UNCHANGED <<pool, invited>>

EscalateToPool ==
    /\ Settled
    /\ NextPool(pool, level) # NoPool
    /\ owner' = NoUser
    /\ pool' = NextPool(pool, level)
    /\ level' = PoolLevel[NextPool(pool, level)]
    /\ UNCHANGED invited

Invite(user) ==
    /\ Settled
    /\ UserCanOperatePool(user, Guard)
    /\ invited' = user
    /\ UNCHANGED <<owner, pool, level>>

Accept ==
    /\ ~Settled
    /\ owner' = invited
    /\ level' = HighestRole(invited)
    /\ invited' = NoUser
    /\ UNCHANGED pool

Reject ==
    /\ ~Settled
    /\ invited' = NoUser
    /\ UNCHANGED <<owner, pool, level>>

Next ==
    \/ \E p \in Pools : Create(p)
    \/ \E user \in Users : \E role \in RolesOf[user] : Claim(user, role)
    \/ MoveToPool
    \/ \E user \in Users : Assign(user)
    \/ EscalateToPool
    \/ \E user \in Users : Invite(user)
    \/ Accept
    \/ Reject

Spec == Init /\ [][Next]_vars
=============================================================================
