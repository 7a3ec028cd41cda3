---------------------------- MODULE TicketRoles ----------------------------
(***************************************************************************)
(* Role tiers, ticket pools and who may operate on what: the pure helpers  *)
(* at the top of backend/app/modules/tickets/service.py.                   *)
(***************************************************************************)
EXTENDS Naturals

CONSTANTS
    Users,      \* the accounts known to the system
    RolesOf,    \* the active role codes granted to each user
    NoUser      \* the null of assigned_to_user_id / target_user_id

Tiers == {"T1", "T2", "T3"}
Roles == Tiers \cup {"ADMIN", "CUSTOMER"}
Pools == {"T1_POOL", "T2_POOL", "T3_POOL"}
NoPool == "NO_POOL"

ASSUME RolesAssumption ==
    /\ NoUser \notin Users
    /\ RolesOf \in [Users -> SUBSET Roles]

RoleRank == [T1 |-> 1, T2 |-> 2, T3 |-> 3, ADMIN |-> 4, CUSTOMER |-> 0]
PoolRank == [T1_POOL |-> 1, T2_POOL |-> 2, T3_POOL |-> 3, NO_POOL |-> 0]

PoolLevel == [T1_POOL |-> "T1", T2_POOL |-> "T2", T3_POOL |-> "T3"]
LevelPool == [T1 |-> "T1_POOL", T2 |-> "T2_POOL", T3 |-> "T3_POOL"]

RoleCanOperatePool(role, pool) ==
    /\ pool # NoPool
    /\ role # "CUSTOMER"
    /\ role = "ADMIN" \/ RoleRank[role] >= PoolRank[pool]

UserCanOperatePool(user, pool) ==
    \E role \in RolesOf[user] : RoleCanOperatePool(role, pool)

IsInternal(user) == \E role \in RolesOf[user] : role # "CUSTOMER"

(* An ADMIN without a tier of its own counts as T2. *)
HighestRole(user) ==
    IF RolesOf[user] \cap Tiers = {}
    THEN "T2"
    ELSE CHOOSE tier \in RolesOf[user] \cap Tiers :
            \A other \in RolesOf[user] \cap Tiers : RoleRank[other] <= RoleRank[tier]

(* The level a claiming actor brings along, from the role it acts under. *)
DefaultLevel(role) ==
    CASE role \in Tiers   -> role
      [] role = "ADMIN"   -> "T2"
      [] OTHER            -> "T1"

CurrentLevel(pool, level) == IF pool # NoPool THEN PoolLevel[pool] ELSE level

(* The pool one tier up; there is none above T3. *)
NextPool(pool, level) ==
    CASE CurrentLevel(pool, level) = "T1" -> "T2_POOL"
      [] CurrentLevel(pool, level) = "T2" -> "T3_POOL"
      [] OTHER                            -> NoPool

(* A ticket outside every pool is guarded by the pool of its level. *)
OperationPool(pool, level) == IF pool # NoPool THEN pool ELSE LevelPool[level]
=============================================================================
