------------------------ MODULE TicketWorkflowProofs ------------------------
(***************************************************************************)
(* Proofs about TicketWorkflow for any number of users, requests and       *)
(* escalations.  IInv is inductive without assuming anything of the        *)
(* clients; SIInv adds what holds when SerialResponders does, and with the *)
(* two every step of a handler is a step of TicketOwnership or a stutter.  *)
(***************************************************************************)
EXTENDS TicketWorkflow, TLAPS

InFlight(r) == pc[r] \in {"loaded", "checked"}

(* A request in flight was received from a user acting in one of its roles.*)
CallsSound ==
    \A r \in Requests : pc[r] # "idle" =>
        /\ call[r].op # "none"
        /\ call[r].actor \in Users
        /\ call[r].role \in RolesOf[call[r].actor]
        /\ call[r].op \in AnswerOps => call[r].esc \in Escalations

(* What a request has read, it was allowed to act upon when it read it.    *)
ViewsSound ==
    \A r \in Requests :
        /\ InFlight(r) /\ call[r].op \in VersionedOps
              => Permitted(call[r], view[r]) /\ call[r].expected = view[r].version
        /\ pc[r] = "checked" /\ call[r].op = "accept" => MayOperate(call[r], view[r])

(* A view is a past state of the row, told apart by its version.           *)
ViewsOfThePast ==
    \A r \in Requests :
        /\ view[r].version <= ticket.version
        /\ pc[r] = "checked" \/ (pc[r] = "loaded" /\ call[r].op \in VersionedOps)
              => (view[r].version = ticket.version => view[r] = ticket)

(* The absence of a pending escalation lasts as long as the version.       *)
NoPendingSinceChecked ==
    \A r \in Requests :
        pc[r] = "checked" /\ call[r].op \in OwnershipOps /\ view[r].version = ticket.version
            => Pending = {}

AnswersSound ==
    \A r \in Requests : InFlight(r) /\ call[r].op \in AnswerOps =>
        /\ call[r].esc \in Escalations
        /\ escalation[call[r].esc].status # "ABSENT"
        /\ escalation[call[r].esc].target = call[r].actor

(* An escalation only names users who may operate where it may put them.   *)
RowSound(e) ==
    LET guard == OperationPool(e.sourcePool, e.sourceLevel)
    IN  /\ e.target \in Users /\ UserCanOperatePool(e.target, guard)
        /\ e.targetLevel = HighestRole(e.target)
        /\ e.sourceOwner # NoUser => UserCanOperatePool(e.sourceOwner, guard)

EscalationsSound ==
    \A e \in Escalations : escalation[e].status # "ABSENT" => RowSound(escalation[e])

IInv ==
    /\ TypeOK
    /\ CallsSound
    /\ ViewsSound
    /\ ViewsOfThePast
    /\ NoPendingSinceChecked
    /\ AnswersSound
    /\ EscalationsSound
    /\ AtMostOnePending
    /\ HandlerHasAuthority

(* Two requests never answer the same escalation at the same time, so what *)
(* a request has read of its escalation still holds when it commits.       *)
OneAnswerInFlight ==
    \A r, s \in Requests :
        call[r].op \in AnswerOps /\ call[s].op \in AnswerOps /\ call[r].esc = call[s].esc => r = s

AnswersStillPending ==
    \A r \in Requests : InFlight(r) /\ call[r].op \in AnswerOps => call[r].esc \in Pending

NothingPendingBeforeCreation == ticket.version = 0 => Pending = {}

SIInv ==
    /\ OneAnswerInFlight
    /\ NothingPendingBeforeCreation
    /\ AnswersStillPending
    /\ AnsweredOnce
    /\ PendingFreezesOwnership
    /\ PendingIsShown

-----------------------------------------------------------------------------
(* The tier and pool helpers of TicketRoles.                              *)

(* _highest_internal_role names a tier, one of the user's own if it has    *)
(* any (service.py, _highest_internal_role).                               *)
LEMMA HighestRoleTier ==
    ASSUME NEW user \in Users
    PROVE  /\ HighestRole(user) \in Tiers
           /\ RolesOf[user] \cap Tiers # {} => HighestRole(user) \in RolesOf[user]
<1> DEFINE S == RolesOf[user] \cap Tiers
           IsTop(tier) == \A other \in S : RoleRank[other] <= RoleRank[tier]
<1>1. CASE S = {}
  BY <1>1 DEF HighestRole, Tiers
<1>2. CASE S # {}
  <2>1. S \subseteq {"T1", "T2", "T3"}
    BY DEF Tiers
  <2>2. \E tier \in S : IsTop(tier)
    <3>1. CASE "T3" \in S
      BY <2>1, <3>1 DEF RoleRank
    <3>2. CASE "T3" \notin S /\ "T2" \in S
      BY <2>1, <3>2 DEF RoleRank
    <3>3. CASE "T3" \notin S /\ "T2" \notin S
      BY <1>2, <2>1, <3>3 DEF RoleRank
    <3> QED BY <3>1, <3>2, <3>3
  <2>3. HighestRole(user) = CHOOSE tier \in S : IsTop(tier)
    BY <1>2 DEF HighestRole
  <2>4. HighestRole(user) \in S
    BY <2>2, <2>3
  <2> QED BY <1>2, <2>4
<1> QED BY <1>1, <1>2

(* The level a claim writes is a tier, whatever the role.                  *)
LEMMA DefaultLevelTier == ASSUME NEW role PROVE DefaultLevel(role) \in Tiers
BY DEF DefaultLevel, Tiers

(* There is a pool guarding every ticket, in a pool or not.                *)
LEMMA OperationPoolType ==
    ASSUME NEW pool \in Pools \cup {NoPool}, NEW level \in Tiers
    PROVE  OperationPool(pool, level) \in Pools
BY DEF OperationPool, Pools, NoPool, Tiers, LevelPool

(* Escalating to a pool ends in a pool, with a tier for its level.         *)
LEMMA NextPoolType ==
    ASSUME NEW pool, NEW level, NextPool(pool, level) # NoPool
    PROVE  /\ NextPool(pool, level) \in Pools
           /\ PoolLevel[NextPool(pool, level)] \in Tiers
BY DEF NextPool, Pools, PoolLevel, Tiers

LEMMA PoolLevelType == \A pool \in Pools : PoolLevel[pool] \in Tiers
BY DEF Pools, PoolLevel, Tiers

(* Somebody who may operate on some pool may operate on the pool of the    *)
(* level that an assignment or an accepted escalation writes.              *)
LEMMA OwnLevelPool ==
    ASSUME NEW user \in Users, NEW pool, UserCanOperatePool(user, pool)
    PROVE  UserCanOperatePool(user, LevelPool[HighestRole(user)])
<1>1. PICK role \in RolesOf[user] : RoleCanOperatePool(role, pool)
  BY DEF UserCanOperatePool
<1>2. role \in Roles /\ role # "CUSTOMER"
  BY <1>1, RolesAssumption DEF RoleCanOperatePool
<1>3. CASE RolesOf[user] \cap Tiers = {}
  <2>1. role = "ADMIN"
    BY <1>2, <1>3 DEF Roles, Tiers
  <2>2. LevelPool[HighestRole(user)] = "T2_POOL"
    BY <1>3 DEF HighestRole, LevelPool
  <2> QED BY <2>1, <2>2 DEF UserCanOperatePool, RoleCanOperatePool, NoPool
<1>4. CASE RolesOf[user] \cap Tiers # {}
  <2>1. HighestRole(user) \in RolesOf[user] /\ HighestRole(user) \in Tiers
    BY <1>4, HighestRoleTier
  <2>2. \A tier \in Tiers : RoleCanOperatePool(tier, LevelPool[tier])
    BY DEF Tiers, RoleCanOperatePool, LevelPool, RoleRank, PoolRank, NoPool
  <2> QED BY <2>1, <2>2 DEF UserCanOperatePool
<1> QED BY <1>3, <1>4

-----------------------------------------------------------------------------
(* Typing of what the operations write.                                    *)

LEMMA CommonTypes ==
    /\ NoTicket \in TicketRecord
    /\ NoRow \in EscalationRecord
    /\ NoCall \in CallRecord
BY DEF NoTicket, TicketRecord, Statuses, SubStatuses, Tiers, NoPool,
       NoRow, EscalationRecord, NoCall, CallRecord, Roles

LEMMA StatusAfterType ==
    ASSUME NEW op, NEW status \in Statuses
    PROVE  MainStatusAfter(op, status) \in Statuses
BY DEF MainStatusAfter, Statuses

(* Each operation writes a well-formed row (service.py, the assignments of *)
(* execute_ticket_action to reject_ticket_escalation).                     *)
LEMMA RowTypes ==
    ASSUME NEW t \in TicketRecord, NEW c \in CallRecord, NEW e \in EscalationRecord
    PROVE  /\ [t EXCEPT !.status = MainStatusAfter(c.op, @)] \in TicketRecord
           /\ c.actor \in Users => Claimed(c, t) \in TicketRecord
           /\ MovedToPool(t) \in TicketRecord
           /\ c.target \in Users => Assigned(c, t) \in TicketRecord
           /\ NextPool(t.pool, t.level) # NoPool => EscalatedToPool(t) \in TicketRecord
           /\ Requested(t) \in TicketRecord
           /\ c.actor \in Users => Accepted(c, t, e) \in TicketRecord
           /\ Rejected(t, e) \in TicketRecord
           /\ c.target \in Users => EscalationRow(c, t) \in EscalationRecord
<1>1. /\ t.status \in Statuses /\ t.sub \in SubStatuses /\ t.owner \in Users \cup {NoUser}
      /\ t.pool \in Pools \cup {NoPool} /\ t.level \in Tiers /\ t.version \in Nat
  BY DEF TicketRecord
<1>2. {"NONE", "ESCALATION_PENDING_CONFIRM", "ESCALATION_CONFIRMED",
       "ESCALATION_REJECTED"} \subseteq SubStatuses
  BY DEF SubStatuses
<1>3. [t EXCEPT !.status = MainStatusAfter(c.op, @)] \in TicketRecord
  <2>1. MainStatusAfter(c.op, t.status) \in Statuses
    BY <1>1, StatusAfterType
  <2> QED BY <2>1 DEF TicketRecord
<1>4. c.actor \in Users => Claimed(c, t) \in TicketRecord
  BY <1>2, DefaultLevelTier DEF TicketRecord, Claimed
<1>5. MovedToPool(t) \in TicketRecord
  <2>1. TicketGuard(t) \in Pools
    BY <1>1, OperationPoolType DEF TicketGuard
  <2> QED BY <1>2, <2>1 DEF TicketRecord, MovedToPool
<1>6. c.target \in Users => Assigned(c, t) \in TicketRecord
  BY <1>2, HighestRoleTier DEF TicketRecord, Assigned
<1>7. NextPool(t.pool, t.level) # NoPool => EscalatedToPool(t) \in TicketRecord
  BY <1>2, NextPoolType DEF TicketRecord, EscalatedToPool
<1>8. Requested(t) \in TicketRecord
  BY <1>2 DEF TicketRecord, Requested
<1>9. c.actor \in Users => Accepted(c, t, e) \in TicketRecord
  BY <1>2 DEF TicketRecord, EscalationRecord, Accepted
<1>10. Rejected(t, e) \in TicketRecord
  BY <1>2 DEF TicketRecord, EscalationRecord, Rejected
<1>11. c.target \in Users => EscalationRow(c, t) \in EscalationRecord
  BY <1>1, HighestRoleTier DEF EscalationRecord, EscalationRow
<1> QED BY <1>3, <1>4, <1>5, <1>6, <1>7, <1>8, <1>9, <1>10, <1>11

LEMMA InitInvariant == Init => IInv
<1> SUFFICES ASSUME Init PROVE IInv
  OBVIOUS
<1> USE DEF Init
<1>1. ticket \in TicketRecord
  <2>1. ASSUME NEW t \in SeededTickets PROVE t \in TicketRecord
    <3>1. SeedStatuses \subseteq Statuses
      BY WorkflowAssumption DEF Statuses
    <3>2. /\ {"NONE", "ESCALATION_PENDING_CONFIRM"} \subseteq SubStatuses
          /\ {"T1", "T2"} \subseteq Tiers /\ {1} \subseteq Nat
      BY DEF SubStatuses, Tiers
    <3> QED BY <3>1, <3>2 DEF SeededTickets, TicketRecord
  <2> QED BY <2>1, CommonTypes
<1>2. TypeOK
  BY <1>1, CommonTypes DEF TypeOK
<1>3. CallsSound /\ ViewsSound /\ NoPendingSinceChecked /\ AnswersSound
  BY DEF CallsSound, ViewsSound, NoPendingSinceChecked, AnswersSound, InFlight
<1>4. ViewsOfThePast
  BY <1>1 DEF ViewsOfThePast, NoTicket, TicketRecord
<1>5. EscalationsSound /\ AtMostOnePending
  BY DEF EscalationsSound, AtMostOnePending, Pending, NoRow
<1>6. HandlerHasAuthority
  BY DEF HandlerHasAuthority, SeededTickets, NoTicket
<1> QED BY <1>2, <1>3, <1>4, <1>5, <1>6 DEF IInv

-----------------------------------------------------------------------------
(* A commit moves the version past every view.                             *)

LEMMA SaveFrame ==
    ASSUME IInv, NEW r \in Requests, NEW row \in TicketRecord, SaveTicket(r, row)
    PROVE  /\ view[r] = ticket
           /\ ticket' = [row EXCEPT !.version = ticket.version + 1]
           /\ ticket' \in TicketRecord
           /\ pc' \in [Requests -> {"idle", "received", "loaded", "checked"}]
           /\ call' \in [Requests -> CallRecord]
           /\ view' \in [Requests -> TicketRecord]
           /\ CallsSound' /\ ViewsSound' /\ ViewsOfThePast' /\ NoPendingSinceChecked'
<1> USE DEF IInv
<1>1. /\ ticket \in TicketRecord /\ ticket.version \in Nat
      /\ view \in [Requests -> TicketRecord] /\ call \in [Requests -> CallRecord]
      /\ pc \in [Requests -> {"idle", "received", "loaded", "checked"}]
      /\ \A s \in Requests : view[s].version \in Nat
  BY DEF TypeOK, TicketRecord
<1>2. view[r] = ticket
  BY DEF SaveTicket, ViewsOfThePast
<1>3. /\ ticket' = [row EXCEPT !.version = ticket.version + 1]
      /\ ticket' \in TicketRecord /\ ticket'.version = ticket.version + 1
  BY <1>1, <1>2 DEF SaveTicket, TicketRecord
<1>4. /\ pc' = [pc EXCEPT ![r] = "idle"]
      /\ call' = [call EXCEPT ![r] = NoCall]
      /\ view' = [view EXCEPT ![r] = NoTicket]
  BY DEF SaveTicket, Finish
<1>5. /\ pc' \in [Requests -> {"idle", "received", "loaded", "checked"}]
      /\ call' \in [Requests -> CallRecord] /\ view' \in [Requests -> TicketRecord]
  BY <1>1, <1>4, CommonTypes
<1>6. /\ pc'[r] = "idle" /\ view'[r] = NoTicket
      /\ \A s \in Requests : s # r => pc'[s] = pc[s] /\ call'[s] = call[s] /\ view'[s] = view[s]
  BY <1>1, <1>4
<1>7. \A s \in Requests : view'[s].version <= ticket.version
  BY <1>1, <1>6 DEF ViewsOfThePast, NoTicket
<1>8. CallsSound'
  BY <1>6 DEF CallsSound
<1>9. ViewsSound'
  BY <1>6 DEF ViewsSound, InFlight, MayOperate
<1>10. \A s \in Requests : view'[s].version < ticket'.version
  BY <1>1, <1>3, <1>5, <1>7 DEF TicketRecord
<1>11. ViewsOfThePast' /\ NoPendingSinceChecked'
  BY <1>1, <1>3, <1>5, <1>10 DEF ViewsOfThePast, NoPendingSinceChecked, TicketRecord
<1> QED BY <1>2, <1>3, <1>5, <1>8, <1>9, <1>11

-----------------------------------------------------------------------------
(* Steps that leave the two tables alone.                                  *)

LEMMA RowsUnchanged ==
    ASSUME IInv, UNCHANGED <<ticket, escalation>>
    PROVE  EscalationsSound' /\ AtMostOnePending' /\ HandlerHasAuthority' /\ Pending' = Pending
BY DEF IInv, EscalationsSound, AtMostOnePending, HandlerHasAuthority, Pending, TicketGuard

LEMMA ReceiveInvariant ==
    ASSUME IInv, NEW r \in Requests, ReceiveVersioned(r) \/ ReceiveAnswer(r)
    PROVE  IInv'
<1> USE DEF IInv
<1>1. PICK c \in CallRecord :
        /\ c.op # "none" /\ c.actor \in Users /\ c.role \in RolesOf[c.actor]
        /\ c.op \in AnswerOps => c.esc \in Escalations
        /\ Receive(r, c)
  <2>1. \A actor \in Users : RolesOf[actor] \subseteq Roles
    BY RolesAssumption
  <2>2. ticket.version \in Nat
    BY DEF TypeOK, TicketRecord
  <2>3. CASE ReceiveVersioned(r)
    <3>1. PICK op \in EnabledOps \cap VersionedOps, actor \in Users :
             \E role \in RolesOf[actor], target \in Users \cup {NoUser} :
             Receive(r, [op |-> op, actor |-> actor, role |-> role, target |-> target,
                         esc |-> NoEscalation, expected |-> ticket.version])
      BY <2>3 DEF ReceiveVersioned
    <3>2. PICK role \in RolesOf[actor], target \in Users \cup {NoUser} :
             Receive(r, [op |-> op, actor |-> actor, role |-> role, target |-> target,
                         esc |-> NoEscalation, expected |-> ticket.version])
      BY <3>1
    <3> DEFINE c == [op |-> op, actor |-> actor, role |-> role, target |-> target,
                     esc |-> NoEscalation, expected |-> ticket.version]
    <3>3. c \in CallRecord /\ c.actor = actor /\ c.role = role /\ c.op = op
      BY <2>1, <2>2 DEF CallRecord
    <3>4. op # "none" /\ op \notin AnswerOps
      BY DEF VersionedOps, OwnershipOps, StatusOps, AnswerOps
    <3>5. Receive(r, c)
      BY <3>2
    <3> HIDE DEF c
    <3> QED BY <3>3, <3>4, <3>5
  <2>4. CASE ReceiveAnswer(r)
    <3>1. PICK op \in EnabledOps \cap AnswerOps, actor \in Users, e \in Escalations :
             \E role \in RolesOf[actor] :
             Receive(r, [op |-> op, actor |-> actor, role |-> role, target |-> NoUser,
                         esc |-> e, expected |-> 0])
      BY <2>4 DEF ReceiveAnswer
    <3>2. PICK role \in RolesOf[actor] :
             Receive(r, [op |-> op, actor |-> actor, role |-> role, target |-> NoUser,
                         esc |-> e, expected |-> 0])
      BY <3>1
    <3> DEFINE c == [op |-> op, actor |-> actor, role |-> role, target |-> NoUser,
                     esc |-> e, expected |-> 0]
    <3>3. c \in CallRecord /\ c.actor = actor /\ c.role = role /\ c.op = op /\ c.esc = e
      BY <2>1 DEF CallRecord
    <3>4. op # "none"
      BY DEF AnswerOps
    <3>5. Receive(r, c)
      BY <3>2
    <3> HIDE DEF c
    <3> QED BY <3>3, <3>4, <3>5
  <2> QED BY <2>3, <2>4
<1>2. /\ UNCHANGED <<ticket, escalation, answers, view>>
      /\ pc' = [pc EXCEPT ![r] = "received"] /\ call' = [call EXCEPT ![r] = c]
  BY <1>1 DEF Receive
<1>3. TypeOK'
  BY <1>2 DEF TypeOK
<1>4. /\ pc'[r] = "received" /\ call'[r] = c
      /\ \A s \in Requests : s # r => pc'[s] = pc[s] /\ call'[s] = call[s]
  BY <1>2 DEF TypeOK
<1>5. CallsSound'
  BY <1>1, <1>4 DEF CallsSound
<1>6. ViewsSound'
  BY <1>2, <1>4 DEF ViewsSound, InFlight, MayOperate
<1>7. ViewsOfThePast'
  BY <1>2, <1>4 DEF ViewsOfThePast
<1>8. NoPendingSinceChecked' /\ AnswersSound'
  BY <1>2, <1>4, RowsUnchanged DEF NoPendingSinceChecked, AnswersSound, InFlight
<1> QED BY <1>2, <1>3, <1>5, <1>6, <1>7, <1>8, RowsUnchanged

LEMMA ReadInvariant ==
    ASSUME IInv, NEW r \in Requests, Read(r)
    PROVE  IInv'
<1> USE DEF IInv
<1>1. /\ UNCHANGED <<ticket, escalation, answers, call>>
      /\ \E to \in {"loaded", "checked"} : pc' = [pc EXCEPT ![r] = to]
      /\ view' = view \/ view' = [view EXCEPT ![r] = ticket]
  BY DEF Read, LoadTicket, CheckNoPending, LoadEscalation, LoadTicketOfEscalation, Advance
<1>2. TypeOK'
  BY <1>1 DEF TypeOK
<1>3. pc[r] # "idle" /\ call[r].op # "none"
  BY DEF Read, LoadTicket, CheckNoPending, LoadEscalation, LoadTicketOfEscalation, Advance,
         CallsSound
<1>4. CallsSound'
  BY <1>1, <1>3 DEF CallsSound, TypeOK
<1>5. \A s \in Requests : s # r => pc'[s] = pc[s] /\ view'[s] = view[s]
  BY <1>1 DEF TypeOK
<1>6. Pending' = Pending /\ EscalationsSound' /\ AtMostOnePending' /\ HandlerHasAuthority'
  BY <1>1, RowsUnchanged
<1>7. ticket \in TicketRecord /\ ticket.version \in Nat
  BY DEF TypeOK, TicketRecord
<1>8. VersionedOps \cap AnswerOps = {} /\ OwnershipOps \subseteq VersionedOps
  BY DEF VersionedOps, AnswerOps, OwnershipOps, StatusOps
<1>9. CASE LoadTicket(r)
  <2>1. /\ view'[r] = ticket /\ call[r].op \in VersionedOps /\ Permitted(call[r], ticket)
        /\ call[r].expected = ticket.version
        /\ call[r].op \in OwnershipOps => pc'[r] = "loaded"
    BY <1>9 DEF LoadTicket, Advance, TypeOK
  <2>2. call[r].op # "accept"
    BY <2>1 DEF VersionedOps, OwnershipOps, StatusOps
  <2>3. ViewsSound'
    BY <1>1, <1>5, <2>1, <2>2 DEF ViewsSound, InFlight, MayOperate, Permitted, MayClaim,
       ValidOwnership, TargetFits, MayInitiateEscalation, TicketGuard
  <2>4. ViewsOfThePast'
    BY <1>1, <1>5, <1>7, <2>1 DEF ViewsOfThePast
  <2>5. NoPendingSinceChecked'
    BY <1>1, <1>5, <1>6, <2>1 DEF NoPendingSinceChecked
  <2>6. AnswersSound'
    BY <1>1, <1>5, <1>8, <2>1 DEF AnswersSound, InFlight
  <2> QED BY <1>2, <1>4, <1>6, <2>3, <2>4, <2>5, <2>6
<1>10. CASE CheckNoPending(r)
  <2>1. /\ view' = view /\ pc[r] = "loaded" /\ pc'[r] = "checked"
        /\ call[r].op \in OwnershipOps /\ Pending = {}
    BY <1>10 DEF CheckNoPending, Advance, TypeOK
  <2>2. call[r].op # "accept"
    BY <2>1 DEF OwnershipOps
  <2>3. ViewsSound'
    BY <1>1, <1>5, <2>1, <2>2 DEF ViewsSound, InFlight, MayOperate, Permitted, MayClaim,
       ValidOwnership, TargetFits, MayInitiateEscalation, TicketGuard
  <2>4. ViewsOfThePast'
    BY <1>1, <1>5, <1>8, <2>1 DEF ViewsOfThePast
  <2>5. NoPendingSinceChecked'
    BY <1>1, <1>5, <1>6, <2>1 DEF NoPendingSinceChecked
  <2>6. AnswersSound'
    BY <1>1, <1>5, <1>8, <2>1 DEF AnswersSound, InFlight
  <2> QED BY <1>2, <1>4, <1>6, <2>3, <2>4, <2>5, <2>6
<1>11. CASE LoadEscalation(r) \/ LoadTicketOfEscalation(r)
  <2>1. /\ call[r].op \in AnswerOps /\ call[r].op \notin VersionedOps
        /\ call[r].op \notin OwnershipOps
    BY <1>8, <1>11 DEF LoadEscalation, LoadTicketOfEscalation
  <2>2. NoPendingSinceChecked'
    BY <1>1, <1>5, <1>6, <2>1 DEF NoPendingSinceChecked
  <2>3. CASE LoadEscalation(r)
    <3>1. /\ view' = view /\ pc'[r] = "loaded"
          /\ escalation[call[r].esc].status = "PENDING_CONFIRM"
          /\ escalation[call[r].esc].target = call[r].actor
      BY <2>3 DEF LoadEscalation, Advance, TypeOK
    <3>2. call[r].esc \in Escalations
      BY <1>3, <2>1 DEF CallsSound
    <3>3. ViewsSound'
      BY <1>1, <1>5, <2>1, <3>1 DEF ViewsSound, InFlight, MayOperate, Permitted, MayClaim,
         ValidOwnership, TargetFits, MayInitiateEscalation, TicketGuard
    <3>4. ViewsOfThePast' /\ AnswersSound'
      BY <1>1, <1>5, <2>1, <3>1, <3>2 DEF ViewsOfThePast, AnswersSound, InFlight
    <3> QED BY <1>2, <1>4, <1>6, <2>2, <3>3, <3>4
  <2>4. CASE LoadTicketOfEscalation(r)
    <3>1. /\ view'[r] = ticket /\ pc[r] = "loaded" /\ pc'[r] = "checked"
          /\ call[r].op = "accept" => MayOperate(call[r], ticket)
      BY <2>4 DEF LoadTicketOfEscalation, Advance, TypeOK
    <3>2. ViewsSound'
      BY <1>1, <1>5, <2>1, <3>1 DEF ViewsSound, InFlight, MayOperate, Permitted, MayClaim,
         ValidOwnership, TargetFits, MayInitiateEscalation, TicketGuard
    <3>3. ViewsOfThePast' /\ AnswersSound'
      BY <1>1, <1>5, <1>7, <2>1, <3>1 DEF ViewsOfThePast, AnswersSound, InFlight
    <3> QED BY <1>2, <1>4, <1>6, <2>2, <3>2, <3>3
  <2> QED BY <1>11, <2>3, <2>4
<1> QED BY <1>9, <1>10, <1>11 DEF Read

LEMMA RefuseInvariant ==
    ASSUME IInv, NEW r \in Requests, Refuse(r)
    PROVE  IInv'
<1> USE DEF IInv
<1>1. /\ UNCHANGED <<ticket, escalation, answers>>
      /\ pc' = [pc EXCEPT ![r] = "idle"]
      /\ call' = [call EXCEPT ![r] = NoCall]
      /\ view' = [view EXCEPT ![r] = NoTicket]
  BY DEF Refuse, Finish
<1>2. TypeOK'
  BY <1>1, CommonTypes DEF TypeOK
<1>3. /\ pc'[r] = "idle" /\ view'[r] = NoTicket
      /\ \A s \in Requests : s # r => pc'[s] = pc[s] /\ call'[s] = call[s] /\ view'[s] = view[s]
  BY <1>1 DEF TypeOK
<1>4. CallsSound' /\ AnswersSound' /\ NoPendingSinceChecked'
  BY <1>1, <1>3, RowsUnchanged DEF CallsSound, AnswersSound, NoPendingSinceChecked, InFlight
<1>5. ViewsSound'
  BY <1>3 DEF ViewsSound, InFlight, MayOperate
<1>6. ViewsOfThePast'
  BY <1>1, <1>3 DEF ViewsOfThePast, NoTicket, TypeOK, TicketRecord
<1> QED BY <1>1, <1>2, <1>4, <1>5, <1>6, RowsUnchanged

LEMMA CreateInvariant ==
    ASSUME IInv, NEW pool \in Pools, CreateTicket(pool)
    PROVE  IInv'
<1> USE DEF IInv
<1>1. /\ ticket.version = 0
      /\ ticket' = [NoTicket EXCEPT !.pool = pool, !.level = PoolLevel[pool], !.version = 1]
      /\ UNCHANGED <<escalation, answers, pc, call, view>>
  BY DEF CreateTicket
<1>2. ticket' \in TicketRecord /\ ticket'.version = 1 /\ ticket'.owner = NoUser
  BY <1>1, CommonTypes, PoolLevelType DEF TicketRecord, NoTicket
<1>3. TypeOK'
  BY <1>1, <1>2 DEF TypeOK
<1>4. \A r \in Requests : view'[r].version = 0
  BY <1>1 DEF ViewsOfThePast, TypeOK, TicketRecord
<1>5. ViewsOfThePast' /\ NoPendingSinceChecked'
  BY <1>2, <1>4 DEF ViewsOfThePast, NoPendingSinceChecked
<1>6. CallsSound' /\ AnswersSound' /\ EscalationsSound' /\ AtMostOnePending'
  BY <1>1 DEF CallsSound, AnswersSound, EscalationsSound, AtMostOnePending, Pending, InFlight
<1>7. ViewsSound'
  BY <1>1 DEF ViewsSound, InFlight, MayOperate
<1>8. HandlerHasAuthority'
  BY <1>2 DEF HandlerHasAuthority
<1> QED BY <1>3, <1>5, <1>6, <1>7, <1>8

-----------------------------------------------------------------------------
(* Commits that write the ticket row only.                                 *)

LEMMA PlainCommit ==
    ASSUME IInv, NEW r \in Requests, NEW row \in TicketRecord, SaveTicket(r, row),
           UNCHANGED <<escalation, answers>>,
           row.owner # NoUser => UserCanOperatePool(row.owner, TicketGuard(row))
    PROVE  IInv'
<1> USE DEF IInv
<1>1. TypeOK'
  BY SaveFrame DEF TypeOK
<1>2. AnswersSound' /\ EscalationsSound' /\ AtMostOnePending'
  <2>1. \A s \in Requests : s # r => pc'[s] = pc[s] /\ call'[s] = call[s]
    BY DEF SaveTicket, Finish, TypeOK
  <2>2. pc'[r] = "idle"
    BY DEF SaveTicket, Finish, TypeOK
  <2> QED BY <2>1, <2>2 DEF AnswersSound, EscalationsSound, AtMostOnePending, Pending, InFlight
<1>3. ticket'.owner = row.owner /\ ticket'.pool = row.pool /\ ticket'.level = row.level
  BY SaveFrame DEF TicketRecord
<1>4. HandlerHasAuthority'
  BY <1>3 DEF HandlerHasAuthority, TicketGuard
<1> QED BY <1>1, <1>2, <1>4, SaveFrame

LEMMA TicketCommitInvariant ==
    ASSUME IInv, NEW r \in Requests,
           \/ CommitStatus(r) \/ CommitClaim(r) \/ CommitMoveToPool(r)
           \/ CommitAssign(r) \/ CommitEscalateToPool(r)
    PROVE  IInv'
<1> USE DEF IInv
<1>1. /\ pc[r] = "checked" /\ view[r] \in TicketRecord /\ call[r] \in CallRecord
      /\ view[r].version = ticket.version
  BY DEF CommitStatus, CommitClaim, CommitMoveToPool, CommitAssign, CommitEscalateToPool,
         SaveTicket, TypeOK
<1>2. view[r] = ticket
  BY <1>1 DEF ViewsOfThePast
<1>3. /\ call[r].actor \in Users /\ call[r].role \in RolesOf[call[r].actor]
      /\ call[r].op \in VersionedOps => Permitted(call[r], ticket)
  BY <1>1, <1>2 DEF CallsSound, ViewsSound, InFlight
<1>4. /\ ticket.pool \in Pools \cup {NoPool} /\ ticket.level \in Tiers
      /\ call[r].target \in Users \cup {NoUser}
  BY <1>1, <1>2 DEF TicketRecord, CallRecord
<1>5. \A e \in {NoRow} : e \in EscalationRecord
  BY CommonTypes
<1>6. CASE CommitStatus(r)
  <2> DEFINE row == [view[r] EXCEPT !.status = MainStatusAfter(call[r].op, @)]
  <2>1. row \in TicketRecord
    BY <1>1, CommonTypes, RowTypes
  <2>2. row.owner = ticket.owner /\ TicketGuard(row) = TicketGuard(ticket)
    BY <1>1, <1>2 DEF TicketRecord, TicketGuard
  <2>3. SaveTicket(r, row) /\ UNCHANGED <<escalation, answers>>
    BY <1>6 DEF CommitStatus
  <2>4. row.owner # NoUser => UserCanOperatePool(row.owner, TicketGuard(row))
    BY <2>2 DEF HandlerHasAuthority
  <2> HIDE DEF row
  <2> QED BY <2>1, <2>3, <2>4, PlainCommit
<1>7. CASE CommitClaim(r)
  <2> DEFINE row == Claimed(call[r], view[r])
  <2>1. row \in TicketRecord
    BY <1>1, <1>3, CommonTypes, RowTypes
  <2>2. RoleCanOperatePool(call[r].role, ticket.pool)
    BY <1>3, <1>7 DEF CommitClaim, VersionedOps, OwnershipOps, Permitted, MayClaim
  <2>3. TicketGuard(row) = ticket.pool /\ row.owner = call[r].actor
    BY <1>1, <1>2, <2>2 DEF TicketRecord, TicketGuard, OperationPool, Claimed, RoleCanOperatePool
  <2>4. UserCanOperatePool(row.owner, TicketGuard(row))
    BY <1>3, <2>2, <2>3 DEF UserCanOperatePool
  <2>5. SaveTicket(r, row) /\ UNCHANGED <<escalation, answers>>
    BY <1>7 DEF CommitClaim
  <2> HIDE DEF row
  <2> QED BY <2>1, <2>4, <2>5, PlainCommit
<1>8. CASE CommitMoveToPool(r)
  <2> DEFINE row == MovedToPool(view[r])
  <2>1. row \in TicketRecord
    BY <1>1, CommonTypes, RowTypes
  <2>2. row.owner = NoUser
    BY <1>1 DEF TicketRecord, MovedToPool
  <2>3. SaveTicket(r, row) /\ UNCHANGED <<escalation, answers>>
    BY <1>8 DEF CommitMoveToPool
  <2> HIDE DEF row
  <2> QED BY <2>1, <2>2, <2>3, PlainCommit
<1>9. CASE CommitAssign(r)
  <2> DEFINE row == Assigned(call[r], view[r])
  <2>1. call[r].target \in Users /\ UserCanOperatePool(call[r].target, TicketGuard(ticket))
    BY <1>3, <1>9 DEF CommitAssign, VersionedOps, OwnershipOps, Permitted, TargetFits
  <2>2. row \in TicketRecord
    BY <1>1, <2>1, CommonTypes, RowTypes
  <2>3. row.owner = call[r].target /\ row.pool = ticket.pool
        /\ row.level = HighestRole(call[r].target)
    BY <1>1, <1>2 DEF TicketRecord, Assigned
  <2>4. UserCanOperatePool(row.owner, TicketGuard(row))
    <3>1. CASE ticket.pool # NoPool
      BY <2>1, <2>3, <3>1 DEF TicketGuard, OperationPool
    <3>2. CASE ticket.pool = NoPool
      <4>1. UserCanOperatePool(call[r].target, LevelPool[HighestRole(call[r].target)])
        BY <2>1, OwnLevelPool
      <4> QED BY <2>3, <3>2, <4>1 DEF TicketGuard, OperationPool
    <3> QED BY <3>1, <3>2
  <2>5. SaveTicket(r, row) /\ UNCHANGED <<escalation, answers>>
    BY <1>9 DEF CommitAssign
  <2> HIDE DEF row
  <2> QED BY <2>2, <2>4, <2>5, PlainCommit
<1>10. CASE CommitEscalateToPool(r)
  <2> DEFINE row == EscalatedToPool(view[r])
  <2>1. NextPool(view[r].pool, view[r].level) # NoPool
    BY <1>2, <1>3, <1>10 DEF CommitEscalateToPool, VersionedOps, OwnershipOps, Permitted
  <2>2. row \in TicketRecord
    BY <1>1, <2>1, CommonTypes, RowTypes
  <2>3. row.owner = NoUser
    BY <1>1 DEF TicketRecord, EscalatedToPool
  <2>4. SaveTicket(r, row) /\ UNCHANGED <<escalation, answers>>
    BY <1>10 DEF CommitEscalateToPool
  <2> HIDE DEF row
  <2> QED BY <2>2, <2>3, <2>4, PlainCommit
<1> QED BY <1>6, <1>7, <1>8, <1>9, <1>10

(* A new request for help names a target and a source that may both operate *)
(* on the ticket as it is (escalate_ticket_to_user).                       *)
LEMMA EscalateToUserInvariant ==
    ASSUME IInv, NEW r \in Requests, CommitEscalateToUser(r)
    PROVE  IInv'
<1> USE DEF IInv
<1> DEFINE row == Requested(view[r])
           new == EscalationRow(call[r], view[r])
<1>1. /\ SaveTicket(r, row) /\ call[r].op = "escalate_user" /\ answers' = answers
      /\ \E e \in Escalations : /\ escalation[e].status = "ABSENT"
                               /\ escalation' = [escalation EXCEPT ![e] = new]
  BY DEF CommitEscalateToUser
<1>2. PICK e \in Escalations : /\ escalation[e].status = "ABSENT"
                              /\ escalation' = [escalation EXCEPT ![e] = new]
  BY <1>1
<1>3. /\ pc[r] = "checked" /\ view[r] \in TicketRecord /\ call[r] \in CallRecord
      /\ view[r] = ticket /\ escalation \in [Escalations -> EscalationRecord]
  BY <1>1 DEF SaveTicket, TypeOK, ViewsOfThePast
<1>4. Permitted(call[r], ticket)
  BY <1>1, <1>3 DEF ViewsSound, InFlight, VersionedOps, OwnershipOps
<1>5. call[r].target \in Users /\ UserCanOperatePool(call[r].target, TicketGuard(ticket))
  BY <1>1, <1>4 DEF Permitted, TargetFits
<1>6. row \in TicketRecord /\ new \in EscalationRecord
  BY <1>3, <1>5, CommonTypes, RowTypes
<1>7. row.owner = ticket.owner /\ row.pool = ticket.pool /\ row.level = ticket.level
  BY <1>3 DEF Requested, TicketRecord
<1>8. RowSound(new) /\ new.status = "PENDING_CONFIRM"
  BY <1>3, <1>5 DEF RowSound, EscalationRow, TicketGuard, HandlerHasAuthority
<1>9. Pending = {}
  BY <1>1, <1>3 DEF NoPendingSinceChecked, OwnershipOps
<1> HIDE DEF row, new
<1>10. /\ escalation'[e] = new
       /\ \A f \in Escalations : f # e => escalation'[f] = escalation[f]
  BY <1>2, <1>3
<1>11. TypeOK'
  <2>1. escalation' \in [Escalations -> EscalationRecord]
    BY <1>2, <1>3, <1>6
  <2> QED BY <1>1, <1>6, <2>1, SaveFrame DEF TypeOK
<1>12. AtMostOnePending' /\ EscalationsSound'
  BY <1>8, <1>9, <1>10 DEF AtMostOnePending, Pending, EscalationsSound
<1>13. AnswersSound'
  <2>1. pc'[r] = "idle" /\ \A s \in Requests : s # r => pc'[s] = pc[s] /\ call'[s] = call[s]
    BY <1>1 DEF SaveTicket, Finish, TypeOK
  <2> QED BY <1>2, <1>10, <2>1 DEF AnswersSound, InFlight
<1>14. HandlerHasAuthority'
  <2>1. ticket'.owner = ticket.owner /\ TicketGuard(ticket') = TicketGuard(ticket)
    BY <1>1, <1>6, <1>7, SaveFrame DEF TicketRecord, TicketGuard
  <2> QED BY <2>1 DEF HandlerHasAuthority, TicketGuard
<1> QED BY <1>1, <1>6, <1>11, <1>12, <1>13, <1>14, SaveFrame

(* An answer changes the status of its row and hands the ticket to a user  *)
(* with authority over the pool it lands in.                               *)
LEMMA AnswerInvariant ==
    ASSUME IInv, NEW r \in Requests, CommitAccept(r) \/ CommitReject(r)
    PROVE  IInv'
<1> USE DEF IInv
<1> DEFINE e == escalation[call[r].esc]
<1>1. /\ pc[r] = "checked" /\ view[r] \in TicketRecord /\ call[r] \in CallRecord
      /\ view[r] = ticket /\ call[r].op \in AnswerOps
      /\ escalation \in [Escalations -> EscalationRecord]
      /\ answers \in [Escalations -> Nat]
  BY DEF CommitAccept, CommitReject, CommitAnswer, SaveTicket, TypeOK, ViewsOfThePast, AnswerOps
<1>2. /\ call[r].esc \in Escalations /\ e \in EscalationRecord /\ RowSound(e)
      /\ e.target = call[r].actor /\ call[r].role \in RolesOf[call[r].actor]
  BY <1>1 DEF AnswersSound, InFlight, EscalationsSound, CallsSound
<1>3. PICK row \in TicketRecord, status \in {"ACCEPTED", "REJECTED"} :
        /\ SaveTicket(r, row)
        /\ escalation' = [escalation EXCEPT ![call[r].esc].status = status]
        /\ answers' = [answers EXCEPT ![call[r].esc] = @ + 1]
        /\ row.owner # NoUser => UserCanOperatePool(row.owner, TicketGuard(row))
  <2>1. CASE CommitAccept(r)
    <3> DEFINE row == Accepted(call[r], view[r], e)
    <3>1. row \in TicketRecord
      BY <1>1, <1>2, RowTypes DEF RowSound
    <3>2. row.owner = e.target /\ row.level = HighestRole(e.target)
          /\ row.pool = IF e.sourcePool # NoPool THEN e.sourcePool ELSE ticket.pool
      BY <1>1, <1>2 DEF Accepted, TicketRecord, RowSound
    <3>3. UserCanOperatePool(row.owner, TicketGuard(row))
      <4>1. CASE e.sourcePool # NoPool
        BY <1>2, <3>2, <4>1 DEF RowSound, TicketGuard, OperationPool
      <4>2. CASE e.sourcePool = NoPool /\ ticket.pool # NoPool
        <5>1. MayOperate(call[r], ticket)
          BY <1>1, <2>1 DEF ViewsSound, CommitAccept, CommitAnswer
        <5> QED BY <1>2, <3>2, <4>2, <5>1
                DEF MayOperate, TicketGuard, OperationPool, UserCanOperatePool
      <4>3. CASE e.sourcePool = NoPool /\ ticket.pool = NoPool
        <5>1. UserCanOperatePool(e.target, LevelPool[e.sourceLevel])
          BY <1>2, <4>3 DEF RowSound, OperationPool
        <5>2. e.sourceLevel \in Tiers
          BY <1>2 DEF EscalationRecord
        <5>3. OperationPool(e.sourcePool, e.sourceLevel) = LevelPool[e.sourceLevel]
          BY <4>3 DEF OperationPool
        <5>4. UserCanOperatePool(e.target, LevelPool[HighestRole(e.target)])
          BY <1>2, <5>1, <5>2, <4>3, OwnLevelPool DEF RowSound
        <5> QED BY <3>2, <4>3, <5>4 DEF TicketGuard, OperationPool
      <4> QED BY <4>1, <4>2, <4>3
    <3>4. /\ SaveTicket(r, row)
          /\ escalation' = [escalation EXCEPT ![call[r].esc].status = "ACCEPTED"]
          /\ answers' = [answers EXCEPT ![call[r].esc] = @ + 1]
      BY <2>1 DEF CommitAccept, CommitAnswer
    <3> HIDE DEF row
    <3> QED BY <3>1, <3>3, <3>4
  <2>2. CASE CommitReject(r)
    <3> DEFINE row == Rejected(view[r], e)
    <3>1. row \in TicketRecord
      BY <1>1, <1>2, RowTypes
    <3>2. row.owner = e.sourceOwner /\ row.level = e.sourceLevel /\ row.pool = e.sourcePool
      BY <1>1, <1>2 DEF Rejected, TicketRecord
    <3>3. row.owner # NoUser => UserCanOperatePool(row.owner, TicketGuard(row))
      BY <1>2, <3>2 DEF RowSound, TicketGuard
    <3>4. /\ SaveTicket(r, row)
          /\ escalation' = [escalation EXCEPT ![call[r].esc].status = "REJECTED"]
          /\ answers' = [answers EXCEPT ![call[r].esc] = @ + 1]
      BY <2>2 DEF CommitReject, CommitAnswer
    <3> HIDE DEF row
    <3> QED BY <3>1, <3>3, <3>4
  <2> QED BY <2>1, <2>2
<1>4. /\ escalation' \in [Escalations -> EscalationRecord]
      /\ escalation'[call[r].esc] = [e EXCEPT !.status = status]
      /\ \A f \in Escalations : f # call[r].esc => escalation'[f] = escalation[f]
  <2>1. [e EXCEPT !.status = status] \in EscalationRecord
    BY <1>2 DEF EscalationRecord
  <2> QED BY <1>1, <1>2, <1>3, <2>1
<1>5. escalation'[call[r].esc].status = status /\ escalation'[call[r].esc].target = e.target
      /\ RowSound(escalation'[call[r].esc])
  BY <1>2, <1>4 DEF RowSound, EscalationRecord
<1>6. TypeOK'
  <2>1. answers' \in [Escalations -> Nat]
    BY <1>1, <1>2, <1>3
  <2> QED BY <1>3, <1>4, <2>1, SaveFrame DEF TypeOK
<1>7. AtMostOnePending'
  <2>1. Pending' \subseteq Pending
    BY <1>3, <1>4, <1>5 DEF Pending
  <2> QED BY <2>1 DEF AtMostOnePending
<1>8. EscalationsSound'
  BY <1>4, <1>5 DEF EscalationsSound
<1>9. AnswersSound'
  <2>1. pc'[r] = "idle" /\ \A s \in Requests : s # r => pc'[s] = pc[s] /\ call'[s] = call[s]
    BY <1>3 DEF SaveTicket, Finish, TypeOK
  <2>2. \A f \in Escalations :
          /\ escalation[f].status # "ABSENT" => escalation'[f].status # "ABSENT"
          /\ escalation'[f].target = escalation[f].target
    BY <1>3, <1>4, <1>5
  <2> HIDE DEF e
  <2> QED BY <2>1, <2>2 DEF AnswersSound, InFlight
<1>10. HandlerHasAuthority'
  <2>1. ticket'.owner = row.owner /\ ticket'.pool = row.pool /\ ticket'.level = row.level
    BY <1>3, SaveFrame DEF TicketRecord
  <2> QED BY <1>3, <2>1 DEF HandlerHasAuthority, TicketGuard
<1> QED BY <1>3, <1>6, <1>7, <1>8, <1>9, <1>10, SaveFrame

-----------------------------------------------------------------------------
(* The inductive invariant.                                                *)

LEMMA StepInvariant == IInv /\ [Next]_vars => IInv'
<1> SUFFICES ASSUME IInv, [Next]_vars PROVE IInv'
  OBVIOUS
<1>1. ASSUME NEW pool \in Pools, CreateTicket(pool) PROVE IInv'
  BY <1>1, CreateInvariant
<1>2. ASSUME NEW r \in Requests, ReceiveVersioned(r) \/ ReceiveAnswer(r) PROVE IInv'
  BY <1>2, ReceiveInvariant
<1>3. ASSUME NEW r \in Requests, Read(r) PROVE IInv'
  BY <1>3, ReadInvariant
<1>4. ASSUME NEW r \in Requests, Commit(r) PROVE IInv'
  BY <1>4, TicketCommitInvariant, EscalateToUserInvariant, AnswerInvariant DEF Commit
<1>5. ASSUME NEW r \in Requests, Refuse(r) PROVE IInv'
  BY <1>5, RefuseInvariant
<1>6. CASE UNCHANGED vars
  BY <1>6 DEF vars, IInv, TypeOK, CallsSound, ViewsSound, ViewsOfThePast, InFlight,
     NoPendingSinceChecked, AnswersSound, EscalationsSound, AtMostOnePending,
     HandlerHasAuthority, Pending, MayOperate, TicketGuard
<1> QED BY <1>1, <1>2, <1>3, <1>4, <1>5, <1>6 DEF Next

(* Every reachable state satisfies the inductive invariant.                *)
THEOREM Invariant == Spec => []IInv
<1>1. Init => IInv
  BY InitInvariant
<1>2. IInv /\ [Next]_vars => IInv'
  BY StepInvariant
<1> QED BY <1>1, <1>2, PTL DEF Spec

(* Every column keeps its domain, in particular the level never takes the  *)
(* code of a pool (the assignments of tickets/service.py).                 *)
THEOREM TypeCorrect == Spec => []TypeOK
<1>1. IInv => TypeOK
  BY DEF IInv
<1> QED BY <1>1, Invariant, PTL

(* However many requests race through _assert_no_pending_escalation, a     *)
(* ticket has at most one escalation awaiting an answer.                   *)
THEOREM OnePending == Spec => []AtMostOnePending
<1>1. IInv => AtMostOnePending
  BY DEF IInv
<1> QED BY <1>1, Invariant, PTL

(* The handler of a ticket may operate on it (claim_ticket, assign_ticket, *)
(* accept_ticket_escalation, reject_ticket_escalation).                    *)
THEOREM Authority == Spec => []HandlerHasAuthority
<1>1. IInv => HandlerHasAuthority
  BY DEF IInv
<1> QED BY <1>1, Invariant, PTL

(* A versioned operation commits only on the version its caller was shown  *)
(* (_assert_ticket_version and _commit_ticket_changes together).           *)
THEOREM ShownVersion == Spec => AppliesToWhatWasShown
<1>1. IInv /\ [Next]_vars =>
        [\A r \in Requests : Commits(r) /\ call[r].op \in VersionedOps
            => call[r].expected = ticket.version]_vars
  <2> SUFFICES ASSUME IInv, Next, NEW r \in Requests, Commits(r), call[r].op \in VersionedOps
               PROVE  call[r].expected = ticket.version
    BY DEF vars
  <2>1. pc[r] = "checked" /\ pc'[r] = "idle" /\ ticket' # ticket
        /\ pc \in [Requests -> {"idle", "received", "loaded", "checked"}]
    BY DEF Commits, IInv, TypeOK
  <2>2. PICK s \in Requests : Commit(s)
    <3>1. \A pool \in Pools : ~CreateTicket(pool)
      BY <2>1 DEF CreateTicket
    <3>2. \A s \in Requests : ~(ReceiveVersioned(s) \/ ReceiveAnswer(s) \/ Read(s) \/ Refuse(s))
      BY <2>1 DEF ReceiveVersioned, ReceiveAnswer, Receive, Read, LoadTicket, CheckNoPending,
         LoadEscalation, LoadTicketOfEscalation, Refuse
    <3> QED BY <3>1, <3>2 DEF Next
  <2>3. view[s].version = ticket.version /\ pc' = [pc EXCEPT ![s] = "idle"]
    BY <2>2 DEF Commit, CommitStatus, CommitClaim, CommitMoveToPool, CommitAssign,
       CommitEscalateToPool, CommitEscalateToUser, CommitAccept, CommitReject, CommitAnswer,
       SaveTicket, Finish
  <2>4. s = r
    BY <2>1, <2>3
  <2> QED BY <2>1, <2>3, <2>4 DEF IInv, ViewsSound, InFlight
<1> QED BY <1>1, Invariant, PTL DEF Spec, AppliesToWhatWasShown

-----------------------------------------------------------------------------
(* With one answer to an escalation at a time.                             *)

LEMMA InitSerial == Init => SIInv
BY WorkflowAssumption
   DEF Init, SIInv, OneAnswerInFlight, NothingPendingBeforeCreation, AnswersStillPending,
       AnsweredOnce, PendingFreezesOwnership, PendingIsShown, Pending, InFlight, NoCall, NoRow,
       AnswerOps

(* What every commit does to the requests and to the shape of the row.     *)
LEMMA SerialSave ==
    ASSUME IInv, SIInv, NEW r \in Requests, NEW row \in TicketRecord, SaveTicket(r, row)
    PROVE  /\ view[r] = ticket /\ pc[r] = "checked"
           /\ ticket'.owner = row.owner /\ ticket'.pool = row.pool
           /\ ticket'.level = row.level /\ ticket'.sub = row.sub
           /\ pc'[r] = "idle" /\ call'[r] = NoCall
           /\ \A s \in Requests : s # r => pc'[s] = pc[s] /\ call'[s] = call[s]
           /\ OneAnswerInFlight' /\ NothingPendingBeforeCreation'
<1>1. ticket' = [row EXCEPT !.version = ticket.version + 1] /\ ticket.version \in Nat
      /\ view[r] = ticket
  BY SaveFrame DEF IInv, TypeOK, TicketRecord
<1>2. /\ ticket'.owner = row.owner /\ ticket'.pool = row.pool
      /\ ticket'.level = row.level /\ ticket'.sub = row.sub
      /\ ticket'.version = ticket.version + 1
  BY <1>1 DEF TicketRecord
<1>3. /\ pc[r] = "checked" /\ pc'[r] = "idle" /\ call'[r] = NoCall
      /\ \A s \in Requests : s # r => pc'[s] = pc[s] /\ call'[s] = call[s]
  BY DEF SaveTicket, Finish, IInv, TypeOK
<1>4. OneAnswerInFlight'
  BY <1>3 DEF SIInv, OneAnswerInFlight, NoCall, AnswerOps
<1>5. NothingPendingBeforeCreation'
  BY <1>1, <1>2 DEF NothingPendingBeforeCreation
<1> QED BY <1>1, <1>2, <1>3, <1>4, <1>5

LEMMA SerialTicketCommit ==
    ASSUME IInv, SIInv, NEW r \in Requests,
           \/ CommitStatus(r) \/ CommitClaim(r) \/ CommitMoveToPool(r)
           \/ CommitAssign(r) \/ CommitEscalateToPool(r)
    PROVE  SIInv'
<1>1. /\ call[r] \in CallRecord /\ view[r] \in TicketRecord /\ pc[r] = "checked"
      /\ view[r].version = ticket.version /\ UNCHANGED <<escalation, answers>>
  BY DEF CommitStatus, CommitClaim, CommitMoveToPool, CommitAssign, CommitEscalateToPool,
         SaveTicket, IInv, TypeOK
<1>2. /\ view[r] = ticket /\ call[r].actor \in Users
      /\ call[r].op \in VersionedOps => Permitted(call[r], ticket)
  BY <1>1 DEF IInv, ViewsOfThePast, CallsSound, ViewsSound, InFlight
<1>3. PICK row \in TicketRecord :
        /\ SaveTicket(r, row)
        /\ \/ Pending = {}
           \/ /\ row.owner = ticket.owner /\ row.pool = ticket.pool
              /\ row.level = ticket.level /\ row.sub = ticket.sub
  <2>1. CASE CommitStatus(r)
    <3> DEFINE row == [view[r] EXCEPT !.status = MainStatusAfter(call[r].op, @)]
    <3>1. row \in TicketRecord
      BY <1>1, CommonTypes, RowTypes
    <3>2. /\ row.owner = ticket.owner /\ row.pool = ticket.pool
          /\ row.level = ticket.level /\ row.sub = ticket.sub
      BY <1>1, <1>2 DEF TicketRecord
    <3>3. SaveTicket(r, row)
      BY <2>1 DEF CommitStatus
    <3> HIDE DEF row
    <3> QED BY <3>1, <3>2, <3>3
  <2>2. CASE CommitClaim(r) \/ CommitMoveToPool(r) \/ CommitAssign(r) \/ CommitEscalateToPool(r)
    <3>1. call[r].op \in OwnershipOps
      BY <2>2 DEF CommitClaim, CommitMoveToPool, CommitAssign, CommitEscalateToPool, OwnershipOps
    <3>2. Pending = {}
      BY <1>1, <3>1 DEF IInv, NoPendingSinceChecked
    <3>3. Permitted(call[r], ticket)
      BY <1>2, <3>1 DEF VersionedOps
    <3>4. CASE CommitClaim(r)
      <4>1. Claimed(call[r], view[r]) \in TicketRecord
        BY <1>1, <1>2, CommonTypes, RowTypes
      <4> QED BY <3>2, <3>4, <4>1 DEF CommitClaim
    <3>5. CASE CommitMoveToPool(r)
      <4>1. MovedToPool(view[r]) \in TicketRecord
        BY <1>1, CommonTypes, RowTypes
      <4> QED BY <3>2, <3>5, <4>1 DEF CommitMoveToPool
    <3>6. CASE CommitAssign(r)
      <4>1. call[r].target \in Users
        BY <3>3, <3>6 DEF CommitAssign, Permitted, TargetFits
      <4>2. Assigned(call[r], view[r]) \in TicketRecord
        BY <1>1, <4>1, CommonTypes, RowTypes
      <4> QED BY <3>2, <3>6, <4>2 DEF CommitAssign
    <3>7. CASE CommitEscalateToPool(r)
      <4>1. NextPool(view[r].pool, view[r].level) # NoPool
        BY <1>2, <3>3, <3>7 DEF CommitEscalateToPool, Permitted
      <4>2. EscalatedToPool(view[r]) \in TicketRecord
        BY <1>1, <4>1, CommonTypes, RowTypes
      <4> QED BY <3>2, <3>7, <4>2 DEF CommitEscalateToPool
    <3> QED BY <2>2, <3>4, <3>5, <3>6, <3>7
  <2> QED BY <2>1, <2>2
<1>4. Pending' = Pending
  BY <1>1 DEF Pending
<1>5. AnswersStillPending' /\ AnsweredOnce'
  BY <1>1, <1>3, <1>4, SerialSave DEF SIInv, AnswersStillPending, AnsweredOnce, InFlight
<1>6. PendingFreezesOwnership' /\ PendingIsShown'
  BY <1>1, <1>3, <1>4, SerialSave DEF SIInv, PendingFreezesOwnership, PendingIsShown
<1> QED BY <1>3, <1>5, <1>6, SerialSave DEF SIInv

LEMMA SerialEscalateToUser ==
    ASSUME IInv, SIInv, NEW r \in Requests, CommitEscalateToUser(r)
    PROVE  SIInv'
<1> DEFINE row == Requested(view[r])
           new == EscalationRow(call[r], view[r])
<1>1. PICK e \in Escalations :
        /\ SaveTicket(r, row) /\ call[r].op = "escalate_user" /\ answers' = answers
        /\ escalation[e].status = "ABSENT" /\ escalation' = [escalation EXCEPT ![e] = new]
  BY DEF CommitEscalateToUser
<1>2. /\ pc[r] = "checked" /\ view[r] \in TicketRecord /\ view[r] = ticket
      /\ escalation \in [Escalations -> EscalationRecord] /\ call[r] \in CallRecord
  BY <1>1 DEF SaveTicket, IInv, TypeOK, ViewsOfThePast
<1>3. row \in TicketRecord
  BY <1>2, CommonTypes, RowTypes
<1>4. /\ row.owner = ticket.owner /\ row.pool = ticket.pool /\ row.level = ticket.level
      /\ row.sub = "ESCALATION_PENDING_CONFIRM"
  BY <1>2 DEF Requested, TicketRecord
<1>5. /\ new.sourceOwner = ticket.owner /\ new.sourcePool = ticket.pool
      /\ new.sourceLevel = ticket.level /\ new.status = "PENDING_CONFIRM"
  BY <1>2 DEF EscalationRow
<1>6. Pending = {}
  BY <1>1, <1>2 DEF IInv, NoPendingSinceChecked, OwnershipOps
<1> HIDE DEF row, new
<1>7. escalation'[e] = new /\ \A f \in Escalations : f # e => escalation'[f] = escalation[f]
  BY <1>1, <1>2
<1>8. AnswersStillPending'
  BY <1>1, <1>3, <1>6, <1>7, SerialSave DEF SIInv, AnswersStillPending, Pending, InFlight
<1>9. AnsweredOnce'
  BY <1>1, <1>5, <1>7 DEF SIInv, AnsweredOnce
<1>10. PendingFreezesOwnership' /\ PendingIsShown'
  <2>1. Pending' = {e}
    BY <1>5, <1>6, <1>7 DEF Pending
  <2>2. /\ ticket'.owner = ticket.owner /\ ticket'.pool = ticket.pool
        /\ ticket'.level = ticket.level /\ ticket'.sub = "ESCALATION_PENDING_CONFIRM"
    BY <1>1, <1>3, <1>4, SerialSave
  <2> QED BY <1>5, <1>7, <2>1, <2>2 DEF PendingFreezesOwnership, PendingIsShown
<1> QED BY <1>1, <1>3, <1>8, <1>9, <1>10, SerialSave DEF SIInv

(* The one request that may answer ends the wait of its escalation.        *)
LEMMA SerialAnswer ==
    ASSUME IInv, SIInv, NEW r \in Requests, CommitAccept(r) \/ CommitReject(r)
    PROVE  SIInv'
<1> DEFINE e == escalation[call[r].esc]
<1>1. /\ pc[r] = "checked" /\ view[r] \in TicketRecord /\ call[r] \in CallRecord
      /\ view[r] = ticket /\ call[r].op \in AnswerOps
      /\ escalation \in [Escalations -> EscalationRecord]
      /\ answers \in [Escalations -> Nat]
  BY DEF CommitAccept, CommitReject, CommitAnswer, SaveTicket, IInv, TypeOK, ViewsOfThePast,
         AnswerOps
<1>2. /\ call[r].esc \in Escalations /\ e \in EscalationRecord /\ RowSound(e)
      /\ call[r].actor \in Users /\ call[r].esc \in Pending /\ answers[call[r].esc] = 0
  BY <1>1 DEF IInv, AnswersSound, InFlight, EscalationsSound, CallsSound,
              SIInv, AnswersStillPending, AnsweredOnce, Pending
<1>3. PICK row \in TicketRecord, status \in {"ACCEPTED", "REJECTED"} :
        /\ SaveTicket(r, row)
        /\ escalation' = [escalation EXCEPT ![call[r].esc].status = status]
        /\ answers' = [answers EXCEPT ![call[r].esc] = @ + 1]
  <2>1. Accepted(call[r], view[r], e) \in TicketRecord /\ Rejected(view[r], e) \in TicketRecord
    BY <1>1, <1>2, RowTypes
  <2>2. CASE CommitAccept(r)
    BY <2>1, <2>2 DEF CommitAccept, CommitAnswer
  <2>3. CASE CommitReject(r)
    BY <2>1, <2>3 DEF CommitReject, CommitAnswer
  <2> QED BY <2>2, <2>3
<1>4. /\ escalation'[call[r].esc].status = status
      /\ answers'[call[r].esc] = 1
      /\ \A f \in Escalations : f # call[r].esc =>
            escalation'[f] = escalation[f] /\ answers'[f] = answers[f]
  <2>1. escalation'[call[r].esc] = [e EXCEPT !.status = status]
    BY <1>1, <1>2, <1>3
  <2>2. escalation'[call[r].esc].status = status
    BY <1>2, <2>1 DEF EscalationRecord
  <2>3. answers'[call[r].esc] = 1
    BY <1>1, <1>2, <1>3
  <2>4. \A f \in Escalations : f # call[r].esc =>
            escalation'[f] = escalation[f] /\ answers'[f] = answers[f]
    BY <1>1, <1>2, <1>3
  <2> QED BY <2>2, <2>3, <2>4
<1> HIDE DEF e
<1>5. Pending' = {}
  BY <1>2, <1>4 DEF IInv, AtMostOnePending, Pending
<1>6. AnswersStillPending'
  <2>1. ASSUME NEW s \in Requests, s # r, InFlight(s), call[s].op \in AnswerOps PROVE FALSE
    <3>1. call[s].esc \in Pending
      BY <2>1 DEF SIInv, AnswersStillPending
    <3>2. call[s].esc = call[r].esc
      BY <1>2, <3>1 DEF IInv, AtMostOnePending
    <3> QED BY <1>1, <2>1, <3>2 DEF SIInv, OneAnswerInFlight
  <2> QED BY <1>3, <2>1, SerialSave DEF AnswersStillPending, InFlight
<1>7. AnsweredOnce'
  BY <1>4 DEF SIInv, AnsweredOnce
<1>8. PendingFreezesOwnership' /\ PendingIsShown'
  BY <1>5 DEF PendingFreezesOwnership, PendingIsShown
<1> QED BY <1>3, <1>6, <1>7, <1>8, SerialSave DEF SIInv

(* Steps that leave both tables alone.                                     *)
LEMMA SerialRequestStep ==
    ASSUME SerialResponders, IInv, SIInv, NEW r \in Requests,
           ReceiveVersioned(r) \/ ReceiveAnswer(r) \/ Read(r) \/ Refuse(r)
    PROVE  SIInv'
<1>1. UNCHANGED <<ticket, escalation, answers>>
  BY DEF ReceiveVersioned, ReceiveAnswer, Receive, Read, LoadTicket, CheckNoPending,
         LoadEscalation, LoadTicketOfEscalation, Refuse
<1>2. /\ NothingPendingBeforeCreation' /\ AnsweredOnce' /\ PendingFreezesOwnership'
      /\ PendingIsShown' /\ Pending' = Pending
  BY <1>1 DEF SIInv, NothingPendingBeforeCreation, AnsweredOnce, PendingFreezesOwnership,
              PendingIsShown, Pending
<1>3. /\ pc \in [Requests -> {"idle", "received", "loaded", "checked"}]
      /\ call \in [Requests -> CallRecord]
  BY DEF IInv, TypeOK
<1>4. CASE Read(r)
  <2>1. call' = call /\ \A s \in Requests : s # r => pc'[s] = pc[s]
    BY <1>3, <1>4 DEF Read, LoadTicket, CheckNoPending, LoadEscalation, LoadTicketOfEscalation,
       Advance
  <2>2. call[r].op \in AnswerOps => call[r].esc \in Pending
    <3>1. VersionedOps \cap AnswerOps = {} /\ OwnershipOps \subseteq VersionedOps
      BY DEF VersionedOps, AnswerOps, OwnershipOps, StatusOps
    <3>2. CASE LoadEscalation(r)
      BY <3>2 DEF LoadEscalation, Advance, IInv, CallsSound, Pending
    <3>3. CASE LoadTicketOfEscalation(r)
      BY <3>3 DEF LoadTicketOfEscalation, Advance, SIInv, AnswersStillPending, InFlight
    <3> QED BY <1>4, <3>1, <3>2, <3>3 DEF Read, LoadTicket, CheckNoPending
  <2>3. OneAnswerInFlight' /\ AnswersStillPending'
    BY <1>2, <2>1, <2>2 DEF SIInv, OneAnswerInFlight, AnswersStillPending, InFlight
  <2> QED BY <1>2, <2>3 DEF SIInv
<1>5. CASE Refuse(r)
  <2>1. /\ pc'[r] = "idle" /\ call'[r] = NoCall
        /\ \A s \in Requests : s # r => pc'[s] = pc[s] /\ call'[s] = call[s]
    BY <1>3, <1>5 DEF Refuse, Finish
  <2>2. NoCall.op \notin AnswerOps
    BY DEF NoCall, AnswerOps
  <2>3. OneAnswerInFlight' /\ AnswersStillPending'
    BY <1>2, <2>1, <2>2 DEF SIInv, OneAnswerInFlight, AnswersStillPending, InFlight
  <2> QED BY <1>2, <2>3 DEF SIInv
<1>6. CASE ReceiveVersioned(r)
  <2>1. /\ pc'[r] = "received" /\ call'[r].op \in VersionedOps
        /\ \A s \in Requests : s # r => pc'[s] = pc[s] /\ call'[s] = call[s]
    BY <1>3, <1>6 DEF ReceiveVersioned, Receive
  <2>2. call'[r].op \notin AnswerOps
    BY <2>1 DEF VersionedOps, AnswerOps, OwnershipOps, StatusOps
  <2>3. OneAnswerInFlight' /\ AnswersStillPending'
    BY <1>2, <2>1, <2>2 DEF SIInv, OneAnswerInFlight, AnswersStillPending, InFlight
  <2> QED BY <1>2, <2>3 DEF SIInv
<1>7. CASE ReceiveAnswer(r)
  <2>1. /\ pc'[r] = "received"
        /\ \A s \in Requests : call[s].esc # call'[r].esc
        /\ \A s \in Requests : s # r => pc'[s] = pc[s] /\ call'[s] = call[s]
    BY <1>3, <1>7 DEF ReceiveAnswer, Receive
  <2>2. OneAnswerInFlight' /\ AnswersStillPending'
    BY <1>2, <2>1 DEF SIInv, OneAnswerInFlight, AnswersStillPending, InFlight
  <2> QED BY <1>2, <2>2 DEF SIInv
<1> QED BY <1>4, <1>5, <1>6, <1>7

LEMMA SerialCreate ==
    ASSUME IInv, SIInv, NEW pool \in Pools, CreateTicket(pool)
    PROVE  SIInv'
<1>1. ticket.version = 0 /\ ticket'.version = 1 /\ UNCHANGED <<escalation, answers, pc, call>>
  BY DEF CreateTicket, NoTicket
<1>2. Pending = {} /\ Pending' = {}
  BY <1>1 DEF SIInv, NothingPendingBeforeCreation, Pending
<1>3. NothingPendingBeforeCreation' /\ PendingFreezesOwnership' /\ PendingIsShown'
  BY <1>2 DEF NothingPendingBeforeCreation, PendingFreezesOwnership, PendingIsShown
<1>4. OneAnswerInFlight' /\ AnswersStillPending' /\ AnsweredOnce'
  BY <1>1, <1>2 DEF SIInv, OneAnswerInFlight, AnswersStillPending, AnsweredOnce, InFlight
<1> QED BY <1>3, <1>4 DEF SIInv

(* Every reachable state also satisfies SIInv when the answers to an       *)
(* escalation come one at a time.                                          *)
THEOREM SerialInvariant ==
    ASSUME SerialResponders
    PROVE  Spec => []SIInv
<1>1. Init => SIInv
  BY InitSerial
<1>2. IInv /\ SIInv /\ [Next]_vars => SIInv'
  <2> SUFFICES ASSUME IInv, SIInv, [Next]_vars PROVE SIInv'
    OBVIOUS
  <2>1. ASSUME NEW pool \in Pools, CreateTicket(pool) PROVE SIInv'
    BY <2>1, SerialCreate
  <2>2. ASSUME NEW r \in Requests, ReceiveVersioned(r) \/ ReceiveAnswer(r) \/ Read(r) \/ Refuse(r)
        PROVE  SIInv'
    BY <2>2, SerialRequestStep
  <2>3. ASSUME NEW r \in Requests, Commit(r) PROVE SIInv'
    BY <2>3, SerialTicketCommit, SerialEscalateToUser, SerialAnswer DEF Commit
  <2>4. CASE UNCHANGED vars
    BY <2>4 DEF vars, SIInv, OneAnswerInFlight, NothingPendingBeforeCreation,
       AnswersStillPending, AnsweredOnce, PendingFreezesOwnership, PendingIsShown, Pending,
       InFlight
  <2> QED BY <2>1, <2>2, <2>3, <2>4 DEF Next
<1> QED BY <1>1, <1>2, Invariant, PTL DEF Spec

(* Accept and reject are mutually exclusive: an escalation is answered at  *)
(* most once (accept_ticket_escalation, reject_ticket_escalation).         *)
THEOREM OneAnswer ==
    ASSUME SerialResponders
    PROVE  Spec => []AnsweredOnce
<1>1. SIInv => AnsweredOnce
  BY DEF SIInv
<1> QED BY <1>1, SerialInvariant, PTL

(* While an escalation waits, the ticket stays where the escalation found  *)
(* it, so a rejection restores the present (reject_ticket_escalation).     *)
THEOREM FrozenWhilePending ==
    ASSUME SerialResponders
    PROVE  Spec => []PendingFreezesOwnership
<1>1. SIInv => PendingFreezesOwnership
  BY DEF SIInv
<1> QED BY <1>1, SerialInvariant, PTL

(* A ticket whose escalation waits says so in its sub status, whatever     *)
(* status operations commit meanwhile (escalate_ticket_to_user).           *)
THEOREM PendingShown ==
    ASSUME SerialResponders
    PROVE  Spec => []PendingIsShown
<1>1. SIInv => PendingIsShown
  BY DEF SIInv
<1> QED BY <1>1, SerialInvariant, PTL

-----------------------------------------------------------------------------
(* The main status of the ticket, and what a row is before its creation.   *)

(* No operation writes these two, so none is performed out of them.        *)
Unwritten == {"REOPENED", "RESOLUTION_TIMEOUT"}

RowInv ==
    /\ ticket.status \notin Unwritten
    /\ ticket.version = 0 => ticket.owner = NoUser /\ ticket.pool = NoPool

Moves == {<<"WAITING_RESPONSE", "IN_PROGRESS">>, <<"IN_PROGRESS", "RESOLVED">>,
          <<"RESPONSE_TIMEOUT", "RESOLVED">>, <<"RESOLVED", "CLOSED">>,
          <<"CLOSED", "WAITING_RESPONSE">>}

(* What a status operation may do where the service allows it.             *)
LEMMA StatusMoves ==
    ASSUME NEW op, NEW status \in Statuses, status \notin Unwritten, StatusAllows(op, status)
    PROVE  \/ MainStatusAfter(op, status) = status
           \/ <<status, MainStatusAfter(op, status)>> \in Moves
<1>1. CASE op = "respond" /\ status = "WAITING_RESPONSE"
  BY <1>1 DEF MainStatusAfter, Moves
<1>2. CASE op = "respond" /\ status = "RESPONSE_TIMEOUT"
  BY <1>2 DEF MainStatusAfter
<1>3. CASE op = "resolve" /\ status \in {"IN_PROGRESS", "RESPONSE_TIMEOUT"}
  BY <1>3 DEF MainStatusAfter, Moves
<1>4. CASE op = "close" /\ status = "RESOLVED"
  BY <1>4 DEF MainStatusAfter, Moves
<1>5. CASE op = "reopen" /\ status = "CLOSED"
  BY <1>5 DEF MainStatusAfter, Moves
<1>6. CASE op \notin {"respond", "resolve", "close", "reopen"}
  BY <1>6 DEF MainStatusAfter
<1> QED BY <1>1, <1>2, <1>3, <1>4, <1>5, <1>6 DEF StatusAllows, Unwritten

(* A commit creates no row, and moves the main status along the lifecycle. *)
LEMMA CommitStatusMoves ==
    ASSUME IInv, ticket.status \notin Unwritten, NEW r \in Requests, Commit(r)
    PROVE  /\ ticket'.version # 0
           /\ ticket'.status = ticket.status \/ <<ticket.status, ticket'.status>> \in Moves
<1>1. /\ pc[r] = "checked" /\ view[r].version = ticket.version /\ ticket \in TicketRecord
      /\ ticket.version \in Nat /\ ticket.version + 1 # 0
  BY DEF Commit, CommitStatus, CommitClaim, CommitMoveToPool, CommitAssign, CommitEscalateToPool,
         CommitEscalateToUser, CommitAccept, CommitReject, CommitAnswer, SaveTicket,
         IInv, TypeOK, TicketRecord
<1>2. view[r] = ticket
  BY <1>1 DEF IInv, ViewsOfThePast
<1>3. /\ call[r].op \in VersionedOps => Permitted(call[r], ticket)
  BY <1>1, <1>2 DEF IInv, ViewsSound, InFlight
<1>4. CASE CommitStatus(r)
  <2>1. StatusAllows(call[r].op, ticket.status)
    BY <1>3, <1>4 DEF CommitStatus, VersionedOps, Permitted
  <2>2. ticket' = [[ticket EXCEPT !.status = MainStatusAfter(call[r].op, ticket.status)]
                    EXCEPT !.version = ticket.version + 1]
    BY <1>2, <1>4 DEF CommitStatus, SaveTicket
  <2>3. ticket'.status = MainStatusAfter(call[r].op, ticket.status)
        /\ ticket'.version = ticket.version + 1
    BY <1>1, <2>2 DEF TicketRecord
  <2>4. ticket.status \in Statuses
    BY <1>1 DEF TicketRecord
  <2> QED BY <1>1, <2>1, <2>3, <2>4, StatusMoves
<1>5. CASE ~CommitStatus(r)
  <2>1. ticket'.status = ticket.status /\ ticket'.version = ticket.version + 1
    <3>1. CASE CommitClaim(r)
      BY <1>1, <1>2, <3>1 DEF CommitClaim, SaveTicket, Claimed, TicketRecord
    <3>2. CASE CommitMoveToPool(r)
      BY <1>1, <1>2, <3>2 DEF CommitMoveToPool, SaveTicket, MovedToPool, TicketRecord
    <3>3. CASE CommitAssign(r)
      BY <1>1, <1>2, <3>3 DEF CommitAssign, SaveTicket, Assigned, TicketRecord
    <3>4. CASE CommitEscalateToPool(r)
      BY <1>1, <1>2, <3>4 DEF CommitEscalateToPool, SaveTicket, EscalatedToPool, TicketRecord
    <3>5. CASE CommitEscalateToUser(r)
      BY <1>1, <1>2, <3>5 DEF CommitEscalateToUser, SaveTicket, Requested, TicketRecord
    <3>6. CASE CommitAccept(r)
      BY <1>1, <1>2, <3>6 DEF CommitAccept, CommitAnswer, SaveTicket, Accepted, TicketRecord
    <3>7. CASE CommitReject(r)
      BY <1>1, <1>2, <3>7 DEF CommitReject, CommitAnswer, SaveTicket, Rejected, TicketRecord
    <3> QED BY <1>5, <3>1, <3>2, <3>3, <3>4, <3>5, <3>6, <3>7 DEF Commit
  <2> QED BY <1>1, <2>1
<1> QED BY <1>4, <1>5

(* Whatever is neither a creation nor a commit leaves both tables alone.   *)
LEMMA TableSteps ==
    ASSUME [Next]_vars
    PROVE  \/ \E pool \in Pools : CreateTicket(pool)
           \/ \E r \in Requests : Commit(r)
           \/ UNCHANGED <<ticket, escalation>>
BY DEF Next, vars, ReceiveVersioned, ReceiveAnswer, Receive, Read, LoadTicket, CheckNoPending,
       LoadEscalation, LoadTicketOfEscalation, Refuse

LEMMA RowInvariant == Spec => []RowInv
<1>1. Init => RowInv
  BY WorkflowAssumption DEF Init, RowInv, Unwritten, SeededTickets, NoTicket
<1>2. IInv /\ RowInv /\ [Next]_vars => RowInv'
  <2> SUFFICES ASSUME IInv, RowInv, [Next]_vars PROVE RowInv'
    OBVIOUS
  <2>1. ASSUME NEW pool \in Pools, CreateTicket(pool) PROVE RowInv'
    BY <2>1 DEF CreateTicket, NoTicket, RowInv, Unwritten
  <2>2. ASSUME NEW r \in Requests, Commit(r) PROVE RowInv'
    BY <2>2, CommitStatusMoves DEF RowInv, Moves, Unwritten
  <2>3. CASE UNCHANGED <<ticket, escalation>>
    BY <2>3 DEF RowInv
  <2> QED BY <2>1, <2>2, <2>3, TableSteps
<1> QED BY <1>1, <1>2, Invariant, PTL DEF Spec

(* The main status moves along the lifecycle whatever races with it: the   *)
(* status an operation was allowed in is the status it is performed in     *)
(* (_available_actions, then the commit conditional on the version).       *)
THEOREM Lifecycle == Spec => LifecycleOrder
<1>1. IInv /\ RowInv /\ [Next]_vars =>
        [\/ ticket'.status = ticket.status
         \/ ticket.version = 0
         \/ <<ticket.status, ticket'.status>> \in
              {<<"WAITING_RESPONSE", "IN_PROGRESS">>, <<"IN_PROGRESS", "RESOLVED">>,
               <<"RESPONSE_TIMEOUT", "RESOLVED">>, <<"RESOLVED", "CLOSED">>,
               <<"CLOSED", "WAITING_RESPONSE">>}]_vars
  BY TableSteps, CommitStatusMoves DEF RowInv, Moves, CreateTicket
<1> QED BY <1>1, Invariant, RowInvariant, PTL DEF Spec, LifecycleOrder

-----------------------------------------------------------------------------
(* The interleaved handlers implement the atomic ownership flows.          *)

(* The abstract specification speaks of the same roles, tiers and pools.   *)
LEMMA SameRoles ==
    /\ Ownership!Tiers = Tiers /\ Ownership!Pools = Pools /\ Ownership!NoPool = NoPool
    /\ Ownership!PoolLevel = PoolLevel
    /\ \A pool, level : /\ Ownership!OperationPool(pool, level) = OperationPool(pool, level)
                        /\ Ownership!NextPool(pool, level) = NextPool(pool, level)
    /\ \A role, pool : Ownership!RoleCanOperatePool(role, pool) <=> RoleCanOperatePool(role, pool)
    /\ \A user, pool : Ownership!UserCanOperatePool(user, pool) <=> UserCanOperatePool(user, pool)
    /\ \A role : Ownership!DefaultLevel(role) = DefaultLevel(role)
    /\ \A user : Ownership!HighestRole(user) = HighestRole(user)
<1>1. /\ Ownership!Tiers = Tiers /\ Ownership!Pools = Pools /\ Ownership!NoPool = NoPool
      /\ Ownership!PoolLevel = PoolLevel /\ Ownership!LevelPool = LevelPool
      /\ Ownership!RoleRank = RoleRank /\ Ownership!PoolRank = PoolRank
  BY DEF Ownership!Tiers, Tiers, Ownership!Pools, Pools, Ownership!NoPool, NoPool,
         Ownership!PoolLevel, PoolLevel, Ownership!LevelPool, LevelPool,
         Ownership!RoleRank, RoleRank, Ownership!PoolRank, PoolRank
<1>2. \A pool, level : /\ Ownership!OperationPool(pool, level) = OperationPool(pool, level)
                       /\ Ownership!NextPool(pool, level) = NextPool(pool, level)
  BY <1>1 DEF Ownership!OperationPool, OperationPool, Ownership!NextPool, NextPool,
              Ownership!CurrentLevel, CurrentLevel
<1>3. \A role, pool : Ownership!RoleCanOperatePool(role, pool) <=> RoleCanOperatePool(role, pool)
  BY <1>1 DEF Ownership!RoleCanOperatePool, RoleCanOperatePool
<1>4. \A user, pool : Ownership!UserCanOperatePool(user, pool) <=> UserCanOperatePool(user, pool)
  BY <1>3 DEF Ownership!UserCanOperatePool, UserCanOperatePool
<1>5. \A role : Ownership!DefaultLevel(role) = DefaultLevel(role)
  BY <1>1 DEF Ownership!DefaultLevel, DefaultLevel
<1>6. \A user : Ownership!HighestRole(user) = HighestRole(user)
  BY <1>1 DEF Ownership!HighestRole, HighestRole
<1> QED BY <1>1, <1>2, <1>3, <1>4, <1>5, <1>6

LEMMA OnlyChoice ==
    ASSUME NEW S, NEW e \in S, \A x, y \in S : x = y
    PROVE  (CHOOSE x \in S : TRUE) = e
OBVIOUS

(* Who is invited, before and after a step.                                *)
LEMMA InvitedValue ==
    /\ Pending = {} => Invited = NoUser
    /\ \A e \in Pending : AtMostOnePending => Invited = escalation[e].target
<1>1. Pending = {} => Invited = NoUser
  BY DEF Invited
<1>2. ASSUME NEW e \in Pending, AtMostOnePending PROVE Invited = escalation[e].target
  <2>1. (CHOOSE x \in Pending : TRUE) = e
    BY <1>2, OnlyChoice DEF AtMostOnePending
  <2> QED BY <2>1 DEF Invited
<1> QED BY <1>1, <1>2

LEMMA InvitedNext ==
    /\ Pending' = {} => Invited' = NoUser
    /\ \A e \in Escalations : e \in Pending' /\ AtMostOnePending' => Invited' = escalation'[e].target
    /\ UNCHANGED escalation => Invited' = Invited
<1>1. Pending' = {} => Invited' = NoUser
  BY DEF Invited
<1>2. ASSUME NEW e \in Escalations, e \in Pending', AtMostOnePending'
      PROVE  Invited' = escalation'[e].target
  <2>1. (CHOOSE x \in Pending' : TRUE) = e
    BY <1>2, OnlyChoice DEF AtMostOnePending
  <2> QED BY <1>2, <2>1 DEF Invited
<1>3. UNCHANGED escalation => Invited' = Invited
  BY DEF Invited, Pending
<1> QED BY <1>1, <1>2, <1>3

LEMMA OwnershipInit == Init => Ownership!Init
<1> SUFFICES ASSUME Init PROVE Ownership!Init
  OBVIOUS
<1>1. IInv
  BY InitInvariant
<1>2. Pending = {}
  BY DEF Init, Pending, NoRow
<1>3. Invited = NoUser
  BY <1>2, InvitedValue
<1>4. Ownership!TypeOK
  BY <1>1, <1>3, SameRoles DEF IInv, TypeOK, TicketRecord, Ownership!TypeOK
<1>5. ticket.owner # NoUser =>
         Ownership!UserCanOperatePool(ticket.owner, Ownership!OperationPool(ticket.pool, ticket.level))
  BY <1>1, SameRoles DEF IInv, HandlerHasAuthority, TicketGuard
<1> QED BY <1>3, <1>4, <1>5 DEF Ownership!Init

(* The row a commit leaves, for the columns the abstraction speaks of.     *)
LEMMA OwnershipSave ==
    ASSUME IInv, NEW r \in Requests, NEW row \in TicketRecord, SaveTicket(r, row)
    PROVE  /\ view[r] = ticket /\ pc[r] = "checked"
           /\ ticket'.owner = row.owner /\ ticket'.pool = row.pool /\ ticket'.level = row.level
<1>1. ticket' = [row EXCEPT !.version = ticket.version + 1] /\ view[r] = ticket
  BY SaveFrame
<1> QED BY <1>1 DEF TicketRecord, SaveTicket

LEMMA OwnershipCreate ==
    ASSUME IInv, SIInv, RowInv, NEW pool \in Pools, CreateTicket(pool)
    PROVE  Ownership!Create(pool)
<1>1. ticket.owner = NoUser /\ ticket.pool = NoPool /\ UNCHANGED escalation
  BY DEF CreateTicket, RowInv
<1>2. Invited = NoUser /\ Invited' = Invited
  BY <1>1, InvitedValue, InvitedNext DEF CreateTicket, SIInv, NothingPendingBeforeCreation
<1>3. ticket'.owner = NoUser /\ ticket'.pool = pool /\ ticket'.level = PoolLevel[pool]
  BY DEF CreateTicket, NoTicket
<1> QED BY <1>1, <1>2, <1>3, SameRoles
        DEF Ownership!Create, Ownership!Settled, Ownership!Unowned

LEMMA OwnershipStatus ==
    ASSUME IInv, NEW r \in Requests, CommitStatus(r)
    PROVE  UNCHANGED Ownership!vars
<1> DEFINE row == [view[r] EXCEPT !.status = MainStatusAfter(call[r].op, @)]
<1>1. SaveTicket(r, row) /\ UNCHANGED escalation /\ call[r] \in CallRecord
      /\ view[r] \in TicketRecord
  BY DEF CommitStatus, IInv, TypeOK
<1>2. row \in TicketRecord
  BY <1>1, CommonTypes, RowTypes
<1>3. row.owner = view[r].owner /\ row.pool = view[r].pool /\ row.level = view[r].level
  BY <1>1 DEF TicketRecord
<1> HIDE DEF row
<1>4. /\ ticket'.owner = ticket.owner /\ ticket'.pool = ticket.pool
      /\ ticket'.level = ticket.level
  BY <1>1, <1>2, <1>3, OwnershipSave
<1> QED BY <1>1, <1>4, InvitedNext DEF Ownership!vars

(* What a change of ownership has made sure of when it commits.            *)
LEMMA OwnershipCommit ==
    ASSUME IInv, NEW r \in Requests, NEW row, SaveTicket(r, row), call[r].op \in OwnershipOps
    PROVE  /\ call[r] \in CallRecord /\ view[r] \in TicketRecord /\ view[r] = ticket
           /\ call[r].actor \in Users /\ call[r].role \in RolesOf[call[r].actor]
           /\ Permitted(call[r], ticket)
           /\ Pending = {} /\ Invited = NoUser
<1>1. /\ call[r] \in CallRecord /\ view[r] \in TicketRecord
      /\ pc[r] = "checked" /\ view[r].version = ticket.version
  BY DEF SaveTicket, IInv, TypeOK
<1>2. view[r] = ticket
  BY <1>1 DEF IInv, ViewsOfThePast
<1>3. /\ call[r].actor \in Users /\ call[r].role \in RolesOf[call[r].actor]
      /\ Permitted(call[r], ticket)
  BY <1>1, <1>2 DEF IInv, CallsSound, ViewsSound, InFlight, VersionedOps
<1>4. Pending = {}
  BY <1>1 DEF IInv, NoPendingSinceChecked
<1> QED BY <1>1, <1>2, <1>3, <1>4, InvitedValue

LEMMA OwnershipClaim ==
    ASSUME IInv, NEW r \in Requests, CommitClaim(r)
    PROVE  Ownership!Claim(call[r].actor, call[r].role)
<1> DEFINE row == Claimed(call[r], view[r])
<1>1. SaveTicket(r, row) /\ UNCHANGED escalation /\ call[r].op = "claim"
  BY DEF CommitClaim
<1>2. /\ call[r] \in CallRecord /\ view[r] \in TicketRecord /\ view[r] = ticket
      /\ call[r].actor \in Users /\ Permitted(call[r], ticket)
      /\ Invited = NoUser /\ Invited' = Invited
  BY <1>1, OwnershipCommit, InvitedNext DEF OwnershipOps
<1>3. ticket.owner = NoUser /\ RoleCanOperatePool(call[r].role, ticket.pool)
  BY <1>1, <1>2 DEF Permitted, MayClaim
<1>4. row \in TicketRecord
  BY <1>2, CommonTypes, RowTypes
<1>5. /\ row.owner = call[r].actor /\ row.pool = ticket.pool
      /\ row.level = DefaultLevel(call[r].role)
  BY <1>2 DEF Claimed, TicketRecord
<1> HIDE DEF row
<1>6. /\ ticket'.owner = call[r].actor /\ ticket'.pool = ticket.pool
      /\ ticket'.level = DefaultLevel(call[r].role)
  BY <1>1, <1>4, <1>5, OwnershipSave
<1> QED BY <1>2, <1>3, <1>6, SameRoles
        DEF Ownership!Claim, Ownership!Settled, Ownership!Unowned

LEMMA OwnershipMoveToPool ==
    ASSUME IInv, NEW r \in Requests, CommitMoveToPool(r)
    PROVE  Ownership!MoveToPool
<1> DEFINE row == MovedToPool(view[r])
<1>1. SaveTicket(r, row) /\ UNCHANGED escalation /\ call[r].op = "move_to_pool"
  BY DEF CommitMoveToPool
<1>2. /\ call[r] \in CallRecord /\ view[r] \in TicketRecord /\ view[r] = ticket
      /\ call[r].actor \in Users /\ Permitted(call[r], ticket)
      /\ Invited = NoUser /\ Invited' = Invited
  BY <1>1, OwnershipCommit, InvitedNext DEF OwnershipOps
<1>3. ticket.owner # NoUser
  BY <1>1, <1>2, RolesAssumption DEF Permitted
<1>4. row \in TicketRecord
  BY <1>2, CommonTypes, RowTypes
<1>5. /\ row.owner = NoUser /\ row.level = ticket.level
      /\ row.pool = OperationPool(ticket.pool, ticket.level)
  BY <1>2 DEF MovedToPool, TicketRecord, TicketGuard
<1> HIDE DEF row
<1>6. /\ ticket'.owner = NoUser /\ ticket'.level = ticket.level
      /\ ticket'.pool = OperationPool(ticket.pool, ticket.level)
  BY <1>1, <1>4, <1>5, OwnershipSave
<1> QED BY <1>2, <1>3, <1>6, SameRoles
        DEF Ownership!MoveToPool, Ownership!Settled, Ownership!Unowned, Ownership!Guard

LEMMA OwnershipAssign ==
    ASSUME IInv, NEW r \in Requests, CommitAssign(r)
    PROVE  call[r].target \in Users /\ Ownership!Assign(call[r].target)
<1> DEFINE row == Assigned(call[r], view[r])
<1>1. SaveTicket(r, row) /\ UNCHANGED escalation /\ call[r].op = "assign"
  BY DEF CommitAssign
<1>2. /\ call[r] \in CallRecord /\ view[r] \in TicketRecord /\ view[r] = ticket
      /\ Permitted(call[r], ticket) /\ Invited = NoUser /\ Invited' = Invited
  BY <1>1, OwnershipCommit, InvitedNext DEF OwnershipOps
<1>3. /\ call[r].target \in Users
      /\ UserCanOperatePool(call[r].target, OperationPool(ticket.pool, ticket.level))
  BY <1>1, <1>2 DEF Permitted, TargetFits, TicketGuard
<1>4. row \in TicketRecord
  BY <1>2, <1>3, CommonTypes, RowTypes
<1>5. /\ row.owner = call[r].target /\ row.pool = ticket.pool
      /\ row.level = HighestRole(call[r].target)
  BY <1>2 DEF Assigned, TicketRecord
<1> HIDE DEF row
<1>6. /\ ticket'.owner = call[r].target /\ ticket'.pool = ticket.pool
      /\ ticket'.level = HighestRole(call[r].target)
  BY <1>1, <1>4, <1>5, OwnershipSave
<1> QED BY <1>2, <1>3, <1>6, SameRoles
        DEF Ownership!Assign, Ownership!Settled, Ownership!Guard

LEMMA OwnershipEscalateToPool ==
    ASSUME IInv, NEW r \in Requests, CommitEscalateToPool(r)
    PROVE  Ownership!EscalateToPool
<1> DEFINE row == EscalatedToPool(view[r])
<1>1. SaveTicket(r, row) /\ UNCHANGED escalation /\ call[r].op = "escalate_pool"
  BY DEF CommitEscalateToPool
<1>2. /\ call[r] \in CallRecord /\ view[r] \in TicketRecord /\ view[r] = ticket
      /\ Permitted(call[r], ticket) /\ Invited = NoUser /\ Invited' = Invited
  BY <1>1, OwnershipCommit, InvitedNext DEF OwnershipOps
<1>3. NextPool(ticket.pool, ticket.level) # NoPool
  BY <1>1, <1>2 DEF Permitted
<1>4. row \in TicketRecord
  BY <1>2, <1>3, CommonTypes, RowTypes
<1>5. /\ row.owner = NoUser /\ row.pool = NextPool(ticket.pool, ticket.level)
      /\ row.level = PoolLevel[NextPool(ticket.pool, ticket.level)]
  BY <1>2 DEF EscalatedToPool, TicketRecord
<1> HIDE DEF row
<1>6. /\ ticket'.owner = NoUser /\ ticket'.pool = NextPool(ticket.pool, ticket.level)
      /\ ticket'.level = PoolLevel[NextPool(ticket.pool, ticket.level)]
  BY <1>1, <1>4, <1>5, OwnershipSave
<1> QED BY <1>2, <1>3, <1>6, SameRoles
        DEF Ownership!EscalateToPool, Ownership!Settled

LEMMA OwnershipInvite ==
    ASSUME IInv, NEW r \in Requests, CommitEscalateToUser(r)
    PROVE  call[r].target \in Users /\ Ownership!Invite(call[r].target)
<1> DEFINE row == Requested(view[r])
           new == EscalationRow(call[r], view[r])
<1>1. PICK e \in Escalations :
        /\ SaveTicket(r, row) /\ call[r].op = "escalate_user"
        /\ escalation' = [escalation EXCEPT ![e] = new]
  BY DEF CommitEscalateToUser
<1>2. /\ call[r] \in CallRecord /\ view[r] \in TicketRecord /\ view[r] = ticket
      /\ Permitted(call[r], ticket) /\ Pending = {} /\ Invited = NoUser
  BY <1>1, OwnershipCommit DEF OwnershipOps
<1>3. /\ call[r].target \in Users
      /\ UserCanOperatePool(call[r].target, OperationPool(ticket.pool, ticket.level))
  BY <1>1, <1>2 DEF Permitted, TargetFits, TicketGuard
<1>4. row \in TicketRecord
  BY <1>2, CommonTypes, RowTypes
<1>5. /\ row.owner = ticket.owner /\ row.pool = ticket.pool /\ row.level = ticket.level
      /\ new.status = "PENDING_CONFIRM" /\ new.target = call[r].target
  BY <1>2 DEF Requested, EscalationRow, TicketRecord
<1> HIDE DEF row, new
<1>6. /\ ticket'.owner = ticket.owner /\ ticket'.pool = ticket.pool
      /\ ticket'.level = ticket.level
  BY <1>1, <1>4, <1>5, OwnershipSave
<1>7. Invited' = call[r].target
  <2>1. escalation'[e] = new /\ \A f \in Escalations : f # e => escalation'[f] = escalation[f]
    BY <1>1 DEF IInv, TypeOK
  <2>2. Pending' = {e}
    BY <1>2, <1>5, <2>1 DEF Pending
  <2>3. AtMostOnePending'
    BY <2>2 DEF AtMostOnePending
  <2> QED BY <1>5, <2>1, <2>2, <2>3, InvitedNext
<1> QED BY <1>2, <1>3, <1>6, <1>7, SameRoles
        DEF Ownership!Invite, Ownership!Settled, Ownership!Guard

(* An answer finds the escalation still pending and the ticket where the   *)
(* escalation found it, so it does what the abstract answer does.          *)
LEMMA OwnershipAnswer ==
    ASSUME IInv, SIInv, NEW r \in Requests, CommitAccept(r) \/ CommitReject(r)
    PROVE  Ownership!Accept \/ Ownership!Reject
<1> DEFINE e == escalation[call[r].esc]
<1>1. /\ pc[r] = "checked" /\ view[r] \in TicketRecord /\ call[r] \in CallRecord
      /\ view[r] = ticket /\ call[r].op \in AnswerOps
      /\ escalation \in [Escalations -> EscalationRecord]
  BY DEF CommitAccept, CommitReject, CommitAnswer, SaveTicket, IInv, TypeOK, ViewsOfThePast,
         AnswerOps
<1>2. /\ call[r].esc \in Escalations /\ e \in EscalationRecord /\ RowSound(e)
      /\ e.target = call[r].actor /\ call[r].actor \in Users /\ call[r].esc \in Pending
  BY <1>1 DEF IInv, AnswersSound, InFlight, EscalationsSound, CallsSound,
              SIInv, AnswersStillPending
<1>3. /\ e.sourceOwner = ticket.owner /\ e.sourcePool = ticket.pool
      /\ e.sourceLevel = ticket.level
  BY <1>2 DEF SIInv, PendingFreezesOwnership
<1>4. Invited = call[r].actor /\ Invited # NoUser
  BY <1>2, InvitedValue, RolesAssumption DEF IInv
<1>5. ASSUME NEW status \in {"ACCEPTED", "REJECTED"},
             escalation' = [escalation EXCEPT ![call[r].esc].status = status]
      PROVE  Invited' = NoUser
  <2>1. /\ escalation'[call[r].esc] = [e EXCEPT !.status = status]
        /\ \A f \in Escalations : f # call[r].esc => escalation'[f] = escalation[f]
    BY <1>1, <1>2, <1>5
  <2>2. escalation'[call[r].esc].status = status
    BY <1>2, <2>1 DEF EscalationRecord
  <2>3. \A f \in Escalations : f # call[r].esc => escalation[f].status # "PENDING_CONFIRM"
    BY <1>2 DEF IInv, AtMostOnePending, Pending
  <2>4. \A f \in Escalations : escalation'[f].status # "PENDING_CONFIRM"
    BY <1>5, <2>1, <2>2, <2>3
  <2>5. Pending' = {}
    BY <2>4 DEF Pending
  <2> QED BY <2>5, InvitedNext
<1>6. Accepted(call[r], view[r], e) \in TicketRecord /\ Rejected(view[r], e) \in TicketRecord
  BY <1>1, <1>2, RowTypes
<1>7. CASE CommitAccept(r)
  <2> DEFINE row == Accepted(call[r], view[r], e)
  <2>1. SaveTicket(r, row) /\ escalation' = [escalation EXCEPT ![call[r].esc].status = "ACCEPTED"]
    BY <1>7 DEF CommitAccept, CommitAnswer
  <2>2. /\ row.owner = call[r].actor /\ row.pool = ticket.pool
        /\ row.level = HighestRole(call[r].actor)
    BY <1>1, <1>2, <1>3 DEF Accepted, TicketRecord, RowSound
  <2> HIDE DEF row
  <2>3. /\ ticket'.owner = Invited /\ ticket'.pool = ticket.pool
        /\ ticket'.level = HighestRole(Invited) /\ Invited' = NoUser
    BY <1>4, <1>5, <1>6, <2>1, <2>2, OwnershipSave DEF row
  <2> QED BY <1>4, <2>3, SameRoles DEF Ownership!Accept, Ownership!Settled
<1>8. CASE CommitReject(r)
  <2> DEFINE row == Rejected(view[r], e)
  <2>1. SaveTicket(r, row) /\ escalation' = [escalation EXCEPT ![call[r].esc].status = "REJECTED"]
    BY <1>8 DEF CommitReject, CommitAnswer
  <2>2. /\ row.owner = ticket.owner /\ row.pool = ticket.pool /\ row.level = ticket.level
    BY <1>1, <1>3 DEF Rejected, TicketRecord
  <2> HIDE DEF row
  <2>3. /\ ticket'.owner = ticket.owner /\ ticket'.pool = ticket.pool
        /\ ticket'.level = ticket.level /\ Invited' = NoUser
    BY <1>5, <1>6, <2>1, <2>2, OwnershipSave DEF row
  <2> QED BY <1>4, <2>3 DEF Ownership!Reject, Ownership!Settled
<1> QED BY <1>7, <1>8

(* Every step is an ownership flow, or none of its concern.                *)
LEMMA OwnershipStep ==
    ASSUME IInv, SIInv, RowInv, [Next]_vars
    PROVE  [Ownership!Next]_(Ownership!vars)
<1>1. ASSUME NEW pool \in Pools, CreateTicket(pool) PROVE Ownership!Next
  BY <1>1, OwnershipCreate, SameRoles DEF Ownership!Next
<1>2. ASSUME NEW r \in Requests, Commit(r) PROVE [Ownership!Next]_(Ownership!vars)
  <2>1. CASE CommitStatus(r)
    BY <2>1, OwnershipStatus
  <2>2. CASE CommitClaim(r)
    <3>1. call[r].actor \in Users /\ call[r].role \in RolesOf[call[r].actor]
      BY <2>2, OwnershipCommit DEF CommitClaim, OwnershipOps
    <3> QED BY <2>2, <3>1, OwnershipClaim DEF Ownership!Next
  <2>3. CASE CommitMoveToPool(r)
    BY <2>3, OwnershipMoveToPool DEF Ownership!Next
  <2>4. CASE CommitAssign(r)
    BY <2>4, OwnershipAssign DEF Ownership!Next
  <2>5. CASE CommitEscalateToPool(r)
    BY <2>5, OwnershipEscalateToPool DEF Ownership!Next
  <2>6. CASE CommitEscalateToUser(r)
    BY <2>6, OwnershipInvite DEF Ownership!Next
  <2>7. CASE CommitAccept(r) \/ CommitReject(r)
    BY <2>7, OwnershipAnswer DEF Ownership!Next
  <2> QED BY <1>2, <2>1, <2>2, <2>3, <2>4, <2>5, <2>6, <2>7 DEF Commit
<1>3. CASE UNCHANGED <<ticket, escalation>>
  BY <1>3, InvitedNext DEF Ownership!vars
<1> QED BY <1>1, <1>2, <1>3, TableSteps

(* Interleaved requests, with the reads of a handler apart from its commit *)
(* and every answer given to one request at a time, do to owner, pool,     *)
(* level and invitation what the atomic flows do (claim_ticket to          *)
(* reject_ticket_escalation against docs, the escalation rules).           *)
THEOREM Implementation ==
    ASSUME SerialResponders
    PROVE  Spec => ImplementsOwnership
<1>1. Init => Ownership!Init
  BY OwnershipInit
<1>2. IInv /\ SIInv /\ RowInv /\ [Next]_vars => [Ownership!Next]_(Ownership!vars)
  BY OwnershipStep
<1> QED BY <1>1, <1>2, Invariant, SerialInvariant, RowInvariant, PTL
        DEF Spec, ImplementsOwnership, Ownership!Spec
=============================================================================
