--------------------------- MODULE TicketWorkflow ---------------------------
(***************************************************************************)
(* Concurrent HTTP requests against one ticket and its escalation rows:    *)
(* backend/app/modules/tickets/service.py.  FastAPI runs the handlers in a *)
(* thread pool, each with a database session of its own, and the database  *)
(* gives each statement a snapshot of its own (READ COMMITTED; SQLite in   *)
(* autocommit), so a handler is a first read, a second read and a commit,  *)
(* and other handlers run in between.  The commit of a ticket row is       *)
(* conditional on the version that was read (version_id_col).              *)
(***************************************************************************)
EXTENDS TicketRoles, TicketStatus

CONSTANTS
    Requests,           \* slots for requests in flight
    Escalations,        \* identities of ticket_escalations rows
    NoEscalation,       \* the escalation of a call that names none
    EnabledOps,         \* the operations clients call in an instance
    SeedStatuses,       \* the statuses of the seeded tickets of an instance
    MaxVersion,         \* bound on the number of commits to the ticket
    SerialResponders    \* TRUE: one answer to an escalation at a time

SubStatuses == {"NONE", "ESCALATION_PENDING_CONFIRM",
                "ESCALATION_CONFIRMED", "ESCALATION_REJECTED"}

OwnershipOps == {"claim", "move_to_pool", "assign", "escalate_pool", "escalate_user"}
StatusOps    == {"comment", "edit", "respond", "resolve", "close", "reopen"}
VersionedOps == OwnershipOps \cup StatusOps
AnswerOps    == {"accept", "reject"}

ASSUME WorkflowAssumption ==
    /\ NoEscalation \notin Escalations
    /\ EnabledOps \subseteq VersionedOps \cup AnswerOps
    /\ SeedStatuses \subseteq {"IN_PROGRESS", "RESPONSE_TIMEOUT", "RESOLVED", "CLOSED"}
    /\ MaxVersion \in Nat
    /\ SerialResponders \in BOOLEAN

VARIABLES
    ticket,         \* the row of tickets; version 0 before it is created
    escalation,     \* the rows of ticket_escalations; status "ABSENT" when unused
    answers,        \* escalation_accepted/rejected rows of ticket_actions, counted
    pc,             \* how far each request has come
    call,           \* what each request asks for
    view            \* the ticket row each request's session has loaded

vars == <<ticket, escalation, answers, pc, call, view>>

TicketRecord == [status: Statuses, sub: SubStatuses, owner: Users \cup {NoUser},
                 pool: Pools \cup {NoPool}, level: Tiers, version: Nat]
EscalationRecord == [status: {"ABSENT", "PENDING_CONFIRM", "ACCEPTED", "REJECTED"},
                     target: Users \cup {NoUser}, targetLevel: Tiers,
                     sourceOwner: Users \cup {NoUser}, sourcePool: Pools \cup {NoPool},
                     sourceLevel: Tiers]
CallRecord == [op: VersionedOps \cup AnswerOps \cup {"none"},
               actor: Users \cup {NoUser}, role: Roles, target: Users \cup {NoUser},
               esc: Escalations \cup {NoEscalation}, expected: Nat]

NoTicket == [status |-> "WAITING_RESPONSE", sub |-> "NONE", owner |-> NoUser,
             pool |-> NoPool, level |-> "T1", version |-> 0]
NoRow    == [status |-> "ABSENT", target |-> NoUser, targetLevel |-> "T1",
             sourceOwner |-> NoUser, sourcePool |-> NoPool, sourceLevel |-> "T1"]
NoCall   == [op |-> "none", actor |-> NoUser, role |-> "CUSTOMER", target |-> NoUser,
             esc |-> NoEscalation, expected |-> 0]

TypeOK ==
    /\ ticket \in TicketRecord
    /\ escalation \in [Escalations -> EscalationRecord]
    /\ answers \in [Escalations -> Nat]
    /\ pc \in [Requests -> {"idle", "received", "loaded", "checked"}]
    /\ call \in [Requests -> CallRecord]
    /\ view \in [Requests -> TicketRecord]

-----------------------------------------------------------------------------
(* Predicates on a ticket row t and a call c.                              *)

Pending == {e \in Escalations : escalation[e].status = "PENDING_CONFIRM"}

TicketGuard(t) == OperationPool(t.pool, t.level)
MayOperate(c, t) == RoleCanOperatePool(c.role, TicketGuard(t))
ValidOwnership(t) == t.pool # NoPool \/ t.owner # NoUser

\* Faulty: any internal user may be given the ticket.
TargetIsInternal(c, t) == c.target \in Users /\ IsInternal(c.target)

TargetFits(c, t) == c.target \in Users /\ UserCanOperatePool(c.target, TicketGuard(t))

MayInitiateEscalation(c, t) ==
    /\ MayOperate(c, t)
    /\ ValidOwnership(t)
    /\ \/ t.owner = NoUser /\ RoleCanOperatePool(c.role, t.pool)
       \/ t.owner # NoUser /\ t.owner = c.actor

MayClaim(c, t) ==
    /\ MayOperate(c, t)
    /\ t.owner = NoUser
    /\ RoleCanOperatePool(c.role, t.pool)

(* _available_actions, with the checks each operation makes before it.     *)
Permitted(c, t) ==
    /\ c.op \in {"edit", "respond", "resolve", "close", "move_to_pool"} => MayOperate(c, t)
    /\ StatusAllows(c.op, t.status)
    /\ c.op = "reopen" => c.role = "CUSTOMER" \/ MayOperate(c, t)
    /\ c.op = "claim" => MayClaim(c, t)
    /\ c.op = "move_to_pool" => t.owner = c.actor
    /\ c.op = "assign" => c.role = "ADMIN" /\ ValidOwnership(t) /\ TargetFits(c, t)
    /\ c.op \in {"escalate_pool", "escalate_user"} => MayInitiateEscalation(c, t)
    /\ c.op = "escalate_pool" => NextPool(t.pool, t.level) # NoPool
    /\ c.op = "escalate_user" => TargetFits(c, t)

-----------------------------------------------------------------------------
(* The row each operation writes, from the row t it has loaded.            *)

Claimed(c, t) == [t EXCEPT !.owner = c.actor, !.level = DefaultLevel(c.role), !.sub = "NONE"]

MovedToPool(t) == [t EXCEPT !.owner = NoUser, !.pool = TicketGuard(t), !.sub = "NONE"]

Assigned(c, t) == [t EXCEPT !.owner = c.target, !.level = HighestRole(c.target), !.sub = "NONE"]

\* Faulty: the level keeps the suffix of the pool code.
EscalatedToPoolRawLevel(t) ==
    LET next == NextPool(t.pool, t.level)
    IN  [t EXCEPT !.owner = NoUser, !.pool = next, !.level = next, !.sub = "NONE"]

EscalatedToPool(t) ==
    LET next == NextPool(t.pool, t.level)
    IN  [t EXCEPT !.owner = NoUser, !.pool = next, !.level = PoolLevel[next], !.sub = "NONE"]

Accepted(c, t, e) ==
    [t EXCEPT !.owner = c.actor,
              !.pool = IF e.sourcePool # NoPool THEN e.sourcePool ELSE t.pool,
              !.level = e.targetLevel,
              !.sub = "ESCALATION_CONFIRMED"]

\* Faulty: a rejected ticket always falls back to its pool.
RejectedToPool(t, e) ==
    [t EXCEPT !.owner = NoUser, !.pool = e.sourcePool, !.level = e.sourceLevel,
              !.sub = "ESCALATION_REJECTED"]

Rejected(t, e) ==
    [t EXCEPT !.owner = e.sourceOwner, !.pool = e.sourcePool, !.level = e.sourceLevel,
              !.sub = "ESCALATION_REJECTED"]

Requested(t) == [t EXCEPT !.sub = "ESCALATION_PENDING_CONFIRM"]

EscalationRow(c, t) ==
    [status |-> "PENDING_CONFIRM", target |-> c.target, targetLevel |-> HighestRole(c.target),
     sourceOwner |-> t.owner, sourcePool |-> t.pool, sourceLevel |-> t.level]

-----------------------------------------------------------------------------
(* Creation: API calls create pooled tickets, the seed creates owned ones. *)

SeededTickets ==
    {t \in [status: SeedStatuses,
            sub: {"NONE", "ESCALATION_PENDING_CONFIRM"}, owner: Users, pool: {NoPool},
            level: {"T1", "T2"}, version: {1}] : UserCanOperatePool(t.owner, TicketGuard(t))}

Init ==
    /\ ticket \in SeededTickets \cup {NoTicket}
    /\ escalation = [e \in Escalations |-> NoRow]
    /\ answers = [e \in Escalations |-> 0]
    /\ pc = [r \in Requests |-> "idle"]
    /\ call = [r \in Requests |-> NoCall]
    /\ view = [r \in Requests |-> NoTicket]

CreateTicket(pool) ==
    /\ ticket.version = 0
    /\ ticket' = [NoTicket EXCEPT !.pool = pool, !.level = PoolLevel[pool], !.version = 1]
    /\ UNCHANGED <<escalation, answers, pc, call, view>>

-----------------------------------------------------------------------------
(* A request arrives carrying the ticket version its client was shown, or  *)
(* the escalation it answers.                                              *)

Receive(r, c) ==
    /\ pc[r] = "idle"
    /\ pc' = [pc EXCEPT ![r] = "received"]
    /\ call' = [call EXCEPT ![r] = c]
    /\ UNCHANGED <<ticket, escalation, answers, view>>

ReceiveVersioned(r) ==
    \E op \in EnabledOps \cap VersionedOps, actor \in Users :
    \E role \in RolesOf[actor] :
    \E target \in IF op \in {"assign", "escalate_user"} THEN Users ELSE {NoUser} :
        /\ ticket.version > 0
        /\ Receive(r, [op |-> op, actor |-> actor, role |-> role, target |-> target,
                       esc |-> NoEscalation, expected |-> ticket.version])

ReceiveAnswer(r) ==
    \E op \in EnabledOps \cap AnswerOps, actor \in Users, e \in Escalations :
    \E role \in RolesOf[actor] :
        /\ escalation[e].status # "ABSENT"
        /\ SerialResponders => \A other \in Requests : call[other].esc # e
        /\ Receive(r, [op |-> op, actor |-> actor, role |-> role, target |-> NoUser,
                       esc |-> e, expected |-> 0])

Advance(r, from, to) == pc[r] = from /\ pc' = [pc EXCEPT ![r] = to]

\* Faulty: the version the client was shown is not compared.
LoadTicketUnversioned(r) ==
    /\ call[r].op \in VersionedOps
    /\ Permitted(call[r], ticket)
    /\ Advance(r, "received", IF call[r].op \in OwnershipOps THEN "loaded" ELSE "checked")
    /\ view' = [view EXCEPT ![r] = ticket]
    /\ UNCHANGED <<ticket, escalation, answers, call>>

(* get_ticket and the checks on the row; operations that do not care for   *)
(* a pending escalation have then read all they use.                       *)
LoadTicket(r) ==
    /\ call[r].op \in VersionedOps
    /\ call[r].expected = ticket.version
    /\ Permitted(call[r], ticket)
    /\ Advance(r, "received", IF call[r].op \in OwnershipOps THEN "loaded" ELSE "checked")
    /\ view' = [view EXCEPT ![r] = ticket]
    /\ UNCHANGED <<ticket, escalation, answers, call>>

\* Faulty: nothing is looked up between the read and the commit.
CheckNothing(r) ==
    /\ call[r].op \in OwnershipOps
    /\ Advance(r, "loaded", "checked")
    /\ UNCHANGED <<ticket, escalation, answers, call, view>>

\* Faulty: an administrator may assign over a pending escalation.
CheckNoPendingUnlessAssign(r) ==
    /\ call[r].op \in OwnershipOps
    /\ call[r].op # "assign" => Pending = {}
    /\ Advance(r, "loaded", "checked")
    /\ UNCHANGED <<ticket, escalation, answers, call, view>>

CheckNoPending(r) ==
    /\ call[r].op \in OwnershipOps
    /\ Pending = {}
    /\ Advance(r, "loaded", "checked")
    /\ UNCHANGED <<ticket, escalation, answers, call, view>>

\* Faulty: a processed escalation may be answered again.
LoadEscalationAnyStatus(r) ==
    /\ call[r].op \in AnswerOps
    /\ escalation[call[r].esc].target = call[r].actor
    /\ Advance(r, "received", "loaded")
    /\ UNCHANGED <<ticket, escalation, answers, call, view>>

LoadEscalation(r) ==
    /\ call[r].op \in AnswerOps
    /\ escalation[call[r].esc].status = "PENDING_CONFIRM"
    /\ escalation[call[r].esc].target = call[r].actor
    /\ Advance(r, "received", "loaded")
    /\ UNCHANGED <<ticket, escalation, answers, call, view>>

LoadTicketOfEscalation(r) ==
    /\ call[r].op \in AnswerOps
    /\ call[r].op = "accept" => MayOperate(call[r], ticket)
    /\ Advance(r, "loaded", "checked")
    /\ view' = [view EXCEPT ![r] = ticket]
    /\ UNCHANGED <<ticket, escalation, answers, call>>

Finish(r) ==
    /\ pc' = [pc EXCEPT ![r] = "idle"]
    /\ call' = [call EXCEPT ![r] = NoCall]
    /\ view' = [view EXCEPT ![r] = NoTicket]

\* Faulty: the UPDATE does not compare versions.
SaveTicketUnconditionally(r, row) ==
    /\ pc[r] = "checked"
    /\ ticket.version < MaxVersion
    /\ ticket' = [row EXCEPT !.version = ticket.version + 1]
    /\ Finish(r)

(* UPDATE tickets ... WHERE version = <loaded>: no row, no commit.         *)
SaveTicket(r, row) ==
    /\ pc[r] = "checked"
    /\ view[r].version = ticket.version
    /\ ticket.version < MaxVersion
    /\ ticket' = [row EXCEPT !.version = view[r].version + 1]
    /\ Finish(r)

\* Faulty: a status operation clears the sub status.
CommitStatusClearingSub(r) ==
    /\ call[r].op \in StatusOps
    /\ SaveTicket(r, [view[r] EXCEPT !.status = MainStatusAfter(call[r].op, @), !.sub = "NONE"])
    /\ UNCHANGED <<escalation, answers>>

CommitStatus(r) ==
    /\ call[r].op \in StatusOps
    /\ SaveTicket(r, [view[r] EXCEPT !.status = MainStatusAfter(call[r].op, @)])
    /\ UNCHANGED <<escalation, answers>>

CommitClaim(r) ==
    /\ call[r].op = "claim"
    /\ SaveTicket(r, Claimed(call[r], view[r]))
    /\ UNCHANGED <<escalation, answers>>

CommitMoveToPool(r) ==
    /\ call[r].op = "move_to_pool"
    /\ SaveTicket(r, MovedToPool(view[r]))
    /\ UNCHANGED <<escalation, answers>>

CommitAssign(r) ==
    /\ call[r].op = "assign"
    /\ SaveTicket(r, Assigned(call[r], view[r]))
    /\ UNCHANGED <<escalation, answers>>

CommitEscalateToPool(r) ==
    /\ call[r].op = "escalate_pool"
    /\ SaveTicket(r, EscalatedToPool(view[r]))
    /\ UNCHANGED <<escalation, answers>>

CommitEscalateToUser(r) ==
    /\ call[r].op = "escalate_user"
    /\ SaveTicket(r, Requested(view[r]))
    /\ \E e \in Escalations :
        /\ escalation[e].status = "ABSENT"
        /\ escalation' = [escalation EXCEPT ![e] = EscalationRow(call[r], view[r])]
    /\ UNCHANGED answers

CommitAnswer(r, op, row, status) ==
    /\ call[r].op = op
    /\ SaveTicket(r, row)
    /\ escalation' = [escalation EXCEPT ![call[r].esc].status = status]
    /\ answers' = [answers EXCEPT ![call[r].esc] = @ + 1]

CommitAccept(r) ==
    CommitAnswer(r, "accept", Accepted(call[r], view[r], escalation[call[r].esc]), "ACCEPTED")

CommitReject(r) ==
    CommitAnswer(r, "reject", Rejected(view[r], escalation[call[r].esc]), "REJECTED")

(* A failed check, a StaleDataError or a lost process: the session rolls   *)
(* back and the client gets an error.                                      *)
Refuse(r) ==
    /\ pc[r] # "idle"
    /\ Finish(r)
    /\ UNCHANGED <<ticket, escalation, answers>>

Read(r) ==
    \/ LoadTicket(r) \/ CheckNoPending(r)
    \/ LoadEscalation(r) \/ LoadTicketOfEscalation(r)

Commit(r) ==
    \/ CommitStatus(r) \/ CommitClaim(r) \/ CommitMoveToPool(r) \/ CommitAssign(r)
    \/ CommitEscalateToPool(r) \/ CommitEscalateToUser(r)
    \/ CommitAccept(r) \/ CommitReject(r)

Next ==
    \/ \E pool \in Pools : CreateTicket(pool)
    \/ \E r \in Requests :
        ReceiveVersioned(r) \/ ReceiveAnswer(r) \/ Read(r) \/ Commit(r) \/ Refuse(r)

Spec == Init /\ [][Next]_vars

-----------------------------------------------------------------------------
(* Properties that hold for any interleaving of requests.                  *)

(* A ticket never has two escalations awaiting an answer: of two requests  *)
(* racing through _assert_no_pending_escalation at most one commits.       *)
AtMostOnePending == \A e, f \in Pending : e = f

(* Whoever handles a ticket holds a role that may operate on it, however   *)
(* claim, assign, accept and reject interleave.                            *)
HandlerHasAuthority ==
    ticket.owner # NoUser => UserCanOperatePool(ticket.owner, TicketGuard(ticket))

Commits(r) == pc[r] = "checked" /\ pc'[r] = "idle" /\ ticket' # ticket

(* No operation takes effect on a ticket that changed after its caller was *)
(* shown it: expected_version and version_id_col close the whole gap from  *)
(* the page to the commit.                                                 *)
AppliesToWhatWasShown ==
    [][\A r \in Requests : Commits(r) /\ call[r].op \in VersionedOps
            => call[r].expected = ticket.version]_vars

(* The main status only moves along the lifecycle, also when operations    *)
(* race: a ticket is closed out of RESOLVED, reopened out of CLOSED, and   *)
(* neither an escalation nor a change of handler touches it.               *)
LifecycleOrder ==
    [][\/ ticket'.status = ticket.status
       \/ ticket.version = 0
       \/ <<ticket.status, ticket'.status>> \in
            {<<"WAITING_RESPONSE", "IN_PROGRESS">>, <<"IN_PROGRESS", "RESOLVED">>,
             <<"RESPONSE_TIMEOUT", "RESOLVED">>, <<"RESOLVED", "CLOSED">>,
             <<"CLOSED", "WAITING_RESPONSE">>}]_vars

-----------------------------------------------------------------------------
(* Properties that also need SerialResponders: the handler reads the       *)
(* status of the escalation before the ticket whose version guards it.     *)

(* Every escalation is answered at most once, and its status tells how.    *)
AnsweredOnce ==
    \A e \in Escalations :
        answers[e] = IF escalation[e].status \in {"ACCEPTED", "REJECTED"} THEN 1 ELSE 0

(* While an escalation awaits its answer, nothing moves the ticket: a      *)
(* rejection that restores the recorded source restores the present.       *)
PendingFreezesOwnership ==
    \A e \in Pending :
        /\ ticket.owner = escalation[e].sourceOwner
        /\ ticket.pool = escalation[e].sourcePool
        /\ ticket.level = escalation[e].sourceLevel

(* A ticket with an unanswered escalation says so in its sub status.       *)
PendingIsShown == Pending # {} => ticket.sub = "ESCALATION_PENDING_CONFIRM"

(* The interleaved handlers implement the atomic ownership flows.          *)
Invited == IF Pending = {} THEN NoUser ELSE escalation[CHOOSE e \in Pending : TRUE].target

Ownership == INSTANCE TicketOwnership
    WITH owner <- ticket.owner, pool <- ticket.pool, level <- ticket.level, invited <- Invited

ImplementsOwnership == Ownership!Spec
=============================================================================
