--------------------------- MODULE TicketTimeouts ---------------------------
(***************************************************************************)
(* The response and resolution deadlines of one ticket.  A deadline is a   *)
(* "timeout signal", an Event row that is PENDING until the periodic sweep *)
(* claims it (TRIGGERED) and matches the event rules against the ticket,   *)
(* or a handler that answered in time cancels it (CANCELLED).  Handlers    *)
(* run in API threads, sweeps in Celery workers; they only meet in the     *)
(* database:  backend/app/modules/events/service.py and events/tasks.py,   *)
(* called from backend/app/modules/tickets/service.py.                     *)
(***************************************************************************)
EXTENDS TicketStatus, Naturals, FiniteSets

CONSTANTS
    Signals,        \* identities of the Event rows of kind ticket_timeout_signal
    Requests,       \* slots for requests in flight
    Sweepers,       \* workers that may run sweep_due_events
    NoSignal,       \* no row
    SeedStatuses,   \* the statuses of the seeded tickets of an instance
    MaxVersion,     \* bound on the number of commits to the ticket
    MaxFailures     \* bound on the failures of sweepers

Points == {"response", "resolution"}
Ops == {"respond", "resolve", "close", "reopen"}
SignalStates == {"ABSENT", "PENDING", "TRIGGERED", "CANCELLED"}

ASSUME TimeoutsAssumption ==
    /\ NoSignal \notin Signals
    /\ SeedStatuses \subseteq {"IN_PROGRESS", "RESPONSE_TIMEOUT", "RESOLVED", "CLOSED"}
    /\ MaxVersion \in Nat
    /\ MaxFailures \in Nat

VARIABLES
    ticket,     \* main_status and version; version 0 before it is created
    signal,     \* the rows of events
    current,    \* the rows the last creation or reopening of the ticket made
    expired,    \* the deadlines of the ticket that have passed
    fired,      \* how often the rules were matched for each signal
    req,        \* the requests in flight
    sweep,      \* the sweeps in progress
    failures    \* how many sweeps were cut short

vars == <<ticket, signal, current, expired, fired, req, sweep, failures>>

TicketRecord == [status: Statuses, version: Nat]
SignalRecord == [state: SignalStates, point: Points]
RequestRecord == [pc: {"idle", "loaded", "selected"}, op: Ops \cup {"none"},
                  version: Nat, seen: SUBSET Signals]
SweepRecord == [pc: {"idle", "listed", "claimed"}, batch: SUBSET Signals,
                claim: Signals \cup {NoSignal}]

NoRequest == [pc |-> "idle", op |-> "none", version |-> 0, seen |-> {}]
NoSweep   == [pc |-> "idle", batch |-> {}, claim |-> NoSignal]

TypeOK ==
    /\ ticket \in TicketRecord
    /\ signal \in [Signals -> SignalRecord]
    /\ current \subseteq Signals
    /\ expired \subseteq Points
    /\ fired \in [Signals -> 0..1]  \* overlapping sweeps never report a deadline twice
    /\ req \in [Requests -> RequestRecord]
    /\ sweep \in [Sweepers -> SweepRecord]
    /\ failures \in Nat

PendingSignals == {s \in Signals : signal[s].state = "PENDING"}
Due(s) == signal[s].state = "PENDING" /\ signal[s].point \in expired

(* The seeded tickets were written without any Event row, with deadlines   *)
(* of the past.                                                            *)
Init ==
    /\ \/ ticket = [status |-> "WAITING_RESPONSE", version |-> 0] /\ expired = {}
       \/ ticket \in [status: SeedStatuses, version: {1}] /\ expired = Points
    /\ signal = [s \in Signals |-> [state |-> "ABSENT", point |-> "response"]]
    /\ current = {}
    /\ fired = [s \in Signals |-> 0]
    /\ req = [r \in Requests |-> NoRequest]
    /\ sweep = [w \in Sweepers |-> NoSweep]
    /\ failures = 0

-----------------------------------------------------------------------------
(* What the handlers write.                                                *)

AbsentSignals == {s \in Signals : signal[s].state = "ABSENT"}

(* Which identities two new rows get does not matter, so one choice stands *)
(* for all of them.                                                        *)
FreshSignals(response, resolution) ==
    /\ Cardinality(AbsentSignals) >= 2
    /\ <<response, resolution>> =
          CHOOSE pair \in AbsentSignals \X AbsentSignals : pair[1] # pair[2]

\* Faulty: the row of the response deadline is left out.
WithResolutionSignal(rows, response, resolution) ==
    [rows EXCEPT ![resolution] = [state |-> "PENDING", point |-> "resolution"]]

(* create_ticket_timeout_events: one PENDING row for each deadline.        *)
WithSignals(rows, response, resolution) ==
    [rows EXCEPT ![response] = [state |-> "PENDING", point |-> "response"],
                 ![resolution] = [state |-> "PENDING", point |-> "resolution"]]

\* Faulty: resolving a ticket cancels the response deadline.
CancelsResponseAgain(op) ==
    CASE op \in {"respond", "resolve"} -> {"response"}
      [] op = "close" -> Points
      [] OTHER        -> {}

(* The deadlines each operation settles.                                   *)
Cancels(op) ==
    CASE op = "respond" -> {"response"}
      [] op = "resolve" -> {"resolution"}
      [] op = "close"   -> Points
      [] OTHER          -> {}

CreateTicket ==
    /\ ticket.version = 0
    /\ ticket' = [status |-> "WAITING_RESPONSE", version |-> 1]
    /\ \E s, t \in Signals :
        /\ FreshSignals(s, t)
        /\ signal' = WithSignals(signal, s, t)
        /\ current' = {s, t}
    /\ UNCHANGED <<expired, fired, req, sweep, failures>>

-----------------------------------------------------------------------------
(* A handler reads the ticket, then the rows it will cancel, then commits. *)

LoadTicket(r, op) ==
    /\ req[r].pc = "idle"
    /\ ticket.version > 0
    /\ StatusAllows(op, ticket.status)
    /\ req' = [req EXCEPT ![r] = [pc |-> "loaded", op |-> op,
                                  version |-> ticket.version, seen |-> {}]]
    /\ UNCHANGED <<ticket, signal, current, expired, fired, sweep, failures>>

(* The SELECT of cancel_pending_ticket_events. *)
SelectSignals(r) ==
    /\ req[r].pc = "loaded"
    /\ req' = [req EXCEPT
                 ![r].pc = "selected",
                 ![r].seen = {s \in PendingSignals : signal[s].point \in Cancels(req[r].op)}]
    /\ UNCHANGED <<ticket, signal, current, expired, fired, sweep, failures>>

(* The UPDATE of a row names its id only: it also overwrites a row that a  *)
(* sweep has claimed since.                                                *)
Cancelled(rows, seen) ==
    [s \in Signals |-> IF s \in seen THEN [rows[s] EXCEPT !.state = "CANCELLED"] ELSE rows[s]]

\* Faulty: the version is not compared.
CurrentVersionAny(r) == req[r].pc = "selected" /\ ticket.version < MaxVersion

CurrentVersion(r) ==
    /\ req[r].pc = "selected"
    /\ req[r].version = ticket.version
    /\ ticket.version < MaxVersion

CommitTicket(r) ==
    /\ CurrentVersion(r)
    /\ ticket' = [status |-> MainStatusAfter(req[r].op, ticket.status),
                  version |-> ticket.version + 1]
    /\ req' = [req EXCEPT ![r] = NoRequest]
    /\ UNCHANGED <<expired, fired, sweep, failures>>

CommitAnswer(r) ==
    /\ req[r].op # "reopen"
    /\ CommitTicket(r)
    /\ signal' = Cancelled(signal, req[r].seen)
    /\ UNCHANGED current

(* The deadlines of a reopened ticket are those it was created with.       *)
CommitReopen(r) ==
    /\ req[r].op = "reopen"
    /\ CommitTicket(r)
    /\ \E s, t \in Signals :
        /\ FreshSignals(s, t)
        /\ signal' = WithSignals(signal, s, t)
        /\ current' = {s, t}

Refuse(r) ==
    /\ req[r].pc # "idle"
    /\ req' = [req EXCEPT ![r] = NoRequest]
    /\ UNCHANGED <<ticket, signal, current, expired, fired, sweep, failures>>

-----------------------------------------------------------------------------
(* sweep_due_events, with a session of its own for each row.               *)

(* Every response window is shorter than the resolution window. *)
DeadlinePasses(point) ==
    /\ ticket.version > 0
    /\ point \notin expired
    /\ point = "resolution" => "response" \in expired
    /\ expired' = expired \cup {point}
    /\ UNCHANGED <<ticket, signal, current, fired, req, sweep, failures>>

ListDue(w) ==
    /\ sweep[w].pc = "idle"
    /\ \E s \in Signals : Due(s)
    /\ sweep' = [sweep EXCEPT ![w] = [pc |-> "listed", batch |-> {s \in Signals : Due(s)},
                                      claim |-> NoSignal]]
    /\ UNCHANGED <<ticket, signal, current, expired, fired, req, failures>>

(* The listed rows are taken in the order of their trigger time. *)
NextListed(w, s) ==
    /\ sweep[w].pc = "listed"
    /\ s \in sweep[w].batch
    /\ signal[s].point = "resolution" =>
        \A t \in sweep[w].batch : signal[t].point = "resolution"

\* Faulty: the sweep does not end with its batch.
AfterRowWithoutEnd(w, s) ==
    [pc |-> "listed", batch |-> sweep[w].batch \ {s}, claim |-> NoSignal]

AfterRow(w, s) ==
    LET rest == sweep[w].batch \ {s}
    IN  IF rest = {} THEN NoSweep ELSE [pc |-> "listed", batch |-> rest, claim |-> NoSignal]

\* Faulty: the row is claimed whatever has happened to it since it was listed.
ClaimAny(w, s) ==
    /\ NextListed(w, s)
    /\ signal' = [signal EXCEPT ![s].state = "TRIGGERED"]
    /\ sweep' = [sweep EXCEPT ![w].pc = "claimed", ![w].claim = s]
    /\ UNCHANGED <<ticket, current, expired, fired, req, failures>>

(* UPDATE events ... WHERE status = PENDING, committed: one sweep wins.    *)
Claim(w, s) ==
    /\ NextListed(w, s)
    /\ Due(s)
    /\ signal' = [signal EXCEPT ![s].state = "TRIGGERED"]
    /\ sweep' = [sweep EXCEPT ![w].pc = "claimed", ![w].claim = s]
    /\ UNCHANGED <<ticket, current, expired, fired, req, failures>>

Skip(w, s) ==
    /\ NextListed(w, s)
    /\ ~Due(s)
    /\ sweep' = [sweep EXCEPT ![w] = AfterRow(w, s)]
    /\ UNCHANGED <<ticket, signal, current, expired, fired, req, failures>>

(* dispatch_timeout_signal: the rules are matched in a second session.     *)
Fire(w) ==
    LET s == sweep[w].claim
    IN  /\ sweep[w].pc = "claimed"
        /\ fired' = [fired EXCEPT ![s] = @ + 1]
        /\ sweep' = [sweep EXCEPT ![w] = AfterRow(w, s)]
        /\ UNCHANGED <<ticket, signal, current, expired, req, failures>>

(* An exception or a lost worker: the rest of the batch is left for the    *)
(* next sweep, a row already claimed is not.                               *)
Fail(w) ==
    /\ sweep[w].pc # "idle"
    /\ failures < MaxFailures
    /\ sweep' = [sweep EXCEPT ![w] = NoSweep]
    /\ failures' = failures + 1
    /\ UNCHANGED <<ticket, signal, current, expired, fired, req>>

Handle(r) ==
    \/ \E op \in Ops : LoadTicket(r, op)
    \/ SelectSignals(r) \/ CommitAnswer(r) \/ CommitReopen(r) \/ Refuse(r)

Progress(w) == ListDue(w) \/ Fire(w) \/ \E s \in Signals : Claim(w, s) \/ Skip(w, s)

Next ==
    \/ CreateTicket
    \/ \E r \in Requests : Handle(r)
    \/ \E point \in Points : DeadlinePasses(point)
    \/ \E w \in Sweepers : Progress(w) \/ Fail(w)

Spec == Init /\ [][Next]_vars

(* The beat schedules a sweep every celery_event_sweep_interval_seconds    *)
(* and the worker runs it to its end.                                      *)
FairSpec == Spec /\ \A w \in Sweepers : WF_vars(Progress(w))

-----------------------------------------------------------------------------
(* Safety.                                                                 *)

(* Once a deadline has been answered no sweep finds its signal: a handler  *)
(* never leaves behind a PENDING row it should have cancelled, however the *)
(* SELECT and the commit of other handlers interleave.                     *)
AnsweredDeadlinesAreQuiet ==
    \A s \in PendingSignals :
        /\ ticket.status \notin {"RESOLVED", "CLOSED"}
        /\ ticket.status = "IN_PROGRESS" => signal[s].point # "response"

(* A deadline is not watched twice: reopening a ticket never adds a second *)
(* PENDING row to one a concurrent handler left.                           *)
OneSignalPerPoint ==
    \A s, t \in PendingSignals : signal[s].point = signal[t].point => s = t

UnansweredStatuses(point) ==
    {"WAITING_RESPONSE"} \cup (IF point = "resolution" THEN {"IN_PROGRESS"} ELSE {})

(* An open ticket keeps the rows that watch its deadlines, until a sweep   *)
(* claims them: no late handler cancels those of a reopened ticket.        *)
OpenDeadlinesAreWatched ==
    current # {} =>
        \A point \in Points :
            ticket.status \in UnansweredStatuses(point)
            => \E s \in current : signal[s].point = point /\ signal[s].state \in {"PENDING", "TRIGGERED"}

(* A row cancelled before a sweep claimed it is never fired or revived,    *)
(* also when a sweep has it on its list.                                   *)
CancellationIsFinal ==
    [][\A s \in Signals :
        signal[s].state = "CANCELLED" /\ (\A w \in Sweepers : sweep[w].claim # s)
            => signal'[s].state = "CANCELLED" /\ fired'[s] = fired[s]]_vars

-----------------------------------------------------------------------------
(* Liveness.                                                               *)

(* A row that is due does not stay PENDING, whatever fails meanwhile.      *)
DueIsHandled == \A s \in Signals : Due(s) ~> signal[s].state # "PENDING"

(* A ticket that stays unanswered past its response deadline is reported,  *)
(* unless a sweep was cut short between its two sessions.                  *)
MissedResponseIsReported ==
    (ticket.status = "WAITING_RESPONSE" /\ current # {} /\ "response" \in expired)
        ~> \/ ticket.status # "WAITING_RESPONSE"
           \/ failures > 0
           \/ \E s \in current : signal[s].point = "response" /\ fired[s] > 0
=============================================================================
