------------------------ MODULE TicketTimeoutsProofs ------------------------
(***************************************************************************)
(* Proofs about TicketTimeouts for any number of rows, requests and sweeps *)
(* and for every status a seeded ticket may have.                          *)
(***************************************************************************)
EXTENDS TicketTimeouts, FiniteSetTheorems, TLAPS

InFlight(r) == req[r].pc # "idle"
IsCurrent(r) == InFlight(r) /\ req[r].version = ticket.version
Written(s) == signal[s].state # "ABSENT"

(* A row is PENDING only while the deadline it watches is unanswered. The  *)
(* statuses of seeded tickets that are past a deadline have no rows.       *)
PendingIsUnanswered ==
    \A s \in PendingSignals :
        ticket.version > 0 /\ ticket.status \in UnansweredStatuses(signal[s].point)

(* What a request has read of the ticket holds as long as the version.     *)
RequestsSound ==
    \A r \in Requests :
        /\ InFlight(r) => req[r].op \in Ops /\ req[r].version \in 1..ticket.version
        /\ IsCurrent(r) => StatusAllows(req[r].op, ticket.status)

(* The rows a request has selected: all of those it must cancel, as long   *)
(* as the version, and never another deadline.                             *)
SelectionsSound ==
    \A r \in Requests : req[r].pc = "selected" =>
        /\ \A s \in req[r].seen : Written(s) /\ signal[s].point \in Cancels(req[r].op)
        /\ IsCurrent(r) => \A s \in PendingSignals :
                              signal[s].point \in Cancels(req[r].op) => s \in req[r].seen

(* A claimed row is no longer PENDING and its rules have not been matched. *)
ClaimsSound ==
    \A w \in Sweepers :
        /\ sweep[w].pc = "claimed" <=> sweep[w].claim # NoSignal
        /\ sweep[w].claim # NoSignal =>
              /\ signal[sweep[w].claim].state \in {"TRIGGERED", "CANCELLED"}
              /\ fired[sweep[w].claim] = 0

OneClaim ==
    \A v, w \in Sweepers : sweep[v].claim = sweep[w].claim /\ sweep[v].claim # NoSignal => v = w

UnclaimedIsUnfired ==
    \A s \in Signals : signal[s].state \in {"ABSENT", "PENDING"} => fired[s] = 0

IInv ==
    /\ TypeOK
    /\ PendingIsUnanswered
    /\ OneSignalPerPoint
    /\ OpenDeadlinesAreWatched
    /\ RequestsSound
    /\ SelectionsSound
    /\ ClaimsSound
    /\ OneClaim
    /\ UnclaimedIsUnfired

USE TimeoutsAssumption DEF TimeoutsAssumption

-----------------------------------------------------------------------------
(* Two fresh rows exist as soon as two rows are left, finite or not.       *)
LEMMA TwoElements ==
    ASSUME NEW S, Cardinality(S) >= 2
    PROVE  \E x, y \in S : x # y
<1>1. S # {}
  BY FS_EmptySet
<1>2. PICK x \in S : TRUE
  BY <1>1
<1>3. S # {x}
  BY FS_Singleton
<1> QED BY <1>2, <1>3

LEMMA FreshRows ==
    ASSUME NEW s, NEW t, FreshSignals(s, t)
    PROVE  s \in AbsentSignals /\ t \in AbsentSignals /\ s # t
<1> DEFINE pairs == AbsentSignals \X AbsentSignals
           chosen == CHOOSE pair \in pairs : pair[1] # pair[2]
<1>1. PICK x, y \in AbsentSignals : x # y
  BY TwoElements DEF FreshSignals
<1>2. <<x, y>> \in pairs /\ <<x, y>>[1] # <<x, y>>[2]
  BY <1>1
<1>3. chosen \in pairs /\ chosen[1] # chosen[2]
  BY <1>2
<1>4. <<s, t>> = chosen
  BY DEF FreshSignals
<1>5. <<s, t>> \in pairs /\ <<s, t>>[1] # <<s, t>>[2]
  BY <1>3, <1>4
<1> QED BY <1>5

-----------------------------------------------------------------------------
LEMMA InitInvariant == Init => IInv
<1> SUFFICES ASSUME Init PROVE IInv
  OBVIOUS
<1>1. /\ ticket \in TicketRecord /\ expired \subseteq Points
      /\ signal = [s \in Signals |-> [state |-> "ABSENT", point |-> "response"]]
      /\ current = {} /\ fired = [s \in Signals |-> 0]
      /\ req = [r \in Requests |-> NoRequest] /\ sweep = [w \in Sweepers |-> NoSweep]
      /\ failures = 0
  <2>1. SeedStatuses \subseteq Statuses /\ "WAITING_RESPONSE" \in Statuses
    BY DEF Statuses
  <2>2. ticket \in TicketRecord
    <3>1. CASE ticket = [status |-> "WAITING_RESPONSE", version |-> 0]
      BY <2>1, <3>1 DEF TicketRecord
    <3>2. CASE ticket \in [status: SeedStatuses, version: {1}]
      <4>1. PICK status \in SeedStatuses, version \in {1} :
                ticket = [status |-> status, version |-> version]
        BY <3>2, Zenon
      <4> QED BY <2>1, <4>1 DEF TicketRecord
    <3> QED BY <3>1, <3>2 DEF Init
  <2> QED BY <2>2 DEF Init
<1>2. TypeOK
  <2>1. NoRequest \in RequestRecord /\ NoSweep \in SweepRecord
    BY DEF NoRequest, RequestRecord, NoSweep, SweepRecord
  <2> QED BY <1>1, <2>1 DEF TypeOK, SignalRecord, SignalStates, Points
<1>3. PendingSignals = {}
  BY <1>1 DEF PendingSignals
<1>4. PendingIsUnanswered /\ OneSignalPerPoint /\ OpenDeadlinesAreWatched
  BY <1>1, <1>3 DEF PendingIsUnanswered, OneSignalPerPoint, OpenDeadlinesAreWatched
<1>5. RequestsSound /\ SelectionsSound
  BY <1>1 DEF RequestsSound, SelectionsSound, InFlight, IsCurrent, NoRequest
<1>6. ClaimsSound /\ OneClaim /\ UnclaimedIsUnfired
  BY <1>1 DEF ClaimsSound, OneClaim, UnclaimedIsUnfired, NoSweep
<1> QED BY <1>2, <1>4, <1>5, <1>6 DEF IInv

(* The parts of the invariant an action leaves alone.                      *)
LEMMA TicketSideStays ==
    ASSUME IInv, UNCHANGED <<ticket, signal, current>>
    PROVE  PendingIsUnanswered' /\ OneSignalPerPoint' /\ OpenDeadlinesAreWatched'
BY DEF IInv, PendingIsUnanswered, PendingSignals, OneSignalPerPoint, OpenDeadlinesAreWatched

LEMMA RequestsStay ==
    ASSUME IInv, UNCHANGED <<ticket, signal, req>>
    PROVE  RequestsSound' /\ SelectionsSound'
BY DEF IInv, RequestsSound, SelectionsSound, IsCurrent, InFlight, Written, PendingSignals

LEMMA SweepsStay ==
    ASSUME IInv, UNCHANGED <<signal, sweep, fired>>
    PROVE  ClaimsSound' /\ OneClaim' /\ UnclaimedIsUnfired'
BY DEF IInv, ClaimsSound, OneClaim, UnclaimedIsUnfired

LEMMA IdleTypes == NoRequest \in RequestRecord /\ NoSweep \in SweepRecord
BY DEF NoRequest, RequestRecord, NoSweep, SweepRecord

(* A request that ends takes nothing with it.                              *)
LEMMA RequestEnds ==
    ASSUME IInv, NEW r \in Requests, req' = [req EXCEPT ![r] = NoRequest]
    PROVE  /\ req' \in [Requests -> RequestRecord]
           /\ \A q \in Requests : InFlight(q)' => q # r /\ InFlight(q) /\ req'[q] = req[q]
BY IdleTypes DEF IInv, TypeOK, InFlight, NoRequest

-----------------------------------------------------------------------------
(* Requests.                                                               *)

(* Rows for a new or reopened ticket: no other row is PENDING then, and    *)
(* what was read before is outdated.                                       *)
LEMMA RowsInvariant ==
    ASSUME IInv, PendingSignals = {},
           NEW s \in Signals, NEW t \in Signals, FreshSignals(s, t),
           signal' = WithSignals(signal, s, t), current' = {s, t},
           ticket' = [status |-> "WAITING_RESPONSE", version |-> ticket.version + 1],
           req' \in [Requests -> RequestRecord],
           \A q \in Requests : InFlight(q)' => InFlight(q) /\ req'[q] = req[q],
           UNCHANGED <<expired, fired, sweep, failures>>
    PROVE  IInv'
<1> DEFINE fresh(p) == [state |-> "PENDING", point |-> p]
<1>1. /\ s # t /\ signal[s].state = "ABSENT" /\ signal[t].state = "ABSENT"
  BY FreshRows DEF AbsentSignals
<1>2. /\ signal' \in [Signals -> SignalRecord]
      /\ signal'[s] = fresh("response") /\ signal'[t] = fresh("resolution")
      /\ \A x \in Signals \ {s, t} : signal'[x] = signal[x]
  BY <1>1 DEF WithSignals, IInv, TypeOK, SignalRecord, SignalStates, Points
<1>3. PendingSignals' = {s, t}
  BY <1>2 DEF PendingSignals
<1>4. ticket' \in TicketRecord /\ ticket.version \in Nat
  BY DEF IInv, TypeOK, TicketRecord, Statuses
<1>5. TypeOK'
  BY <1>2, <1>4 DEF IInv, TypeOK
<1>6. PendingIsUnanswered'
  BY <1>2, <1>3, <1>4 DEF PendingIsUnanswered, UnansweredStatuses
<1>7. OneSignalPerPoint'
  BY <1>1, <1>2, <1>3 DEF OneSignalPerPoint
<1>8. OpenDeadlinesAreWatched'
  BY <1>2 DEF OpenDeadlinesAreWatched, Points
<1>9. RequestsSound'
  BY <1>4 DEF IInv, RequestsSound, IsCurrent, InFlight
<1>10. SelectionsSound'
  <2> SUFFICES ASSUME NEW q \in Requests, req'[q].pc = "selected"
               PROVE  /\ \A x \in req'[q].seen :
                             Written(x)' /\ signal'[x].point \in Cancels(req'[q].op)
                      /\ ~IsCurrent(q)'
    BY DEF SelectionsSound
  <2>1. InFlight(q) /\ req'[q] = req[q]
    BY DEF InFlight
  <2>2. \A x \in req[q].seen : Written(x) /\ signal[x].point \in Cancels(req[q].op)
    BY <2>1 DEF IInv, SelectionsSound
  <2>3. req[q].seen \subseteq Signals
    BY DEF IInv, TypeOK, RequestRecord
  <2>4. \A x \in req[q].seen : x \in Signals \ {s, t}
    BY <1>1, <2>2, <2>3 DEF Written
  <2>5. req[q].version \in 1..ticket.version
    BY <2>1 DEF IInv, RequestsSound
  <2> QED BY <1>2, <1>4, <2>1, <2>2, <2>4, <2>5 DEF Written, IsCurrent
<1>11. ClaimsSound'
  BY <1>1, <1>2 DEF IInv, TypeOK, SweepRecord, ClaimsSound
<1>12. OneClaim'
  BY DEF IInv, OneClaim
<1>13. UnclaimedIsUnfired'
  BY <1>1, <1>2 DEF IInv, UnclaimedIsUnfired
<1> QED BY <1>5, <1>6, <1>7, <1>8, <1>9, <1>10, <1>11, <1>12, <1>13 DEF IInv

LEMMA CreateInvariant ==
    ASSUME IInv, CreateTicket
    PROVE  IInv'
<1>1. PICK s, t \in Signals : /\ FreshSignals(s, t)
                              /\ signal' = WithSignals(signal, s, t)
                              /\ current' = {s, t}
  BY DEF CreateTicket
<1>2. PendingSignals = {}
  BY DEF CreateTicket, IInv, PendingIsUnanswered
<1>3. ticket' = [status |-> "WAITING_RESPONSE", version |-> ticket.version + 1]
  BY DEF CreateTicket
<1>4. /\ req' \in [Requests -> RequestRecord]
      /\ \A q \in Requests : InFlight(q)' => InFlight(q) /\ req'[q] = req[q]
  BY DEF CreateTicket, InFlight, IInv, TypeOK
<1>5. UNCHANGED <<expired, fired, sweep, failures>>
  BY DEF CreateTicket
<1> QED BY <1>1, <1>2, <1>3, <1>4, <1>5, RowsInvariant

LEMMA LoadInvariant ==
    ASSUME IInv, NEW r \in Requests, NEW op \in Ops, LoadTicket(r, op)
    PROVE  IInv'
<1> DEFINE loaded == [pc |-> "loaded", op |-> op, version |-> ticket.version, seen |-> {}]
<1>1. /\ req' = [req EXCEPT ![r] = loaded] /\ ticket.version > 0
      /\ StatusAllows(op, ticket.status)
      /\ UNCHANGED <<ticket, signal, current, expired, fired, sweep, failures>>
  BY DEF LoadTicket
<1>2. loaded \in RequestRecord /\ loaded.pc = "loaded" /\ ticket.version \in Nat
  BY DEF RequestRecord, IInv, TypeOK, TicketRecord
<1>3. req'[r] = loaded /\ \A q \in Requests \ {r} : req'[q] = req[q]
  BY <1>1 DEF IInv, TypeOK
<1>4. TypeOK'
  BY <1>1, <1>2 DEF IInv, TypeOK
<1>5. RequestsSound'
  <2> SUFFICES ASSUME NEW q \in Requests
               PROVE  /\ InFlight(q)' => req'[q].op \in Ops /\ req'[q].version \in 1..ticket'.version
                      /\ IsCurrent(q)' => StatusAllows(req'[q].op, ticket'.status)
    BY DEF RequestsSound
  <2>1. CASE q = r
    BY <1>1, <1>2, <1>3, <2>1
  <2>2. CASE q # r
    BY <1>1, <1>3, <2>2 DEF IInv, RequestsSound, IsCurrent, InFlight
  <2> QED BY <2>1, <2>2
<1>6. SelectionsSound'
  BY <1>1, <1>2, <1>3 DEF IInv, SelectionsSound, IsCurrent, InFlight, Written, PendingSignals
<1>7. PendingIsUnanswered' /\ OneSignalPerPoint' /\ OpenDeadlinesAreWatched'
  BY <1>1, TicketSideStays
<1>8. ClaimsSound' /\ OneClaim' /\ UnclaimedIsUnfired'
  BY <1>1, SweepsStay
<1> QED BY <1>4, <1>5, <1>6, <1>7, <1>8 DEF IInv

LEMMA SelectInvariant ==
    ASSUME IInv, NEW r \in Requests, SelectSignals(r)
    PROVE  IInv'
<1> DEFINE rows == {s \in PendingSignals : signal[s].point \in Cancels(req[r].op)}
<1>1. /\ req[r].pc = "loaded"
      /\ req' = [req EXCEPT ![r].pc = "selected", ![r].seen = rows]
      /\ UNCHANGED <<ticket, signal, current, expired, fired, sweep, failures>>
  BY DEF SelectSignals
<1>2. /\ req'[r] = [req[r] EXCEPT !.pc = "selected", !.seen = rows]
      /\ \A q \in Requests \ {r} : req'[q] = req[q]
  BY <1>1 DEF IInv, TypeOK
<1>3. rows \subseteq Signals
  BY DEF PendingSignals
<1>4. req[r] \in RequestRecord
  BY DEF IInv, TypeOK
<1>5. /\ req'[r].pc = "selected" /\ req'[r].op = req[r].op
      /\ req'[r].version = req[r].version /\ req'[r].seen = rows
      /\ req'[r] \in RequestRecord
  BY <1>2, <1>3, <1>4 DEF RequestRecord
<1>6. TypeOK'
  BY <1>1, <1>2, <1>5 DEF IInv, TypeOK
<1>7. RequestsSound'
  <2> SUFFICES ASSUME NEW q \in Requests
               PROVE  /\ InFlight(q)' => req'[q].op \in Ops /\ req'[q].version \in 1..ticket'.version
                      /\ IsCurrent(q)' => StatusAllows(req'[q].op, ticket'.status)
    BY DEF RequestsSound
  <2>1. CASE q = r
    BY <1>1, <1>5, <2>1 DEF IInv, RequestsSound, IsCurrent, InFlight
  <2>2. CASE q # r
    BY <1>1, <1>2, <2>2 DEF IInv, RequestsSound, IsCurrent, InFlight
  <2> QED BY <2>1, <2>2
<1>8. SelectionsSound'
  <2> SUFFICES ASSUME NEW q \in Requests, req'[q].pc = "selected"
               PROVE  /\ \A s \in req'[q].seen :
                             Written(s)' /\ signal'[s].point \in Cancels(req'[q].op)
                      /\ IsCurrent(q)' => \A s \in PendingSignals' :
                             signal'[s].point \in Cancels(req'[q].op) => s \in req'[q].seen
    BY DEF SelectionsSound
  <2>1. PendingSignals' = PendingSignals /\ \A s : Written(s)' <=> Written(s)
    BY <1>1 DEF PendingSignals, Written
  <2>2. CASE q = r
    BY <1>1, <1>5, <2>1, <2>2 DEF PendingSignals, Written
  <2>3. CASE q # r
    BY <1>1, <1>2, <2>1, <2>3 DEF IInv, SelectionsSound, IsCurrent, InFlight
  <2> QED BY <2>2, <2>3
<1>9. PendingIsUnanswered' /\ OneSignalPerPoint' /\ OpenDeadlinesAreWatched'
  BY <1>1, TicketSideStays
<1>10. ClaimsSound' /\ OneClaim' /\ UnclaimedIsUnfired'
  BY <1>1, SweepsStay
<1> QED BY <1>6, <1>7, <1>8, <1>9, <1>10 DEF IInv

LEMMA RefuseInvariant ==
    ASSUME IInv, NEW r \in Requests, Refuse(r)
    PROVE  IInv'
<1>1. /\ req' = [req EXCEPT ![r] = NoRequest]
      /\ UNCHANGED <<ticket, signal, current, expired, fired, sweep, failures>>
  BY DEF Refuse
<1>2. /\ req' \in [Requests -> RequestRecord]
      /\ \A q \in Requests : InFlight(q)' => q # r /\ InFlight(q) /\ req'[q] = req[q]
  BY <1>1, RequestEnds
<1>3. TypeOK'
  BY <1>1, <1>2 DEF IInv, TypeOK
<1>4. RequestsSound'
  BY <1>1, <1>2 DEF IInv, RequestsSound, IsCurrent, InFlight
<1>5. SelectionsSound'
  BY <1>1, <1>2 DEF IInv, SelectionsSound, IsCurrent, InFlight, Written, PendingSignals
<1>6. PendingIsUnanswered' /\ OneSignalPerPoint' /\ OpenDeadlinesAreWatched'
  BY <1>1, TicketSideStays
<1>7. ClaimsSound' /\ OneClaim' /\ UnclaimedIsUnfired'
  BY <1>1, SweepsStay
<1> QED BY <1>3, <1>4, <1>5, <1>6, <1>7 DEF IInv

(* An answer settles its deadlines: the rows it cancels are all the PENDING*)
(* ones, and those of the other deadline stay.                             *)
LEMMA AnswerInvariant ==
    ASSUME IInv, NEW r \in Requests, CommitAnswer(r)
    PROVE  IInv'
<1> DEFINE op == req[r].op
           seen == req[r].seen
<1>1. /\ req[r].pc = "selected" /\ IsCurrent(r) /\ op # "reopen"
      /\ ticket' = [status |-> MainStatusAfter(op, ticket.status), version |-> ticket.version + 1]
      /\ signal' = Cancelled(signal, seen)
      /\ req' = [req EXCEPT ![r] = NoRequest]
      /\ UNCHANGED <<current, expired, fired, sweep, failures>>
  BY DEF CommitAnswer, CommitTicket, CurrentVersion, IsCurrent, InFlight
<1>2. /\ req' \in [Requests -> RequestRecord]
      /\ \A q \in Requests : InFlight(q)' => q # r /\ InFlight(q) /\ req'[q] = req[q]
  BY <1>1, RequestEnds
<1>3. /\ op \in {"respond", "resolve", "close"} /\ StatusAllows(op, ticket.status)
      /\ ticket.version \in Nat /\ ticket.version > 0
      /\ ticket.status \in Statuses
  BY <1>1 DEF IInv, RequestsSound, IsCurrent, InFlight, Ops, TypeOK, TicketRecord
<1>4. /\ \A s \in seen : Written(s) /\ signal[s].point \in Cancels(op)
      /\ \A s \in PendingSignals : signal[s].point \in Cancels(op) => s \in seen
  BY <1>1 DEF IInv, SelectionsSound
<1>5. /\ signal' \in [Signals -> SignalRecord]
      /\ \A s \in Signals : /\ signal'[s].point = signal[s].point
                            /\ s \in seen => signal'[s].state = "CANCELLED"
                            /\ s \notin seen => signal'[s] = signal[s]
                            /\ Written(s)' <=> Written(s)
  <2>1. \A s \in Signals : signal[s] \in SignalRecord
    BY DEF IInv, TypeOK
  <2>2. \A s \in seen : Written(s)
    BY <1>4
  <2> QED BY <1>1, <2>1, <2>2 DEF Cancelled, SignalRecord, SignalStates, Written
<1>6. \A s \in PendingSignals' : s \in PendingSignals /\ signal[s].point \notin Cancels(op)
  BY <1>4, <1>5 DEF PendingSignals
<1>7. ticket' \in TicketRecord /\ ticket'.version = ticket.version + 1
      /\ ticket'.status = MainStatusAfter(op, ticket.status)
  BY <1>1, <1>3 DEF TicketRecord, MainStatusAfter, Statuses
<1>8. TypeOK'
  BY <1>1, <1>2, <1>5, <1>7 DEF IInv, TypeOK
<1>9. PendingIsUnanswered'
  <2> SUFFICES ASSUME NEW s \in PendingSignals'
               PROVE  ticket'.version > 0
                      /\ ticket'.status \in UnansweredStatuses(signal'[s].point)
    BY DEF PendingIsUnanswered
  <2>1. /\ s \in PendingSignals /\ signal[s].point \notin Cancels(op)
        /\ signal'[s].point = signal[s].point /\ signal[s].point \in Points
    BY <1>5, <1>6 DEF PendingSignals, IInv, TypeOK, SignalRecord
  <2>2. ticket.status \in UnansweredStatuses(signal[s].point)
    BY <2>1 DEF IInv, PendingIsUnanswered
  <2> QED BY <1>3, <1>7, <2>1, <2>2 DEF Cancels, Points, UnansweredStatuses, StatusAllows,
                                        MainStatusAfter
<1>10. OneSignalPerPoint'
  <2>1. \A s \in PendingSignals' : s \in PendingSignals /\ signal'[s].point = signal[s].point
    BY <1>5, <1>6 DEF PendingSignals
  <2> QED BY <2>1 DEF IInv, OneSignalPerPoint
<1>11. OpenDeadlinesAreWatched'
  <2> SUFFICES ASSUME current # {}, NEW point \in Points,
                      ticket'.status \in UnansweredStatuses(point)
               PROVE  \E s \in current : signal'[s].point = point
                                         /\ signal'[s].state \in {"PENDING", "TRIGGERED"}
    BY <1>1 DEF OpenDeadlinesAreWatched
  <2>1. ticket.status \in UnansweredStatuses(point) /\ point \notin Cancels(op)
    BY <1>3, <1>7 DEF UnansweredStatuses, StatusAllows, MainStatusAfter, Cancels, Points
  <2>2. PICK s \in current : signal[s].point = point /\ signal[s].state \in {"PENDING", "TRIGGERED"}
    BY <2>1 DEF IInv, OpenDeadlinesAreWatched
  <2>3. s \in Signals /\ s \notin seen
    BY <1>4, <2>1, <2>2 DEF IInv, TypeOK
  <2> QED BY <1>5, <2>2, <2>3
<1>12. RequestsSound'
  BY <1>2, <1>3, <1>7 DEF IInv, RequestsSound, IsCurrent, InFlight
<1>13. SelectionsSound'
  <2> SUFFICES ASSUME NEW q \in Requests, req'[q].pc = "selected"
               PROVE  /\ \A s \in req'[q].seen :
                             Written(s)' /\ signal'[s].point \in Cancels(req'[q].op)
                      /\ ~IsCurrent(q)'
    BY DEF SelectionsSound
  <2>1. InFlight(q) /\ req'[q] = req[q]
    BY <1>2 DEF InFlight
  <2>2. \A s \in req[q].seen : Written(s) /\ signal[s].point \in Cancels(req[q].op)
    BY <2>1 DEF IInv, SelectionsSound
  <2>3. req[q].seen \subseteq Signals
    BY DEF IInv, TypeOK, RequestRecord
  <2>4. req[q].version \in 1..ticket.version
    BY <2>1 DEF IInv, RequestsSound
  <2>5. ~IsCurrent(q)'
    BY <1>3, <1>7, <2>1, <2>4 DEF IsCurrent
  <2> QED BY <1>5, <2>1, <2>2, <2>3, <2>5
<1>14. ClaimsSound'
  <2>1. \A w \in Sweepers : sweep[w].claim \in Signals \cup {NoSignal}
    BY DEF IInv, TypeOK, SweepRecord
  <2> QED BY <1>1, <1>5, <2>1 DEF IInv, ClaimsSound
<1>15. OneClaim'
  BY <1>1 DEF IInv, OneClaim
<1>16. UnclaimedIsUnfired'
  BY <1>1, <1>5 DEF IInv, UnclaimedIsUnfired
<1> QED BY <1>8, <1>9, <1>10, <1>11, <1>12, <1>13, <1>14, <1>15, <1>16 DEF IInv

LEMMA ReopenInvariant ==
    ASSUME IInv, NEW r \in Requests, CommitReopen(r)
    PROVE  IInv'
<1>1. /\ req[r].pc = "selected" /\ IsCurrent(r) /\ req[r].op = "reopen"
      /\ ticket' = [status |-> MainStatusAfter(req[r].op, ticket.status),
                    version |-> ticket.version + 1]
      /\ req' = [req EXCEPT ![r] = NoRequest]
      /\ UNCHANGED <<expired, fired, sweep, failures>>
  BY DEF CommitReopen, CommitTicket, CurrentVersion, IsCurrent, InFlight
<1>2. PICK s, t \in Signals : /\ FreshSignals(s, t)
                              /\ signal' = WithSignals(signal, s, t)
                              /\ current' = {s, t}
  BY DEF CommitReopen
<1>3. ticket.status = "CLOSED"
  BY <1>1 DEF IInv, RequestsSound, StatusAllows
<1>4. PendingSignals = {}
  BY <1>3 DEF IInv, PendingIsUnanswered, UnansweredStatuses
<1>5. ticket' = [status |-> "WAITING_RESPONSE", version |-> ticket.version + 1]
  BY <1>1 DEF MainStatusAfter
<1>6. /\ req' \in [Requests -> RequestRecord]
      /\ \A q \in Requests : InFlight(q)' => InFlight(q) /\ req'[q] = req[q]
  BY <1>1, RequestEnds
<1>7. UNCHANGED <<expired, fired, sweep, failures>>
  BY <1>1
<1> QED BY <1>2, <1>4, <1>5, <1>6, <1>7, RowsInvariant

-----------------------------------------------------------------------------
(* Sweeps.                                                                 *)

LEMMA DeadlineInvariant ==
    ASSUME IInv, NEW point \in Points, DeadlinePasses(point)
    PROVE  IInv'
<1>1. /\ expired' = expired \cup {point}
      /\ UNCHANGED <<ticket, signal, current, fired, req, sweep, failures>>
  BY DEF DeadlinePasses
<1>2. TypeOK'
  BY <1>1 DEF IInv, TypeOK
<1> QED BY <1>1, <1>2, TicketSideStays, RequestsStay, SweepsStay DEF IInv

(* A sweep that lists rows or is done with one.                            *)
LEMMA SweepStepInvariant ==
    ASSUME IInv, NEW w \in Sweepers, NEW g \in SweepRecord,
           sweep' = [sweep EXCEPT ![w] = g], g.pc # "claimed", g.claim = NoSignal,
           failures' \in Nat, UNCHANGED <<ticket, signal, current, expired, fired, req>>
    PROVE  IInv'
<1>1. TypeOK'
  BY DEF IInv, TypeOK
<1>2. sweep'[w] = g /\ \A v \in Sweepers \ {w} : sweep'[v] = sweep[v]
  BY DEF IInv, TypeOK
<1>3. ClaimsSound'
  BY <1>2 DEF IInv, ClaimsSound
<1>4. OneClaim'
  BY <1>2 DEF IInv, OneClaim
<1>5. UnclaimedIsUnfired'
  BY DEF IInv, UnclaimedIsUnfired
<1> QED BY <1>1, <1>3, <1>4, <1>5, TicketSideStays, RequestsStay DEF IInv

LEMMA AfterRowType ==
    ASSUME IInv, NEW w \in Sweepers, NEW s
    PROVE  /\ AfterRow(w, s) \in SweepRecord
           /\ AfterRow(w, s).pc # "claimed" /\ AfterRow(w, s).claim = NoSignal
BY IdleTypes DEF IInv, TypeOK, AfterRow, SweepRecord, NoSweep

LEMMA ListInvariant ==
    ASSUME IInv, NEW w \in Sweepers, ListDue(w)
    PROVE  IInv'
<1> DEFINE g == [pc |-> "listed", batch |-> {s \in Signals : Due(s)}, claim |-> NoSignal]
<1>1. sweep' = [sweep EXCEPT ![w] = g]
      /\ UNCHANGED <<ticket, signal, current, expired, fired, req, failures>>
  BY DEF ListDue
<1>2. g \in SweepRecord /\ g.pc # "claimed" /\ g.claim = NoSignal
  BY DEF SweepRecord
<1>3. failures' \in Nat
  BY <1>1 DEF IInv, TypeOK
<1> HIDE DEF g
<1> QED BY <1>1, <1>2, <1>3, SweepStepInvariant

LEMMA SkipInvariant ==
    ASSUME IInv, NEW w \in Sweepers, NEW s \in Signals, Skip(w, s)
    PROVE  IInv'
<1>1. sweep' = [sweep EXCEPT ![w] = AfterRow(w, s)]
      /\ UNCHANGED <<ticket, signal, current, expired, fired, req, failures>>
  BY DEF Skip
<1>2. failures' \in Nat
  BY <1>1 DEF IInv, TypeOK
<1> QED BY <1>1, <1>2, AfterRowType, SweepStepInvariant

LEMMA FailInvariant ==
    ASSUME IInv, NEW w \in Sweepers, Fail(w)
    PROVE  IInv'
<1>1. sweep' = [sweep EXCEPT ![w] = NoSweep] /\ failures' = failures + 1
      /\ UNCHANGED <<ticket, signal, current, expired, fired, req>>
  BY DEF Fail
<1>2. failures' \in Nat
  BY <1>1 DEF IInv, TypeOK
<1>3. NoSweep \in SweepRecord /\ NoSweep.pc # "claimed" /\ NoSweep.claim = NoSignal
  BY IdleTypes DEF NoSweep
<1> QED BY <1>1, <1>2, <1>3, SweepStepInvariant

(* The conditional UPDATE: what is claimed was PENDING, so no other sweep  *)
(* has claimed it and its rules have not been matched.                     *)
LEMMA ClaimInvariant ==
    ASSUME IInv, NEW w \in Sweepers, NEW s \in Signals, Claim(w, s)
    PROVE  IInv'
<1>1. /\ signal[s].state = "PENDING"
      /\ sweep[w].pc = "listed"
      /\ signal' = [signal EXCEPT ![s].state = "TRIGGERED"]
      /\ sweep' = [sweep EXCEPT ![w].pc = "claimed", ![w].claim = s]
      /\ UNCHANGED <<ticket, current, expired, fired, req, failures>>
  BY DEF Claim, Due, NextListed
<1>2. /\ signal' \in [Signals -> SignalRecord]
      /\ signal'[s].state = "TRIGGERED"
      /\ \A x \in Signals : /\ signal'[x].point = signal[x].point
                            /\ x # s => signal'[x] = signal[x]
                            /\ Written(x)' <=> Written(x)
  BY <1>1 DEF IInv, TypeOK, SignalRecord, SignalStates, Written
<1>3. /\ sweep' \in [Sweepers -> SweepRecord]
      /\ sweep'[w].pc = "claimed" /\ sweep'[w].claim = s
      /\ \A v \in Sweepers \ {w} : sweep'[v] = sweep[v]
  BY <1>1 DEF IInv, TypeOK, SweepRecord
<1>4. fired[s] = 0
  BY <1>1 DEF IInv, UnclaimedIsUnfired
<1>5. \A v \in Sweepers : sweep[v].claim # s /\ sweep[v].claim \in Signals \cup {NoSignal}
  BY <1>1 DEF IInv, ClaimsSound, TypeOK, SweepRecord
<1>6. PendingSignals' = PendingSignals \ {s}
  BY <1>1, <1>2 DEF PendingSignals
<1>7. TypeOK'
  BY <1>1, <1>2, <1>3 DEF IInv, TypeOK
<1>8. PendingIsUnanswered'
  BY <1>1, <1>2, <1>6 DEF IInv, PendingIsUnanswered, PendingSignals
<1>9. OneSignalPerPoint'
  BY <1>2, <1>6 DEF IInv, OneSignalPerPoint, PendingSignals
<1>10. OpenDeadlinesAreWatched'
  <2>1. current \subseteq Signals /\ current' = current /\ ticket' = ticket
    BY <1>1 DEF IInv, TypeOK
  <2>2. \A x \in current : signal[x].state \in {"PENDING", "TRIGGERED"}
                           => signal'[x].state \in {"PENDING", "TRIGGERED"}
    BY <1>2, <2>1
  <2> QED BY <1>2, <2>1, <2>2 DEF IInv, OpenDeadlinesAreWatched
<1>11. RequestsSound'
  BY <1>1 DEF IInv, RequestsSound, IsCurrent, InFlight
<1>12. SelectionsSound'
  <2>1. \A q \in Requests : req[q].seen \subseteq Signals
    BY DEF IInv, TypeOK, RequestRecord
  <2>2. req' = req /\ ticket' = ticket
    BY <1>1
  <2>3. \A x \in PendingSignals' : x \in PendingSignals /\ signal'[x].point = signal[x].point
    BY <1>2, <1>6 DEF PendingSignals
  <2> QED BY <1>2, <2>1, <2>2, <2>3 DEF IInv, SelectionsSound, IsCurrent, InFlight
<1>13. ClaimsSound'
  BY <1>1, <1>2, <1>3, <1>4, <1>5 DEF IInv, ClaimsSound
<1>14. OneClaim'
  BY <1>3, <1>5 DEF IInv, OneClaim
<1>15. UnclaimedIsUnfired'
  BY <1>1, <1>2, <1>4 DEF IInv, UnclaimedIsUnfired
<1> QED BY <1>7, <1>8, <1>9, <1>10, <1>11, <1>12, <1>13, <1>14, <1>15 DEF IInv

LEMMA FireInvariant ==
    ASSUME IInv, NEW w \in Sweepers, Fire(w)
    PROVE  IInv'
<1> DEFINE s == sweep[w].claim
           g == AfterRow(w, s)
<1>1. /\ sweep[w].pc = "claimed"
      /\ fired' = [fired EXCEPT ![s] = @ + 1]
      /\ sweep' = [sweep EXCEPT ![w] = g]
      /\ UNCHANGED <<ticket, signal, current, expired, req, failures>>
  BY DEF Fire
<1>2. s # NoSignal /\ s \in Signals /\ fired[s] = 0
      /\ signal[s].state \in {"TRIGGERED", "CANCELLED"}
  BY <1>1 DEF IInv, ClaimsSound, TypeOK, SweepRecord
<1>3. g \in SweepRecord /\ g.pc # "claimed" /\ g.claim = NoSignal
  BY AfterRowType
<1>4. /\ fired' \in [Signals -> 0..1] /\ fired'[s] = 1
      /\ \A x \in Signals \ {s} : fired'[x] = fired[x]
  BY <1>1, <1>2 DEF IInv, TypeOK
<1>5. sweep'[w] = g /\ \A v \in Sweepers \ {w} : sweep'[v] = sweep[v] /\ sweep[v].claim # s
  BY <1>1, <1>2 DEF IInv, TypeOK, OneClaim
<1> HIDE DEF g
<1>6. TypeOK'
  BY <1>1, <1>3, <1>4 DEF IInv, TypeOK
<1>7. ClaimsSound'
  <2>1. \A v \in Sweepers : sweep[v].claim \in Signals \cup {NoSignal}
    BY DEF IInv, TypeOK, SweepRecord
  <2> QED BY <1>1, <1>3, <1>4, <1>5, <2>1 DEF IInv, ClaimsSound
<1>8. OneClaim'
  BY <1>3, <1>5 DEF IInv, OneClaim
<1>9. UnclaimedIsUnfired'
  BY <1>1, <1>2, <1>4 DEF IInv, UnclaimedIsUnfired
<1>10. PendingIsUnanswered' /\ OneSignalPerPoint' /\ OpenDeadlinesAreWatched'
  BY <1>1, TicketSideStays
<1>11. RequestsSound' /\ SelectionsSound'
  BY <1>1, RequestsStay
<1> QED BY <1>6, <1>7, <1>8, <1>9, <1>10, <1>11 DEF IInv

-----------------------------------------------------------------------------
LEMMA StepInvariant == IInv /\ [Next]_vars => IInv'
<1> SUFFICES ASSUME IInv, [Next]_vars PROVE IInv'
  OBVIOUS
<1>1. CASE CreateTicket
  BY <1>1, CreateInvariant
<1>2. CASE \E r \in Requests : Handle(r)
  <2>1. PICK r \in Requests : Handle(r)
    BY <1>2
  <2>2. CASE \E op \in Ops : LoadTicket(r, op)
    BY <2>2, LoadInvariant
  <2>3. CASE SelectSignals(r)
    BY <2>3, SelectInvariant
  <2>4. CASE CommitAnswer(r)
    BY <2>4, AnswerInvariant
  <2>5. CASE CommitReopen(r)
    BY <2>5, ReopenInvariant
  <2>6. CASE Refuse(r)
    BY <2>6, RefuseInvariant
  <2> QED BY <2>1, <2>2, <2>3, <2>4, <2>5, <2>6 DEF Handle
<1>3. CASE \E point \in Points : DeadlinePasses(point)
  BY <1>3, DeadlineInvariant
<1>4. CASE \E w \in Sweepers : Progress(w) \/ Fail(w)
  <2>1. PICK w \in Sweepers : Progress(w) \/ Fail(w)
    BY <1>4
  <2>2. CASE ListDue(w)
    BY <2>2, ListInvariant
  <2>3. CASE Fire(w)
    BY <2>3, FireInvariant
  <2>4. CASE \E s \in Signals : Claim(w, s) \/ Skip(w, s)
    BY <2>4, ClaimInvariant, SkipInvariant
  <2>5. CASE Fail(w)
    BY <2>5, FailInvariant
  <2> QED BY <2>1, <2>2, <2>3, <2>4, <2>5 DEF Progress
<1>5. CASE UNCHANGED vars
  <2>1. TypeOK'
    BY <1>5 DEF vars, IInv, TypeOK
  <2> QED BY <1>5, <2>1, TicketSideStays, RequestsStay, SweepsStay DEF vars, IInv
<1> QED BY <1>1, <1>2, <1>3, <1>4, <1>5 DEF Next

(* Every reachable state satisfies the inductive invariant.                *)
THEOREM Invariant == Spec => []IInv
BY InitInvariant, StepInvariant, PTL DEF Spec

(* The rules are matched at most once for each row, however many sweeps    *)
(* overlap: the bound of fired in TypeOK.                                  *)
THEOREM TypeCorrect == Spec => []TypeOK
<1>1. IInv => TypeOK
  BY DEF IInv
<1> QED BY <1>1, Invariant, PTL

(* An answered deadline has no row a sweep could claim, however the SELECT *)
(* and the commit of its handler interleave with others.                   *)
THEOREM Quiet == Spec => []AnsweredDeadlinesAreQuiet
<1>1. IInv => AnsweredDeadlinesAreQuiet
  BY DEF IInv, AnsweredDeadlinesAreQuiet, PendingIsUnanswered, UnansweredStatuses
<1> QED BY <1>1, Invariant, PTL

(* No deadline is watched by two rows, however often the ticket is         *)
(* reopened.                                                               *)
THEOREM WatchedOnce == Spec => []OneSignalPerPoint
<1>1. IInv => OneSignalPerPoint
  BY DEF IInv
<1> QED BY <1>1, Invariant, PTL

(* No late handler cancels the rows of a ticket that is open again.        *)
THEOREM Watched == Spec => []OpenDeadlinesAreWatched
<1>1. IInv => OpenDeadlinesAreWatched
  BY DEF IInv
<1> QED BY <1>1, Invariant, PTL

-----------------------------------------------------------------------------
(* The steps that write a row or match its rules.                          *)
LEMMA CancellationStep ==
    ASSUME IInv, [Next]_vars, NEW s \in Signals, signal[s].state = "CANCELLED",
           \A w \in Sweepers : sweep[w].claim # s
    PROVE  signal'[s].state = "CANCELLED" /\ fired'[s] = fired[s]
<1> DEFINE Kept == signal'[s].state = "CANCELLED" /\ fired'[s] = fired[s]
<1>1. /\ signal \in [Signals -> SignalRecord] /\ fired \in [Signals -> 0..1]
      /\ signal[s] \in SignalRecord
  BY DEF IInv, TypeOK
<1>2. ASSUME NEW x \in Signals, NEW y \in Signals, FreshSignals(x, y),
             signal' = WithSignals(signal, x, y), fired' = fired
      PROVE  Kept
  <2>1. s # x /\ s # y
    BY <1>2, FreshRows DEF AbsentSignals
  <2> QED BY <1>1, <1>2, <2>1 DEF WithSignals
<1>3. ASSUME UNCHANGED <<signal, fired>> PROVE Kept
  BY <1>3
<1>4. CASE CreateTicket
  BY <1>2, <1>4 DEF CreateTicket
<1>5. ASSUME NEW r \in Requests, Handle(r) PROVE Kept
  <2>1. CASE CommitAnswer(r)
    BY <1>1, <2>1 DEF CommitAnswer, CommitTicket, Cancelled, SignalRecord
  <2>2. CASE CommitReopen(r)
    BY <1>2, <2>2 DEF CommitReopen, CommitTicket
  <2>3. CASE (\E op \in Ops : LoadTicket(r, op)) \/ SelectSignals(r) \/ Refuse(r)
    BY <1>3, <2>3 DEF LoadTicket, SelectSignals, Refuse
  <2> QED BY <1>5, <2>1, <2>2, <2>3 DEF Handle
<1>6. ASSUME NEW w \in Sweepers, Progress(w) \/ Fail(w) PROVE Kept
  <2>1. CASE Fire(w)
    BY <1>1, <2>1 DEF Fire
  <2>2. ASSUME NEW x \in Signals, Claim(w, x) PROVE Kept
    <3>1. x # s
      BY <2>2 DEF Claim, Due
    <3> QED BY <1>1, <2>2, <3>1 DEF Claim
  <2>3. CASE ListDue(w) \/ Fail(w) \/ \E x \in Signals : Skip(w, x)
    BY <1>3, <2>3 DEF ListDue, Fail, Skip
  <2> QED BY <1>6, <2>1, <2>2, <2>3 DEF Progress
<1>7. CASE (\E point \in Points : DeadlinePasses(point)) \/ UNCHANGED vars
  BY <1>3, <1>7 DEF DeadlinePasses, vars
<1> QED BY <1>4, <1>5, <1>6, <1>7 DEF Next

(* A row cancelled before a sweep claimed it is never revived, and its     *)
(* rules are never matched, also when a sweep has it on its list.          *)
THEOREM CancelledForGood == Spec => CancellationIsFinal
<1>1. IInv /\ [Next]_vars =>
        [\A s \in Signals :
            signal[s].state = "CANCELLED" /\ (\A w \in Sweepers : sweep[w].claim # s)
                => signal'[s].state = "CANCELLED" /\ fired'[s] = fired[s]]_vars
  BY CancellationStep
<1> QED BY <1>1, Invariant, PTL DEF Spec, CancellationIsFinal
=============================================================================
