------------------------------ MODULE TicketCache ------------------------------
(***************************************************************************)
(* The cached answers about one ticket (tickets/cache.py and the readers   *)
(* and handlers of tickets/service.py and reporting.py).  A reader looks   *)
(* the entry up and, on a miss, reads the database, one statement after    *)
(* the other, and stores what it read; a handler commits its change and    *)
(* then deletes both entries.  Nothing orders the two.  Contents are known *)
(* by the change that wrote them last; the comparison of versions that     *)
(* guards a change is in TicketWorkflow.                                   *)
(***************************************************************************)
EXTENDS Naturals

CONSTANTS
    Readers,     \* GET requests
    Writers,     \* handlers that change the ticket, its feed or its reports
    MaxChanges,  \* bound on committed changes
    MaxFailures, \* bound on errors of Redis and lost processes
    None

VARIABLES
    db,       \* per part of a ticket, the change that wrote it last
    changes,  \* the number of changes
    entry,    \* per key, the cached entry or None
    reader,   \* per reader, its request or None
    writer,   \* per handler, what it committed and how far it is, or None
    told,     \* per part, the last change whose handler has answered
    failures

vars == <<db, changes, entry, reader, writer, told, failures>>

Parts    == {"ticket", "escalation", "rest"}
Keys     == {"summary", "detail"}
Held(k)  == IF k = "summary" THEN {"ticket"} ELSE Parts
Contents == [Parts -> 0..MaxChanges]
Nothing  == [p \in Parts |-> 0]

(* Every change records an action or a comment; reports leave the row of   *)
(* the ticket, and so its version, alone.                                  *)
Touched == {{"ticket", "rest"}, {"ticket", "escalation", "rest"}, {"rest"}}

(* crossed is history: of an entry, that a handler deleted the entries     *)
(* after the first statement of the reader who stored it and before it     *)
(* did; of an answer, that it is such an entry.                            *)
Entries == [content : Contents, crossed : BOOLEAN]
Gets    == [key : Keys, step : {"cache", "ticket", "escalation", "rest", "store", "answered"},
            content : Contents, crossed : BOOLEAN, asked : Contents]
Changes == [change : 1..MaxChanges, parts : Touched, step : {"committed", "invalidated"}]

ASSUME CacheAssumption ==
    /\ MaxChanges \in Nat /\ MaxFailures \in Nat
    /\ None \notin Entries \cup Gets \cup Changes

Init ==
    /\ db = Nothing /\ told = Nothing /\ changes = 0
    /\ entry = [k \in Keys |-> None]
    /\ reader = [r \in Readers |-> None]
    /\ writer = [w \in Writers |-> None]
    /\ failures = 0

Fails == failures < MaxFailures /\ failures' = failures + 1

-----------------------------------------------------------------------------
(* The readers: get_ticket_summary, get_ticket_detail and get_ticket_live. *)
At(r, step) == reader[r] # None /\ reader[r].step = step

Get(r, k) ==
    /\ reader[r] = None
    /\ reader' = [reader EXCEPT ![r] = [key |-> k, step |-> "cache", content |-> Nothing,
                                        crossed |-> FALSE, asked |-> told]]
    /\ UNCHANGED <<db, changes, entry, writer, told, failures>>

CacheHit(r) ==
    /\ At(r, "cache") /\ entry[reader[r].key] # None
    /\ reader' = [reader EXCEPT ![r].step = "answered",
                                ![r].content = entry[reader[r].key].content,
                                ![r].crossed = entry[reader[r].key].crossed]
    /\ UNCHANGED <<db, changes, entry, writer, told, failures>>

CacheMiss(r) ==
    /\ At(r, "cache") /\ entry[reader[r].key] = None
    /\ reader' = [reader EXCEPT ![r].step = "ticket"]
    /\ UNCHANGED <<db, changes, entry, writer, told, failures>>

(* One SELECT of _detail_base_entry; a summary is the row of the ticket.   *)
Following(k, part) ==
    CASE part = "ticket" /\ k = "detail" -> "escalation"
      [] part = "escalation"             -> "rest"
      [] OTHER                           -> "store"

Select(r, part) ==
    /\ At(r, part)
    /\ reader' = [reader EXCEPT ![r].content[part] = db[part],
                                ![r].step = Following(reader[r].key, part)]
    /\ UNCHANGED <<db, changes, entry, writer, told, failures>>

SetEntry(r) ==
    /\ At(r, "store")
    /\ entry' = [entry EXCEPT ![reader[r].key] =
                   [content |-> reader[r].content, crossed |-> reader[r].crossed]]
    /\ reader' = [reader EXCEPT ![r].step = "answered", ![r].crossed = FALSE]
    /\ UNCHANGED <<db, changes, writer, told, failures>>

(* An error of Redis is logged: it is a miss, or nothing is stored.        *)
CacheFails(r) ==
    /\ Fails
    /\ \/ At(r, "cache") /\ reader' = [reader EXCEPT ![r].step = "ticket"]
       \/ At(r, "store") /\ reader' = [reader EXCEPT ![r].step = "answered", ![r].crossed = FALSE]
    /\ UNCHANGED <<db, changes, entry, writer, told>>

Answered(r) ==
    /\ At(r, "answered")
    /\ reader' = [reader EXCEPT ![r] = None]
    /\ UNCHANGED <<db, changes, entry, writer, told, failures>>

-----------------------------------------------------------------------------
(* The handlers.                                                           *)
Has(w, step) == writer[w] # None /\ writer[w].step = step

Commit(w) ==
    /\ writer[w] = None /\ changes < MaxChanges
    /\ changes' = changes + 1
    /\ \E parts \in Touched :
         /\ db' = [p \in Parts |-> IF p \in parts THEN changes + 1 ELSE db[p]]
         /\ writer' = [writer EXCEPT ![w] =
                         [change |-> changes + 1, parts |-> parts, step |-> "committed"]]
    /\ UNCHANGED <<entry, reader, told, failures>>

(* Faulty: the entry of the summary is forgotten.                          *)
invalidatedDetailOnly == {"detail"}
invalidatedKeys == {"summary", "detail"}

invalidate_ticket(w) ==
    /\ Has(w, "committed")
    /\ writer' = [writer EXCEPT ![w].step = "invalidated"]
    /\ entry' = [k \in Keys |-> IF k \in invalidatedKeys THEN None ELSE entry[k]]
    /\ reader' = [r \in Readers |->
                    IF reader[r] # None /\ reader[r].step \in {"escalation", "rest", "store"}
                    THEN [reader[r] EXCEPT !.crossed = TRUE] ELSE reader[r]]
    /\ UNCHANGED <<db, changes, told, failures>>

(* Redis refuses the delete, and the handler goes on.                      *)
DeleteFails(w) ==
    /\ Has(w, "committed") /\ Fails
    /\ writer' = [writer EXCEPT ![w].step = "invalidated"]
    /\ UNCHANGED <<db, changes, entry, reader, told>>

(* The change is published and answered from the database.                 *)
(* Faulty: it is published as soon as it is committed.                     *)
ReadyOnCommit(w) == Has(w, "committed") \/ Has(w, "invalidated")
Ready(w) == Has(w, "invalidated")

Larger(m, n) == IF m > n THEN m ELSE n

Publish(w) ==
    /\ Ready(w)
    /\ told' = [p \in Parts |-> IF p \in writer[w].parts THEN Larger(told[p], writer[w].change)
                                                         ELSE told[p]]
    /\ writer' = [writer EXCEPT ![w] = None]
    /\ UNCHANGED <<db, changes, entry, reader, failures>>

(* A process is lost, or a handler of reporting.py fails after its commit. *)
Dies ==
    /\ Fails
    /\ \/ \E r \in Readers : reader[r] # None /\ reader' = [reader EXCEPT ![r] = None] /\ UNCHANGED writer
       \/ \E w \in Writers : writer[w] # None /\ writer' = [writer EXCEPT ![w] = None] /\ UNCHANGED reader
    /\ UNCHANGED <<db, changes, entry, told>>

(* The time of an entry ends.  Faulty: it has none.                        *)
ExpireNever(k) == entry[k] = None /\ UNCHANGED vars

Expire(k) ==
    /\ entry[k] # None
    /\ entry' = [entry EXCEPT ![k] = None]
    /\ UNCHANGED <<db, changes, reader, writer, told, failures>>

Reads(r)  == CacheHit(r) \/ CacheMiss(r) \/ (\E part \in Parts : Select(r, part)) \/ SetEntry(r) \/ Answered(r)
Writes(w) == invalidate_ticket(w) \/ Publish(w)

Next ==
    \/ \E r \in Readers : (\E k \in Keys : Get(r, k)) \/ Reads(r) \/ CacheFails(r)
    \/ \E w \in Writers : Commit(w) \/ Writes(w) \/ DeleteFails(w)
    \/ Dies
    \/ \E k \in Keys : Expire(k)

Spec == Init /\ [][Next]_vars

(* Requests run to their end, and Redis drops an entry whose time is over. *)
FairSpec ==
    /\ Spec
    /\ \A r \in Readers : WF_vars(Reads(r))
    /\ \A w \in Writers : WF_vars(Writes(w))
    /\ \A k \in Keys : WF_vars(Expire(k))

-----------------------------------------------------------------------------
TypeOK ==
    /\ db \in Contents /\ told \in Contents /\ changes \in 0..MaxChanges
    /\ entry \in [Keys -> Entries \cup {None}]
    /\ reader \in [Readers -> Gets \cup {None}]
    /\ writer \in [Writers -> Changes \cup {None}]
    /\ failures \in 0..MaxFailures

(* An entry that lacks a change is either about to be deleted by the       *)
(* handler of that change, or was read before a deletion and stored after. *)
StaleOnlyIfCrossed ==
    failures = 0 =>
        \A k \in Keys : entry[k] # None /\ ~entry[k].crossed =>
            \A p \in Held(k) : entry[k].content[p] # db[p] =>
                \E w \in Writers : Has(w, "committed") /\ p \in writer[w].parts

(* Who asks after a change was answered or published is shown it, whatever *)
(* requests and handlers run beside, unless the answer is an entry that    *)
(* was read before a deletion and stored after it.                         *)
AnswersShowWhatWasTold ==
    failures = 0 =>
        \A r \in Readers : At(r, "answered") /\ ~reader[r].crossed =>
            \A p \in Held(reader[r].key) : reader[r].content[p] >= reader[r].asked[p]

(* When the changes have ended, no entry lacks one of them for ever,       *)
(* whatever raced, failed or was lost.                                     *)
Converges ==
    <>[](\A k \in Keys : entry[k] # None => \A p \in Held(k) : entry[k].content[p] = db[p])
=============================================================================
