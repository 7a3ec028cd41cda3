--------------------------- MODULE TicketDetailPage ---------------------------
(***************************************************************************)
(* The ticket detail page of the single-page application, one mounted      *)
(* instance of it in one browser: pages/TicketDetailPage.tsx with its      *)
(* ownership panel and its report section.  React Router keeps the         *)
(* instance while the ticket in the URL changes, requests are answered in  *)
(* any order, and other people change the tickets meanwhile.               *)
(*                                                                         *)
(* A ticket's content is cut in the two parts that the page treats         *)
(* differently: the basics (title, description, category, priority, risk)  *)
(* and the extras (linked alarm ids and Markdown context).  Each part is   *)
(* known by the version of its ticket that wrote it last.                  *)
(***************************************************************************)
EXTENDS Naturals, Sequences, FiniteSetsExt

CONSTANTS
    Tickets,        \* the tickets whose page may be opened
    Requests,       \* slots for the requests the page has in flight
    OwnershipModes, \* the modes of the ownership panel that are offered
    None,           \* no detail, no panel, no request
    MaxChanges      \* bound on the changes of all tickets together

VARIABLES
    server,     \* per ticket, what the database holds
    events,     \* the ticket.changed messages on their way to this browser
    last,       \* the ticket of lastTicketEvent
    id,         \* the ticket in the URL
    detail,     \* the detail the page holds
    loading,    \* the page shows "loading" instead of its content
    submitting, \* the write whose answer the page says it waits for
    editing,    \* the edit form is shown
    panel,      \* the mode of the ownership panel that is open
    saving,     \* the upload that the report section on the page waits for
    req,        \* the requests in flight, loads and writes
    live        \* the refresh of the live slices that is not cancelled

content == <<detail, editing, panel>>
vars == <<server, events, last, id, content, loading, submitting, saving, req, live>>

Versions    == Nat \ {0}
Stored      == [version : Versions, basics : Versions, extras : Versions]
Detail      == [of : Tickets, version : Versions, basics : Versions,
                extrasOf : Tickets, extras : Versions]
WriteKinds  == {"action", "ownership", "comment", "edit", "report"}
Request     == [kind : WriteKinds \cup {"load"}, ticket : Tickets,
                version : Versions \cup {None}, from : Detail \cup {None},
                state : {"sent", "done", "refused"}, answer : Detail \cup {None}]
Live        == [ticket : Tickets, answer : Detail \cup {None}]

DetailAssumption ==
    /\ OwnershipModes \subseteq {"assign", "escalate_user", "escalate_pool"}
    /\ None \notin Tickets \cup OwnershipModes
    /\ None \notin Request
    /\ MaxChanges \in Nat

(***************************************************************************)
(* What the server answers: the whole ticket as it stands.                 *)
(***************************************************************************)
DetailOf(t) == [of |-> t, version |-> server[t].version, basics |-> server[t].basics,
                extrasOf |-> t, extras |-> server[t].extras]

(* Faulty: the refresh takes over the version and forgets the content.     *)
mergeVersionOnly(current, payload) ==
    [current EXCEPT !.of = payload.of, !.version = payload.version]

(* A live refresh replaces the ticket and leaves alarm ids and context.    *)
mergeLiveIntoDetail(current, payload) ==
    [payload EXCEPT !.extrasOf = current.extrasOf, !.extras = current.extras]

LoadRequest(t)     == [kind |-> "load", ticket |-> t, version |-> None, from |-> None,
                       state |-> "sent", answer |-> None]
WriteRequest(k, t) == [kind |-> k, ticket |-> t, version |-> detail.version,
                       from |-> IF k = "edit" THEN detail ELSE None,
                       state |-> "sent", answer |-> None]
LiveRequest(t)     == [ticket |-> t, answer |-> None]

Free(r)     == req[r] = None
InState(r, K, s) == ~Free(r) /\ req[r].kind \in K /\ req[r].state = s

Shown == ~loading /\ detail # None

-----------------------------------------------------------------------------
Init ==
    /\ server = [t \in Tickets |-> [version |-> 1, basics |-> 1, extras |-> 1]]
    /\ events = <<>>
    /\ last = None
    /\ id \in Tickets
    /\ detail = None
    /\ loading = TRUE
    /\ submitting = None
    /\ editing = FALSE
    /\ panel = None
    /\ saving = None
    /\ \E r \in Requests :
         req = [q \in Requests |-> IF q = r THEN LoadRequest(id) ELSE None]
    /\ live = None

-----------------------------------------------------------------------------
(***************************************************************************)
(* Loading.  loadDetail has no guard against an answer that comes late:    *)
(* the cancelled flag of its effect is read after the detail is set.       *)
(***************************************************************************)
loadDetail(t) ==
    /\ loading' = TRUE
    /\ saving' = None
    /\ \E r \in Requests : Free(r) /\ req' = [req EXCEPT ![r] = LoadRequest(t)]

(* Faulty: the effect has no cleanup, so the refresh of the ticket the page *)
(* showed before goes on.                                                  *)
NavigateWithoutCleanup(t) ==
    /\ t # id
    /\ id' = t
    /\ loadDetail(t)
    /\ editing' = FALSE
    /\ panel' = None
    /\ live' = IF last = t THEN LiveRequest(t) ELSE live
    /\ UNCHANGED <<server, events, last, detail, submitting>>

(* The URL moves to another ticket: the page is reset except for its       *)
(* detail, and both effects that depend on the id run again.               *)
Navigate(t) ==
    /\ t # id
    /\ id' = t
    /\ loadDetail(t)
    /\ editing' = FALSE
    /\ panel' = None
    /\ live' = IF last = t THEN LiveRequest(t) ELSE None
    /\ UNCHANGED <<server, events, last, detail, submitting>>

(* The refresh button of the related-knowledge panel.                      *)
Refresh ==
    /\ Shown
    /\ loadDetail(id)
    /\ UNCHANGED <<server, events, last, id, content, submitting, live>>

LoadAnswered(r) ==
    /\ InState(r, {"load"}, "done")
    /\ detail' = req[r].answer
    /\ loading' = FALSE
    /\ req' = [req EXCEPT ![r] = None]
    /\ UNCHANGED <<server, events, last, id, editing, panel, submitting, 
                   live, saving>>

LoadFailed(r) ==
    /\ ~Free(r) /\ req[r].kind = "load"
    /\ loading' = FALSE
    /\ req' = [req EXCEPT ![r] = None]
    /\ UNCHANGED <<server, events, last, id, content, submitting, live, saving>>

-----------------------------------------------------------------------------
(***************************************************************************)
(* The live refresh.  Its effect depends on the last event, so a newer     *)
(* event of any ticket cancels the refresh that is under way.              *)
(***************************************************************************)
EventArrives ==
    /\ events # <<>>
    /\ last' = Head(events)
    /\ events' = Tail(events)
    /\ live' = IF last' = id THEN LiveRequest(id) ELSE None
    /\ UNCHANGED <<server, id, content, loading, submitting, req, saving>>

LiveAnswered ==
    /\ live # None /\ live.answer # None
    /\ IF detail = None
         THEN UNCHANGED detail
         ELSE detail' = mergeLiveIntoDetail(detail, live.answer)
    /\ live' = None
    /\ UNCHANGED <<server, events, last, id, editing, panel, loading, submitting,
                   req, saving>>

(* A refusal (403, 404) empties the page, another failure keeps it.        *)
LiveFailed(gone) ==
    /\ live # None
    /\ live' = None
    /\ detail' = IF gone THEN None ELSE detail
    /\ saving' = IF gone THEN None ELSE saving
    /\ UNCHANGED <<server, events, last, id, editing, panel,
                   loading, submitting, req>>

-----------------------------------------------------------------------------
(***************************************************************************)
(* What the user may do with the page that is shown.                       *)
(***************************************************************************)
ActionsEnabled   == Shown /\ submitting = None
EditEnabled      == Shown /\ editing /\ submitting # "edit"
CommentEnabled   == Shown /\ submitting # "comment"
OwnershipEnabled == Shown /\ panel # None /\ submitting # "ownership"

Send(k, t) ==
    /\ submitting' = k
    /\ \E r \in Requests : Free(r) /\ req' = [req EXCEPT ![r] = WriteRequest(k, t)]

(* handleAction for respond, resolve, close, reopen and claim.             *)
SubmitAction ==
    /\ ActionsEnabled
    /\ Send("action", id)
    /\ UNCHANGED <<server, events, last, id, content, loading, live, saving>>

(* The edit button shows and hides the form, its Cancel hides it; neither  *)
(* resets the fields.                                                      *)
ToggleEdit ==
    /\ Shown
    /\ submitting = None \/ editing
    /\ editing' = ~editing
    /\ UNCHANGED <<server, events, last, id, detail, panel,
                   loading, submitting, req, live, saving>>

SubmitEdit ==
    /\ EditEnabled
    /\ Send("edit", id)
    /\ UNCHANGED <<server, events, last, id, content, loading, live, saving>>

SubmitComment ==
    /\ CommentEnabled
    /\ Send("comment", id)
    /\ UNCHANGED <<server, events, last, id, content, loading, live, saving>>

(* The panel opens at once; whom it offers is loaded after it.             *)
openOwnershipAction(mode) ==
    /\ ActionsEnabled
    /\ panel' = mode
    /\ UNCHANGED <<server, events, last, id, detail, editing, 
                   loading, submitting, req, live, saving>>

CancelOwnership ==
    /\ Shown /\ panel # None
    /\ panel' = None
    /\ UNCHANGED <<server, events, last, id, detail, editing, 
                   loading, submitting, req, live, saving>>

SubmitOwnership ==
    /\ OwnershipEnabled
    /\ Send("ownership", id)
    /\ UNCHANGED <<server, events, last, id, content, loading, live, saving>>

(* A report is stored for the ticket that is shown; what matters here is   *)
(* that the page then reloads the ticket the URL named when the form was   *)
(* sent.  The saving flag belongs to the section and goes with it whenever *)
(* the page shows something else.                                          *)
UploadEnabled == Shown /\ saving = None

UploadReport ==
    /\ UploadEnabled
    /\ \E r \in Requests :
         /\ Free(r)
         /\ req' = [req EXCEPT ![r] = WriteRequest("report", id)]
         /\ saving' = r
    /\ UNCHANGED <<server, events, last, id, content, loading, submitting, live>>

-----------------------------------------------------------------------------
(***************************************************************************)
(* The server: a write is accepted for the version it was made from, an    *)
(* edit replaces both parts of the content, and every change is announced. *)
(***************************************************************************)
Accepts(w) == w.version = server[w.ticket].version

Written(w) ==
    LET next == server[w.ticket].version + 1 IN
    IF w.kind = "edit"
      THEN [version |-> next, basics |-> next, extras |-> next]
      ELSE [server[w.ticket] EXCEPT !.version = next]

MayChange == MapThenSumSet(LAMBDA t : server[t].version - 1, Tickets) < MaxChanges

ServerReads(r) ==
    /\ InState(r, {"load"}, "sent")
    /\ req' = [req EXCEPT ![r].state = "done", ![r].answer = DetailOf(req[r].ticket)]
    /\ UNCHANGED <<server, events, last, id, content, loading, submitting, live, saving>>

ServerReadsLive ==
    /\ live # None /\ live.answer = None
    /\ live' = [live EXCEPT !.answer = DetailOf(live.ticket)]
    /\ UNCHANGED <<server, events, last, id, content, loading, submitting, req, saving>>

ServerCommits(r) ==
    /\ InState(r, WriteKinds \ {"report"}, "sent")
    /\ Accepts(req[r]) /\ MayChange
    /\ LET t == req[r].ticket
           s == Written(req[r])
       IN /\ server' = [server EXCEPT ![t] = s]
          /\ events' = Append(events, t)
          /\ req' = [req EXCEPT ![r].state = "done", ![r].answer =
                       [of |-> t, version |-> s.version, basics |-> s.basics,
                        extrasOf |-> t, extras |-> s.extras]]
    /\ UNCHANGED <<last, id, content, loading, submitting, live, saving>>

(* Another version, another owner or a status that does not allow it.      *)
ServerRefuses(r) ==
    /\ InState(r, WriteKinds, "sent")
    /\ req' = [req EXCEPT ![r].state = "refused"]
    /\ UNCHANGED <<server, events, last, id, content, loading, submitting, live, saving>>

ServerStoresReport(r) ==
    /\ InState(r, {"report"}, "sent")
    /\ req' = [req EXCEPT ![r].state = "done"]
    /\ UNCHANGED <<server, events, last, id, content, loading, submitting, live, saving>>

(* Somebody else comments or edits: the parts an edit names are replaced.  *)
OtherWrites(t, parts) ==
    /\ MayChange
    /\ LET next == server[t].version + 1 IN
         server' = [server EXCEPT ![t] =
                      [version |-> next,
                       basics  |-> IF "basics" \in parts THEN next ELSE @.basics,
                       extras  |-> IF "extras" \in parts THEN next ELSE @.extras]]
    /\ events' = Append(events, t)
    /\ UNCHANGED <<last, id, content, loading, submitting, req, live, saving>>

-----------------------------------------------------------------------------
(***************************************************************************)
(* The answers to the writes.                                              *)
(***************************************************************************)
ActionOrCommentDone(r) ==
    /\ InState(r, {"action", "comment"}, "done")
    /\ detail' = req[r].answer
    /\ submitting' = None
    /\ req' = [req EXCEPT ![r] = None]
    /\ UNCHANGED <<server, events, last, id, editing, panel, loading, live,
                   saving>>

OwnershipDone(r) ==
    /\ InState(r, {"ownership"}, "done")
    /\ detail' = req[r].answer
    /\ panel' = None
    /\ submitting' = None
    /\ req' = [req EXCEPT ![r] = None]
    /\ UNCHANGED <<server, events, last, id, editing, loading, live, saving>>

EditDone(r) ==
    /\ InState(r, {"edit"}, "done")
    /\ detail' = req[r].answer
    /\ editing' = FALSE
    /\ submitting' = None
    /\ req' = [req EXCEPT ![r] = None]
    /\ UNCHANGED <<server, events, last, id, panel, loading, live, saving>>

(* The upload is followed by a load of the ticket the URL named when the   *)
(* form was sent.                                                          *)
ReportDone(r) ==
    /\ InState(r, {"report"}, "done")
    /\ loading' = TRUE
    /\ saving' = None
    /\ req' = [req EXCEPT ![r] = LoadRequest(req[r].ticket)]
    /\ UNCHANGED <<server, events, last, id, content, submitting, live>>

(* Faulty: the flag is cleared in the try block and not in finally.        *)
WriteFailedWithoutFinally(r) ==
    /\ InState(r, WriteKinds, "refused")
    /\ req' = [req EXCEPT ![r] = None]
    /\ UNCHANGED <<server, events, last, id, content, loading, submitting, live,
                   saving>>

WriteFailed(r) ==
    /\ ~Free(r) /\ req[r].kind \in WriteKinds
    /\ submitting' = IF req[r].kind = "report" THEN submitting ELSE None
    /\ saving' = IF saving = r THEN None ELSE saving
    /\ req' = [req EXCEPT ![r] = None]
    /\ UNCHANGED <<server, events, last, id, content, loading, live>>

-----------------------------------------------------------------------------
UserStep ==
    \/ \E t \in Tickets : Navigate(t)
    \/ Refresh
    \/ SubmitAction \/ ToggleEdit \/ SubmitEdit
    \/ SubmitComment
    \/ \E m \in OwnershipModes : openOwnershipAction(m)
    \/ CancelOwnership \/ SubmitOwnership
    \/ UploadReport

ServerStep(r) ==
    \/ ServerReads(r) \/ ServerCommits(r) \/ ServerRefuses(r) \/ ServerStoresReport(r)

Answer(r) ==
    \/ LoadAnswered(r) \/ ActionOrCommentDone(r) \/ OwnershipDone(r)
    \/ EditDone(r) \/ ReportDone(r) \/ WriteFailed(r)

Next ==
    \/ UserStep
    \/ \E r \in Requests : ServerStep(r) \/ Answer(r) \/ LoadFailed(r)
    \/ EventArrives \/ ServerReadsLive \/ LiveAnswered
    \/ \E gone \in BOOLEAN : LiveFailed(gone)
    \/ \E t \in Tickets, parts \in {{}, {"basics"}, {"extras"}} : OtherWrites(t, parts)

Spec == Init /\ [][Next]_vars

-----------------------------------------------------------------------------
(***************************************************************************)
(* Properties.                                                             *)
(***************************************************************************)
TypeOK ==
    /\ server \in [Tickets -> Stored]
    /\ events \in Seq(Tickets)
    /\ last \in Tickets \cup {None} /\ id \in Tickets
    /\ detail \in Detail \cup {None}
    /\ loading \in BOOLEAN /\ editing \in BOOLEAN
    /\ submitting \in WriteKinds \cup {None}
    /\ panel \in OwnershipModes \cup {None}
    /\ saving \in Requests \cup {None}
    /\ req \in [Requests -> Request \cup {None}]
    /\ live \in Live \cup {None}

(* An edit that the server would accept was made over the basics that the  *)
(* server holds, when the page showed the ticket the edit goes to: a live  *)
(* refresh that brings a new version brings the new basics with it and     *)
(* resets the form.  The extras (alarm ids and context) are not among what *)
(* it brings: those an edit may write back old.                            *)
EditIsMadeOverCurrentBasics ==
    \A r \in Requests :
        /\ InState(r, {"edit"}, "sent")
        /\ req[r].from.of = req[r].ticket /\ Accepts(req[r])
        => req[r].from.basics = server[req[r].ticket].basics

(* A live refresh that is under way is for the ticket in the URL: one that *)
(* was started for the ticket before it is cancelled, so its answer is not *)
(* merged into the page of another ticket.                                 *)
LiveRefreshIsForThePage == live # None => live.ticket = id

(* The page never waits for nothing: "loading" and the disabled buttons    *)
(* are there only while a request of that kind is under way, although      *)
(* answers overtake each other and any of them clears the flag.            *)
WaitingIsReal ==
    /\ loading => \E r \in Requests : ~Free(r) /\ req[r].kind = "load"
    /\ submitting # None => \E r \in Requests : ~Free(r) /\ req[r].kind = submitting
    /\ saving # None => ~Free(saving) /\ req[saving].kind = "report"
=============================================================================
