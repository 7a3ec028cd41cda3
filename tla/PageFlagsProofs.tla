---------------------------- MODULE PageFlagsProofs ----------------------------
(***************************************************************************)
(* Proofs about the types and the flags of the pages, for any records,     *)
(* slots and bounds.  On every page, what is sent, what ends and what is   *)
(* awaited next must respect the flags: a flag is raised by the call whose *)
(* kind it waits for, and cleared by the end of that call.                 *)
(***************************************************************************)
EXTENDS PagesProofs, Sequences

-----------------------------------------------------------------------------
(* The detail page of a ticket.  No write of it says "report" is being     *)
(* submitted: the report section has a flag of its own, so the answer that *)
(* is followed by a load leaves the buttons' flag with its request.        *)
TicketFlags ==
    /\ TicketView!TypeOK /\ TicketView!WaitingIsReal
    /\ submitting # None => submitting # "report"

LEMMA TicketKinds ==
    ASSUME TicketView!TypeOK
    PROVE  /\ \A t \in Plain :
                /\ TicketView!LoadRequest(t) \in TicketView!Request
                /\ TicketView!LoadRequest(t).kind = "load"
           /\ \A k \in TicketView!WriteKinds : TicketView!Shown =>
                /\ TicketView!WriteRequest(k, id) \in TicketView!Request
                /\ TicketView!WriteRequest(k, id).kind = k
           /\ \A t \in Plain : TicketView!LiveRequest(t) \in TicketView!Live
           /\ \A t \in Plain : TicketView!DetailOf(t) \in TicketView!Detail
           /\ None \notin TicketView!Request
<1>1. \A t \in Plain : /\ TicketView!LoadRequest(t) \in TicketView!Request
                       /\ TicketView!LoadRequest(t).kind = "load"
  BY DEF TicketView!LoadRequest, TicketView!Request
<1>2. ASSUME NEW k \in TicketView!WriteKinds, TicketView!Shown
      PROVE  /\ TicketView!WriteRequest(k, id) \in TicketView!Request
             /\ TicketView!WriteRequest(k, id).kind = k
  <2>1. detail \in TicketView!Detail /\ id \in Plain
    BY <1>2 DEF TicketView!Shown, TicketView!TypeOK
  <2>2. detail.version \in TicketView!Versions
    BY <2>1 DEF TicketView!Detail
  <2> QED BY <2>1, <2>2 DEF TicketView!WriteRequest, TicketView!Request
<1>3. \A t \in Plain : TicketView!LiveRequest(t) \in TicketView!Live
  BY DEF TicketView!LiveRequest, TicketView!Live
<1>4. \A t \in Plain : TicketView!DetailOf(t) \in TicketView!Detail
  BY DEF TicketView!DetailOf, TicketView!Detail, TicketView!TypeOK, TicketView!Stored
<1> QED BY <1>1, <1>2, <1>3, <1>4, PagesAssumption DEF TicketView!DetailAssumption

LEMMA TicketTypes ==
    ASSUME NEW q \in TicketView!Request
    PROVE  /\ q.kind \in TicketView!WriteKinds \cup {"load"} /\ q.ticket \in Plain
           /\ q.answer \in TicketView!Detail \cup {None}
           /\ \A state \in {"done", "refused"} :
                /\ [q EXCEPT !.state = state] \in TicketView!Request
                /\ [q EXCEPT !.state = state].kind = q.kind
           /\ \A d \in TicketView!Detail :
                /\ [q EXCEPT !.state = "done", !.answer = d] \in TicketView!Request
                /\ [q EXCEPT !.state = "done", !.answer = d].kind = q.kind
BY DEF TicketView!Request

(* What a request that is sent, ends or goes on must leave to the flags.   *)
LEMMA TicketWaits ==
    ASSUME TicketFlags, TicketView!TypeOK',
           NEW r \in Slots, NEW q \in TicketView!Request \cup {None},
           req' = [req EXCEPT ![r] = q],
           loading' => \/ q # None /\ q.kind = "load"
                       \/ loading /\ ~(req[r] # None /\ req[r].kind = "load"),
           submitting' # None => submitting' # "report",
           submitting' # None =>
             \/ q # None /\ q.kind = submitting'
             \/ submitting' = submitting /\ ~(req[r] # None /\ req[r].kind = submitting),
           saving' # None =>
             \/ saving' = r /\ q # None /\ q.kind = "report"
             \/ saving' = saving /\ saving # r
    PROVE  TicketFlags'
<1>1. /\ req'[r] = q /\ \A s \in Slots \ {r} : req'[s] = req[s]
      /\ saving \in Slots \cup {None}
  BY DEF TicketFlags, TicketView!TypeOK
<1>2. loading' => \E s \in Slots : req'[s] # None /\ req'[s].kind = "load"
  BY <1>1 DEF TicketFlags, TicketView!WaitingIsReal, TicketView!Free
<1>3. submitting' # None => \E s \in Slots : req'[s] # None /\ req'[s].kind = submitting'
  BY <1>1 DEF TicketFlags, TicketView!WaitingIsReal, TicketView!Free
<1>4. saving' # None => req'[saving'] # None /\ req'[saving'].kind = "report"
  BY <1>1 DEF TicketFlags, TicketView!WaitingIsReal, TicketView!Free
<1> QED BY <1>2, <1>3, <1>4 DEF TicketFlags, TicketView!WaitingIsReal, TicketView!Free

LEMMA TicketQuiet ==
    ASSUME TicketFlags, TicketView!TypeOK', req' = req, loading' = loading,
           submitting' = submitting, saving' \in {saving, None}
    PROVE  TicketFlags'
BY DEF TicketFlags, TicketView!WaitingIsReal, TicketView!Free

LEMMA TicketUserFlags ==
    ASSUME TicketFlags, TicketView!UserStep
    PROVE  TicketFlags'
<1>0. TicketView!TypeOK
  BY DEF TicketFlags
<1>1. ASSUME NEW t \in Plain,
             \/ TicketView!Navigate(t)
             \/ TicketView!Refresh /\ t = id
      PROVE  TicketFlags'
  <2>1. PICK r \in Slots :
          req[r] = None /\ req' = [req EXCEPT ![r] = TicketView!LoadRequest(t)]
    BY <1>1 DEF TicketView!Navigate, TicketView!Refresh, TicketView!loadDetail,
       TicketView!Free
  <2>2. loading' = TRUE /\ saving' = None /\ submitting' = submitting
    BY <1>1 DEF TicketView!Navigate, TicketView!Refresh, TicketView!loadDetail
  <2>3. TicketView!TypeOK'
    <3>1. req' \in [Slots -> TicketView!Request \cup {None}]
      BY <1>0, <2>1, TicketKinds DEF TicketView!TypeOK
    <3>2. /\ id' \in Plain /\ live' \in TicketView!Live \cup {None}
          /\ editing' \in BOOLEAN /\ panel' \in {"assign"} \cup {None}
      BY <1>0, <1>1, TicketKinds DEF TicketView!Navigate, TicketView!Refresh,
         TicketView!TypeOK, TicketView!content
    <3>3. UNCHANGED <<server, events, last, detail>>
      BY <1>1 DEF TicketView!Navigate, TicketView!Refresh, TicketView!content
    <3> QED BY <1>0, <2>2, <3>1, <3>2, <3>3 DEF TicketView!TypeOK
  <2> QED BY <1>0, <2>1, <2>2, <2>3, TicketKinds, TicketWaits DEF TicketFlags
<1>2. ASSUME NEW k \in TicketView!WriteKinds \ {"report"}, TicketView!Shown,
             TicketView!Send(k, id),
             UNCHANGED <<server, events, last, id, TicketView!content, loading, live,
                         saving>>
      PROVE  TicketFlags'
  <2>1. PICK r \in Slots :
          req[r] = None /\ req' = [req EXCEPT ![r] = TicketView!WriteRequest(k, id)]
    BY <1>2 DEF TicketView!Send, TicketView!Free
  <2>2. submitting' = k /\ UNCHANGED <<loading, saving>>
    BY <1>2 DEF TicketView!Send
  <2>3. PICK q \in TicketView!Request : q = TicketView!WriteRequest(k, id) /\ q.kind = k
    BY <1>0, <1>2, TicketKinds
  <2>4. req' = [req EXCEPT ![r] = q] /\ q # None
    BY <1>0, <2>1, <2>3, TicketKinds
  <2>5. TicketView!TypeOK'
    BY <1>0, <1>2, <2>2, <2>4 DEF TicketView!TypeOK, TicketView!content
  <2>6. saving # None => saving # r
    BY <2>1 DEF TicketFlags, TicketView!WaitingIsReal, TicketView!Free
  <2> QED BY <2>1, <2>2, <2>3, <2>4, <2>5, <2>6, TicketWaits
<1>3. CASE TicketView!UploadReport
  <2>1. PICK r \in Slots :
          /\ req[r] = None /\ req' = [req EXCEPT ![r] = TicketView!WriteRequest("report", id)]
          /\ saving' = r
    BY <1>3 DEF TicketView!UploadReport, TicketView!Free
  <2>2. UNCHANGED <<server, events, last, id, TicketView!content, loading, submitting, live>>
    BY <1>3 DEF TicketView!UploadReport
  <2>3. PICK q \in TicketView!Request :
          q = TicketView!WriteRequest("report", id) /\ q.kind = "report"
    BY <1>0, <1>3, TicketKinds
    DEF TicketView!UploadReport, TicketView!UploadEnabled, TicketView!WriteKinds
  <2>4. req' = [req EXCEPT ![r] = q] /\ q # None
    BY <1>0, <2>1, <2>3, TicketKinds
  <2>5. TicketView!TypeOK'
    BY <1>0, <2>1, <2>2, <2>4 DEF TicketView!TypeOK, TicketView!content
  <2>6. submitting # None => submitting # "report"
    BY DEF TicketFlags
  <2> QED BY <2>1, <2>2, <2>3, <2>4, <2>5, <2>6, TicketWaits
<1>4. CASE \/ TicketView!ToggleEdit \/ TicketView!CancelOwnership
           \/ \E m \in {"assign"} : TicketView!openOwnershipAction(m)
  <2>1. /\ editing' \in BOOLEAN /\ panel' \in {"assign"} \cup {None}
        /\ UNCHANGED <<server, events, last, id, detail, loading, submitting, req, live,
                       saving>>
    BY <1>0, <1>4 DEF TicketView!ToggleEdit, TicketView!CancelOwnership,
       TicketView!openOwnershipAction, TicketView!TypeOK
  <2>2. TicketView!TypeOK'
    BY <1>0, <2>1 DEF TicketView!TypeOK
  <2> QED BY <2>1, <2>2, TicketQuiet
<1>5. CASE \/ TicketView!SubmitAction \/ TicketView!SubmitEdit \/ TicketView!SubmitComment
           \/ TicketView!SubmitOwnership
  <2>1. PICK k \in TicketView!WriteKinds \ {"report"} :
          /\ TicketView!Shown /\ TicketView!Send(k, id)
          /\ UNCHANGED <<server, events, last, id, TicketView!content, loading, live,
                         saving>>
    BY <1>5 DEF TicketView!SubmitAction, TicketView!SubmitEdit, TicketView!SubmitComment,
       TicketView!SubmitOwnership, TicketView!ActionsEnabled, TicketView!EditEnabled,
       TicketView!CommentEnabled, TicketView!OwnershipEnabled, TicketView!WriteKinds
  <2> QED BY <1>2, <2>1
<1>6. id \in Plain
  BY <1>0 DEF TicketView!TypeOK
<1> QED BY <1>1, <1>3, <1>4, <1>5, <1>6 DEF TicketView!UserStep

LEMMA TicketServerFlags ==
    ASSUME TicketFlags, NEW r \in Slots, TicketView!ServerStep(r)
    PROVE  TicketFlags'
<1>0. TicketView!TypeOK
  BY DEF TicketFlags
<1>1. /\ req[r] # None /\ req[r] \in TicketView!Request
      /\ UNCHANGED <<last, id, TicketView!content, loading, submitting, live, saving>>
  BY <1>0 DEF TicketView!ServerStep, TicketView!ServerReads, TicketView!ServerCommits,
     TicketView!ServerRefuses, TicketView!ServerStoresReport, TicketView!InState,
     TicketView!Free, TicketView!TypeOK
<1>2. req[r].ticket \in Plain
  BY <1>1, TicketTypes
<1>3. ASSUME NEW q \in TicketView!Request, q.kind = req[r].kind,
             req' = [req EXCEPT ![r] = q], server' \in [Plain -> TicketView!Stored],
             events' \in Seq(Plain)
      PROVE  TicketFlags'
  <2>1. TicketView!TypeOK'
    BY <1>0, <1>1, <1>3 DEF TicketView!TypeOK, TicketView!content
  <2>2. q # None
    BY <1>0, TicketKinds
  <2>3. saving = r /\ saving # None => q.kind = "report"
    BY <1>3 DEF TicketFlags, TicketView!WaitingIsReal
  <2>4. submitting # None => submitting # "report"
    BY DEF TicketFlags
  <2> QED BY <1>1, <1>3, <2>1, <2>2, <2>3, <2>4, TicketWaits
<1>4. CASE TicketView!ServerReads(r)
  <2>1. PICK d \in TicketView!Detail : d = TicketView!DetailOf(req[r].ticket)
    BY <1>0, <1>2, TicketKinds
  <2>2. PICK q \in TicketView!Request :
          q = [req[r] EXCEPT !.state = "done", !.answer = d] /\ q.kind = req[r].kind
    BY <1>1, TicketTypes, ZenonT(40)
  <2>3. req' = [req EXCEPT ![r] = q] /\ server' = server /\ events' = events
    BY <1>0, <1>4, <2>1, <2>2 DEF TicketView!ServerReads, TicketView!TypeOK
  <2> QED BY <1>0, <1>3, <2>2, <2>3 DEF TicketView!TypeOK
<1>5. CASE TicketView!ServerRefuses(r) \/ TicketView!ServerStoresReport(r)
  <2>1. PICK state \in {"done", "refused"} : req' = [req EXCEPT ![r].state = state]
    BY <1>5 DEF TicketView!ServerRefuses, TicketView!ServerStoresReport
  <2>2. PICK q \in TicketView!Request :
          q = [req[r] EXCEPT !.state = state] /\ q.kind = req[r].kind
    BY <1>1, TicketTypes
  <2>3. req' = [req EXCEPT ![r] = q] /\ server' = server /\ events' = events
    BY <1>0, <1>5, <2>1, <2>2
    DEF TicketView!ServerRefuses, TicketView!ServerStoresReport, TicketView!TypeOK
  <2> QED BY <1>0, <1>3, <2>2, <2>3 DEF TicketView!TypeOK
<1>6. CASE TicketView!ServerCommits(r)
  <2>1. PICK t \in Plain : t = req[r].ticket
    BY <1>2
  <2>2. PICK s \in TicketView!Stored : s = TicketView!Written(req[r])
    <3>1. server[req[r].ticket] \in TicketView!Stored
      BY <1>0, <1>2 DEF TicketView!TypeOK
    <3> DEFINE next == server[req[r].ticket].version + 1
    <3>2. next \in TicketView!Versions
      BY <3>1 DEF TicketView!Stored, TicketView!Versions
    <3>3. CASE req[r].kind = "edit"
      BY <3>2, <3>3 DEF TicketView!Written, TicketView!Stored
    <3>4. CASE req[r].kind # "edit"
      <4>1. [server[req[r].ticket] EXCEPT !.version = next] \in TicketView!Stored
        BY <3>1, <3>2 DEF TicketView!Stored
      <4> QED BY <3>4, <4>1 DEF TicketView!Written
    <3> QED BY <3>3, <3>4
  <2>3. PICK d \in TicketView!Detail :
          d = [of |-> t, version |-> s.version, basics |-> s.basics,
               extrasOf |-> t, extras |-> s.extras]
    BY DEF TicketView!Detail, TicketView!Stored
  <2>4. PICK q \in TicketView!Request :
          q = [req[r] EXCEPT !.state = "done", !.answer = d] /\ q.kind = req[r].kind
    BY <1>1, TicketTypes, ZenonT(40)
  <2>5. /\ server' = [server EXCEPT ![t] = s] /\ events' = Append(events, t)
        /\ req' = [req EXCEPT ![r] = q]
    BY <1>0, <1>6, <2>1, <2>2, <2>3, <2>4 DEF TicketView!ServerCommits, TicketView!TypeOK
  <2>6. server' \in [Plain -> TicketView!Stored] /\ events' \in Seq(Plain)
    BY <1>0, <2>5 DEF TicketView!TypeOK
  <2> QED BY <1>3, <2>4, <2>5, <2>6
<1> QED BY <1>4, <1>5, <1>6 DEF TicketView!ServerStep

LEMMA TicketOtherFlags ==
    ASSUME TicketFlags, NEW t \in Plain, NEW parts, TicketView!OtherWrites(t, parts)
    PROVE  TicketFlags'
<1>0. TicketView!TypeOK
  BY DEF TicketFlags
<1>1. PICK row \in TicketView!Stored : server' = [server EXCEPT ![t] = row]
  <2> DEFINE next == server[t].version + 1
             new  == [version |-> next,
                      basics  |-> IF "basics" \in parts THEN next ELSE server[t].basics,
                      extras  |-> IF "extras" \in parts THEN next ELSE server[t].extras]
  <2>1. server' = [server EXCEPT ![t] = new]
    BY <1>0 DEF TicketView!OtherWrites, TicketView!TypeOK
  <2>2. server[t] \in TicketView!Stored
    BY <1>0 DEF TicketView!TypeOK
  <2>3. new \in TicketView!Stored
    BY <2>2 DEF TicketView!Stored, TicketView!Versions
  <2> HIDE DEF new
  <2> QED BY <2>1, <2>3
<1>2. /\ events' = Append(events, t)
      /\ UNCHANGED <<last, id, TicketView!content, loading, submitting, req, live,
                     saving>>
  BY DEF TicketView!OtherWrites
<1>3. server' \in [Plain -> TicketView!Stored] /\ events' \in Seq(Plain)
  BY <1>0, <1>1, <1>2 DEF TicketView!TypeOK
<1>4. TicketView!TypeOK'
  BY <1>0, <1>2, <1>3 DEF TicketView!TypeOK, TicketView!content
<1> QED BY <1>2, <1>4, TicketQuiet

LEMMA TicketAnswerFlags ==
    ASSUME TicketFlags, NEW r \in Slots, TicketView!Answer(r) \/ TicketView!LoadFailed(r)
    PROVE  TicketFlags'
<1>0. TicketView!TypeOK /\ (submitting # None => submitting # "report")
  BY DEF TicketFlags
<1>1. /\ req[r] # None /\ req[r] \in TicketView!Request
      /\ UNCHANGED <<server, events, last, id, live>>
  BY <1>0 DEF TicketView!Answer, TicketView!LoadFailed, TicketView!LoadAnswered,
     TicketView!ActionOrCommentDone, TicketView!OwnershipDone, TicketView!EditDone,
     TicketView!ReportDone, TicketView!WriteFailed, TicketView!InState, TicketView!Free,
     TicketView!TypeOK
<1>2. /\ req[r].ticket \in Plain /\ req[r].answer \in TicketView!Detail \cup {None}
      /\ req[r].kind \in TicketView!WriteKinds \cup {"load"}
  BY <1>1, TicketTypes
<1>3. /\ detail' \in TicketView!Detail \cup {None}
      /\ editing' \in BOOLEAN /\ panel' \in {"assign"} \cup {None}
  <2>1. detail' \in TicketView!Detail \cup {None}
    BY <1>0, <1>2
    DEF TicketView!Answer, TicketView!LoadFailed, TicketView!LoadAnswered,
        TicketView!ActionOrCommentDone, TicketView!OwnershipDone, TicketView!EditDone,
        TicketView!ReportDone, TicketView!WriteFailed, TicketView!content, TicketView!TypeOK
  <2>2. editing' \in BOOLEAN /\ panel' \in {"assign"} \cup {None}
    BY <1>0
    DEF TicketView!Answer, TicketView!LoadFailed, TicketView!LoadAnswered,
        TicketView!ActionOrCommentDone, TicketView!OwnershipDone, TicketView!EditDone,
        TicketView!ReportDone, TicketView!WriteFailed, TicketView!content, TicketView!TypeOK
  <2> QED BY <2>1, <2>2
<1>4. saving = r /\ saving # None => req[r].kind = "report"
  BY DEF TicketFlags, TicketView!WaitingIsReal
<1>5. ASSUME NEW q \in TicketView!Request \cup {None}, req' = [req EXCEPT ![r] = q],
             loading' \in BOOLEAN, submitting' \in {submitting, None},
             saving' \in {saving, None}
      PROVE  TicketView!TypeOK'
  BY <1>0, <1>1, <1>3, <1>5 DEF TicketView!TypeOK
<1>6. CASE TicketView!LoadAnswered(r) \/ TicketView!LoadFailed(r)
  <2>1. /\ req[r].kind = "load" /\ ~loading' /\ submitting' = submitting /\ saving' = saving
        /\ req' = [req EXCEPT ![r] = None] /\ loading' = FALSE
    BY <1>6 DEF TicketView!LoadAnswered, TicketView!LoadFailed, TicketView!InState
  <2>2. TicketView!TypeOK'
    BY <1>5, <2>1
  <2>3. submitting # None => req[r].kind # submitting
    BY <1>0, <2>1 DEF TicketView!TypeOK, TicketView!WriteKinds
  <2> QED BY <1>0, <1>4, <2>1, <2>2, <2>3, TicketWaits
<1>7. CASE TicketView!ActionOrCommentDone(r) \/ TicketView!OwnershipDone(r)
           \/ TicketView!EditDone(r)
  <2>1. /\ req[r].kind \in {"action", "comment", "ownership", "edit"}
        /\ loading' = loading /\ submitting' = None /\ saving' = saving
        /\ req' = [req EXCEPT ![r] = None]
    BY <1>7 DEF TicketView!ActionOrCommentDone, TicketView!OwnershipDone,
       TicketView!EditDone, TicketView!InState
  <2>2. TicketView!TypeOK'
    BY <1>0, <1>5, <2>1 DEF TicketView!TypeOK
  <2> QED BY <1>0, <1>4, <2>1, <2>2, TicketWaits
<1>8. CASE TicketView!ReportDone(r)
  <2>1. /\ req[r].kind = "report" /\ loading' = TRUE /\ submitting' = submitting
        /\ saving' = None
        /\ req' = [req EXCEPT ![r] = TicketView!LoadRequest(req[r].ticket)]
    BY <1>8 DEF TicketView!ReportDone, TicketView!InState
  <2>2. PICK q \in TicketView!Request :
          q = TicketView!LoadRequest(req[r].ticket) /\ q.kind = "load" /\ q # None
    BY <1>0, <1>2, TicketKinds
  <2>3. TicketView!TypeOK'
    BY <1>5, <2>1, <2>2
  <2> QED BY <1>0, <2>1, <2>2, <2>3, TicketWaits
<1>9. CASE TicketView!WriteFailed(r)
  <2>1. /\ req[r].kind \in TicketView!WriteKinds /\ loading' = loading
        /\ submitting' = IF req[r].kind = "report" THEN submitting ELSE None
        /\ saving' = IF saving = r THEN None ELSE saving
        /\ req' = [req EXCEPT ![r] = None]
    BY <1>9 DEF TicketView!WriteFailed
  <2>2. TicketView!TypeOK'
    BY <1>0, <1>5, <2>1 DEF TicketView!TypeOK
  <2>3. req[r].kind # "load"
    BY <2>1 DEF TicketView!WriteKinds
  <2> QED BY <1>0, <2>1, <2>2, <2>3, TicketWaits
<1> QED BY <1>6, <1>7, <1>8, <1>9 DEF TicketView!Answer

LEMMA TicketLiveFlags ==
    ASSUME TicketFlags,
           \/ TicketView!EventArrives \/ TicketView!ServerReadsLive \/ TicketView!LiveAnswered
           \/ \E gone \in BOOLEAN : TicketView!LiveFailed(gone)
    PROVE  TicketFlags'
<1>0. TicketView!TypeOK
  BY DEF TicketFlags
<1>1. /\ UNCHANGED <<server, id, editing, panel, loading, submitting, req>>
      /\ saving' \in {saving, None}
  BY DEF TicketView!EventArrives, TicketView!ServerReadsLive, TicketView!LiveAnswered,
     TicketView!LiveFailed, TicketView!content
<1>2. events' \in Seq(Plain) /\ last' \in Plain \cup {None}
  <2>1. CASE TicketView!EventArrives
    <3>1. events \in Seq(Plain) /\ events # <<>>
      BY <1>0, <2>1 DEF TicketView!EventArrives, TicketView!TypeOK
    <3>2. Head(events) \in Plain /\ Tail(events) \in Seq(Plain)
      BY <3>1
    <3> QED BY <2>1, <3>2 DEF TicketView!EventArrives
  <2>2. CASE ~TicketView!EventArrives
    BY <1>0, <2>2 DEF TicketView!ServerReadsLive, TicketView!LiveAnswered,
       TicketView!LiveFailed, TicketView!TypeOK
  <2> QED BY <2>1, <2>2
<1>3. /\ detail' \in TicketView!Detail \cup {None}
      /\ live' \in TicketView!Live \cup {None}
  <2>1. CASE TicketView!EventArrives
    BY <1>0, <2>1, TicketKinds DEF TicketView!EventArrives, TicketView!content,
       TicketView!TypeOK
  <2>2. CASE TicketView!ServerReadsLive
    <3>1. live \in TicketView!Live /\ live.ticket \in Plain
      BY <1>0, <2>2 DEF TicketView!ServerReadsLive, TicketView!TypeOK, TicketView!Live
    <3>2. PICK d \in TicketView!Detail : d = TicketView!DetailOf(live.ticket)
      BY <1>0, <3>1, TicketKinds
    <3>3. live' = [live EXCEPT !.answer = d] /\ detail' = detail
      BY <2>2, <3>2 DEF TicketView!ServerReadsLive, TicketView!content
    <3>4. live' \in TicketView!Live
      BY <3>1, <3>3 DEF TicketView!Live
    <3> QED BY <1>0, <3>3, <3>4 DEF TicketView!TypeOK
  <2>3. CASE TicketView!LiveAnswered
    <3>1. live' = None /\ live.answer \in TicketView!Detail
      BY <1>0, <2>3 DEF TicketView!LiveAnswered, TicketView!TypeOK, TicketView!Live
    <3>2. ASSUME NEW d \in TicketView!Detail
          PROVE  TicketView!mergeLiveIntoDetail(d, live.answer) \in TicketView!Detail
      BY <3>1 DEF TicketView!mergeLiveIntoDetail, TicketView!Detail
    <3> QED BY <1>0, <2>3, <3>1, <3>2 DEF TicketView!LiveAnswered, TicketView!TypeOK
  <2>4. CASE \E gone \in BOOLEAN : TicketView!LiveFailed(gone)
    BY <1>0, <2>4 DEF TicketView!LiveFailed, TicketView!TypeOK
  <2> QED BY <2>1, <2>2, <2>3, <2>4
<1>4. TicketView!TypeOK'
  BY <1>0, <1>1, <1>2, <1>3 DEF TicketView!TypeOK
<1> QED BY <1>1, <1>4, TicketQuiet

LEMMA TicketFlagStep == TicketFlags /\ TicketView!Next => TicketFlags'
BY TicketUserFlags, TicketServerFlags, TicketOtherFlags, TicketAnswerFlags, TicketLiveFlags
   DEF TicketView!Next

LEMMA TicketFlagInit == TicketView!Init => TicketFlags
<1> SUFFICES ASSUME TicketView!Init PROVE TicketFlags
  OBVIOUS
<1>1. /\ server \in [Plain -> TicketView!Stored] /\ events \in Seq(Plain) /\ id \in Plain
  BY PagesAssumption DEF TicketView!Init, TicketView!Stored, TicketView!Versions,
     TicketView!DetailAssumption
<1>2. /\ TicketView!LoadRequest(id) \in TicketView!Request
      /\ TicketView!LoadRequest(id).kind = "load" /\ TicketView!LoadRequest(id) # None
  BY <1>1, PagesAssumption
  DEF TicketView!LoadRequest, TicketView!Request, TicketView!DetailAssumption
<1>3. PICK r \in Slots :
        req = [q \in Slots |-> IF q = r THEN TicketView!LoadRequest(id) ELSE None]
  BY DEF TicketView!Init
<1>4. TicketView!TypeOK
  BY <1>1, <1>2, <1>3 DEF TicketView!Init, TicketView!TypeOK
<1>5. req[r] # None /\ req[r].kind = "load"
  BY <1>2, <1>3
<1>6. submitting = None /\ saving = None
  BY DEF TicketView!Init
<1> QED BY <1>4, <1>5, <1>6 DEF TicketFlags, TicketView!WaitingIsReal, TicketView!Free

LEMMA TicketFlagStay == TicketFlags /\ UNCHANGED <<req, ticketView>> => TicketFlags'
BY DEF TicketFlags, ticketView, TicketView!TypeOK, TicketView!WaitingIsReal, TicketView!Free

-----------------------------------------------------------------------------
(* The template page.                                                      *)
RenderingTyped == Typed(Rendering!UiType, Slots, Rendering!Request)

LEMMA RenderingKinds ==
    /\ \A k \in {"list", "preview"} : [kind |-> k] \in Rendering!Request
    /\ \A a \in {"save", "status"} : [kind |-> "reload", after |-> a] \in Rendering!Request
    /\ \A t \in Items : \A v \in Rendering!Opened :
         [kind |-> "detail", of |-> t, open |-> v] \in Rendering!Request
    /\ \A d \in Rendering!Draft : [kind |-> "save", draft |-> d] \in Rendering!Request
    /\ \A t \in Items : \A b \in BOOLEAN :
         [kind |-> "status", of |-> t, shown |-> b] \in Rendering!Request
    /\ None \notin Rendering!Request
BY PagesAssumption DEF NoneIsNoRequest, Rendering!Request

LEMMA RenderingTypes ==
    ASSUME RenderingTyped, NEW r \in Slots, req[r] # None
    PROVE  /\ req[r].kind = "reload" => req[r].after \in {"save", "status"}
           /\ req[r].kind = "detail" => req[r].of \in Items /\ req[r].open \in Rendering!Opened
           /\ req[r].kind = "save" => req[r].draft \in Rendering!Draft
           /\ req[r].kind = "status" => req[r].of \in Items /\ req[r].shown \in BOOLEAN
BY DEF RenderingTyped, Typed, Rendering!Request

LEMMA RenderingDomain == RenderingTyped => DOMAIN ui = RenderingHooks /\ DOMAIN req = Slots
BY DEF RenderingTyped, Typed, Rendering!UiType, RenderingHooks

LEMMA RenderingPuts ==
    ASSUME RenderingTyped
    PROVE  /\ UNCHANGED req => req' \in [Slots -> Rendering!Request \cup {None}]
           /\ \A r \in Slots : Rendering!Return(r) =>
                req' \in [Slots -> Rendering!Request \cup {None}]
           /\ \A c \in Rendering!Request : \A r \in Slots :
                Rendering!Await(r, c) => req' \in [Slots -> Rendering!Request \cup {None}]
           /\ \A c \in Rendering!Request :
                Rendering!Call(c) => req' \in [Slots -> Rendering!Request \cup {None}]
           /\ \A c \in Rendering!Request : Rendering!Again(c) =>
                req' \in [Slots -> Rendering!Request \cup {None}]
BY DEF RenderingTyped, Typed, Rendering!Return, Rendering!Await, Rendering!Call,
       Rendering!Again, Rendering!Without

LEMMA RenderingLeaves ==
    ASSUME RenderingTyped
    PROVE  /\ \A c : Rendering!Call(c) =>
                /\ \A s \in Slots : req[s] # None => req'[s] = req[s]
                /\ \E s \in Slots : req'[s] = c
           /\ \A c : Rendering!Again(c) =>
                /\ \A s \in Slots : req[s] # None /\ req[s].kind # c.kind => req'[s] = req[s]
                /\ \E s \in Slots : req'[s] = c
           /\ \A r \in Slots : Rendering!Return(r) =>
                \A s \in Slots \ {r} : req'[s] = req[s]
           /\ \A r \in Slots : \A c : Rendering!Await(r, c) =>
                /\ req'[r] = c
                /\ \A s \in Slots \ {r} : req'[s] = req[s]
BY DEF RenderingTyped, Typed, Rendering!Call, Rendering!Return, Rendering!Await, Rendering!Free,
   Rendering!Again, Rendering!Without

LEMMA RenderingUserTypes ==
    ASSUME RenderingTyped,
           \/ Rendering!ChangeFilter \/ Rendering!openCreate \/ Rendering!handleBack
           \/ Rendering!handleSave \/ Rendering!handleRunPreview
           \/ \E y \in Rendering!Types : Rendering!handleTypeChange(y)
           \/ \E t \in Items : Rendering!handleToggleStatus(t)
    PROVE  RenderingTyped'
<1> USE RenderingKinds, RenderingPuts DEF RenderingTyped, Typed, Rendering!Set, Rendering!UiType
<1>1. CASE Rendering!ChangeFilter
  BY <1>1 DEF Rendering!ChangeFilter, Rendering!ListCall
<1>2. CASE Rendering!openCreate
  BY <1>2, RenderingDrafts DEF Rendering!openCreate, Rendering!Views
<1>3. CASE Rendering!handleBack
  BY <1>3 DEF Rendering!handleBack, Rendering!Views
<1>4. CASE Rendering!handleSave
  BY <1>4 DEF Rendering!handleSave, Rendering!EditorIsOffered
<1>5. CASE Rendering!handleRunPreview
  BY <1>5 DEF Rendering!handleRunPreview
<1>6. ASSUME NEW y \in Rendering!Types, Rendering!handleTypeChange(y) PROVE RenderingTyped'
  <2>1. ui.draft \in Rendering!Draft
    BY <1>6 DEF Rendering!handleTypeChange, Rendering!EditorIsOffered
  <2>2. [ui.draft EXCEPT !.type = y] \in Rendering!Draft
    BY <2>1 DEF Rendering!Draft
  <2> QED BY <1>6, <2>2 DEF Rendering!handleTypeChange
<1>7. ASSUME NEW t \in Items, Rendering!handleToggleStatus(t) PROVE RenderingTyped'
  BY <1>7 DEF Rendering!handleToggleStatus
<1> QED BY <1>1, <1>2, <1>3, <1>4, <1>5, <1>6, <1>7

LEMMA RenderingOpenTypes ==
    ASSUME RenderingTyped, NEW v \in Rendering!Opened, NEW t \in Items, Rendering!Open(v, t)
    PROVE  RenderingTyped'
<1>1. Rendering!draftFor(v, t) \in Rendering!Draft \cup {None}
  BY RenderingDrafts DEF RenderingTyped, Typed, Rendering!UiType, Rendering!draftFor
<1>2. v \in Rendering!Views
  BY DEF Rendering!Opened, Rendering!Views
<1>3. ui' \in Rendering!UiType
  BY <1>1, <1>2 DEF RenderingTyped, Typed, Rendering!Set, Rendering!UiType, Rendering!Open
<1> QED BY <1>3, RenderingKinds, RenderingPuts DEF RenderingTyped, Typed, Rendering!Open

LEMMA RenderingAnswerTypes ==
    ASSUME RenderingTyped, NEW r \in Slots,
           \/ Rendering!ListEnds(r) \/ Rendering!Reloaded(r)
           \/ Rendering!DetailAnswered(r) \/ Rendering!DetailFailed(r)
           \/ Rendering!Saved(r) \/ Rendering!Toggled(r) \/ Rendering!WriteFailed(r)
           \/ Rendering!Previewed(r)
    PROVE  RenderingTyped'
<1> USE RenderingKinds, RenderingPuts, RenderingTypes
    DEF RenderingTyped, Typed, Rendering!Set, Rendering!UiType, Rendering!Has, Rendering!Free
<1>1. CASE Rendering!ListEnds(r)
  BY <1>1 DEF Rendering!ListEnds
<1>2. CASE Rendering!Reloaded(r)
  BY <1>2 DEF Rendering!Reloaded
<1>3. CASE Rendering!DetailAnswered(r)
  BY <1>3, RenderingDrafts DEF Rendering!DetailAnswered, Rendering!draftFor, Rendering!Opened,
     Rendering!Views
<1>4. CASE Rendering!DetailFailed(r)
  BY <1>4 DEF Rendering!DetailFailed
<1>5. CASE Rendering!Saved(r)
  <2>1. req[r].draft \in Rendering!Draft
    BY <1>5 DEF Rendering!Saved
  <2>2. PICK t \in IF req[r].draft.of = None
                    THEN {t \in Items : Rendering!TypeOf(t) = req[r].draft.type}
                    ELSE {req[r].draft.of} :
          Rendering!Set([sel |-> t, detail |-> t, draft |-> Rendering!buildDraftFromDetail(t),
                         view |-> "detail", listLoading |-> TRUE])
    BY <1>5 DEF Rendering!Saved
  <2>3. t \in Items
    BY <2>1, <2>2 DEF Rendering!Draft
  <2>4. ui' \in Rendering!UiType
    BY <2>2, <2>3, RenderingDrafts DEF Rendering!Views
  <2> QED BY <1>5, <2>4 DEF Rendering!Saved, Rendering!loadTemplateList
<1>6. CASE Rendering!Toggled(r)
  BY <1>6 DEF Rendering!Toggled, Rendering!loadTemplateList
<1>7. CASE Rendering!WriteFailed(r)
  BY <1>7 DEF Rendering!WriteFailed
<1>8. CASE Rendering!Previewed(r)
  BY <1>8 DEF Rendering!Previewed
<1> QED BY <1>1, <1>2, <1>3, <1>4, <1>5, <1>6, <1>7, <1>8

LEMMA RenderingTypeStep == RenderingTyped /\ Rendering!Next => RenderingTyped'
<1> SUFFICES ASSUME RenderingTyped, Rendering!Next PROVE RenderingTyped'
  OBVIOUS
<1>1. ASSUME NEW v \in Rendering!Opened, NEW t \in Items, Rendering!OpenFromList(v, t)
      PROVE  RenderingTyped'
  BY <1>1, RenderingOpenTypes DEF Rendering!OpenFromList
<1>2. ASSUME NEW v \in Rendering!Opened, Rendering!OpenFromDetail(v) PROVE RenderingTyped'
  <2>1. ui.sel \in Items
    BY <1>2 DEF Rendering!OpenFromDetail, RenderingTyped, Typed, Rendering!UiType
  <2> QED BY <1>2, <2>1, RenderingOpenTypes DEF Rendering!OpenFromDetail
<1> QED BY <1>1, <1>2, RenderingUserTypes, RenderingAnswerTypes DEF Rendering!Next

LEMMA RenderingUserFlags ==
    ASSUME RenderingTyped, Rendering!FlagsAreReal,
           \/ Rendering!ChangeFilter \/ Rendering!openCreate \/ Rendering!handleBack
           \/ Rendering!handleSave \/ Rendering!handleRunPreview
           \/ \E y \in Rendering!Types : Rendering!handleTypeChange(y)
           \/ \E t \in Items : Rendering!handleToggleStatus(t)
    PROVE  Rendering!FlagsAreReal'
<1> USE RenderingKinds, RenderingDomain, RenderingLeaves
    DEF RenderingHooks, Rendering!Set, Rendering!Has, Rendering!Free,
        Rendering!FlagsAreReal, Rendering!InFlight, Rendering!Saving
<1>1. CASE Rendering!ChangeFilter
  BY <1>1 DEF Rendering!ChangeFilter, Rendering!ListCall
<1>2. CASE Rendering!openCreate \/ Rendering!handleBack
  BY <1>2 DEF Rendering!openCreate, Rendering!handleBack
<1>3. CASE Rendering!handleSave
  <2>1. /\ ui'.listLoading = ui.listLoading /\ ui'.previewLoading = ui.previewLoading
        /\ ui'.detailLoading = ui.detailLoading /\ ui'.pending = ui.pending
    BY <1>3 DEF Rendering!handleSave
  <2>2. PICK d \in Rendering!Draft : Rendering!Call([kind |-> "save", draft |-> d])
    BY <1>3 DEF Rendering!handleSave, Rendering!EditorIsOffered, RenderingTyped, Typed,
       Rendering!UiType
  <2> QED BY <2>1, <2>2
<1>4. CASE Rendering!handleRunPreview
  BY <1>4 DEF Rendering!handleRunPreview
<1>5. ASSUME NEW y \in Rendering!Types, Rendering!handleTypeChange(y)
      PROVE  Rendering!FlagsAreReal'
  BY <1>5 DEF Rendering!handleTypeChange
<1>6. ASSUME NEW t \in Items, Rendering!handleToggleStatus(t) PROVE Rendering!FlagsAreReal'
  <2>1. /\ ui'.listLoading = ui.listLoading /\ ui'.previewLoading = ui.previewLoading
        /\ ui'.saveLoading = ui.saveLoading /\ ui'.detailLoading = ui.detailLoading
    BY <1>6 DEF Rendering!handleToggleStatus
  <2>2. PICK b \in BOOLEAN : Rendering!Call([kind |-> "status", of |-> t, shown |-> b])
    BY <1>6 DEF Rendering!handleToggleStatus
  <2> QED BY <2>1, <2>2
<1> QED BY <1>1, <1>2, <1>3, <1>4, <1>5, <1>6

LEMMA RenderingOpenFlags ==
    ASSUME RenderingTyped, Rendering!FlagsAreReal,
           NEW v \in Rendering!Opened, NEW t \in Items, Rendering!Open(v, t)
    PROVE  Rendering!FlagsAreReal'
<1> USE RenderingKinds, RenderingDomain, RenderingLeaves
    DEF RenderingHooks, Rendering!Set, Rendering!Has, Rendering!Free,
        Rendering!FlagsAreReal, Rendering!InFlight, Rendering!Saving
<1>1. /\ ui'.listLoading = ui.listLoading /\ ui'.previewLoading = ui.previewLoading
      /\ ui'.saveLoading = ui.saveLoading /\ ui'.pending = ui.pending
  BY DEF Rendering!Open
<1>2. CASE UNCHANGED req /\ ui'.detailLoading = ui.detailLoading
  BY <1>1, <1>2
<1>3. CASE Rendering!Call([kind |-> "detail", of |-> t, open |-> v])
  BY <1>1, <1>3
<1> QED BY <1>2, <1>3 DEF Rendering!Open

LEMMA RenderingAnswerFlags ==
    ASSUME RenderingTyped, Rendering!FlagsAreReal, NEW r \in Slots,
           \/ Rendering!ListEnds(r) \/ Rendering!Reloaded(r)
           \/ Rendering!DetailAnswered(r) \/ Rendering!DetailFailed(r)
           \/ Rendering!Saved(r) \/ Rendering!Toggled(r) \/ Rendering!WriteFailed(r)
           \/ Rendering!Previewed(r)
    PROVE  Rendering!FlagsAreReal'
<1> USE RenderingKinds, RenderingTypes, RenderingDomain, RenderingLeaves
    DEF RenderingHooks, Rendering!Set, Rendering!Has, Rendering!Free,
        Rendering!FlagsAreReal, Rendering!InFlight, Rendering!Saving
<1>1. CASE Rendering!ListEnds(r) \/ Rendering!Reloaded(r)
  <2>1. /\ ~ui'.listLoading /\ req[r].kind \in {"list", "reload"} /\ Rendering!Return(r)
        /\ ui'.detailLoading = ui.detailLoading /\ ui'.previewLoading = ui.previewLoading
        /\ ui'.saveLoading => ui.saveLoading /\ ~Rendering!Saving(r, "save")
        /\ ui'.pending # None => ui'.pending = ui.pending /\ ~Rendering!Saving(r, "status")
    <3>1. CASE Rendering!ListEnds(r)
      BY <3>1 DEF Rendering!ListEnds
    <3>2. CASE Rendering!Reloaded(r)
      BY <3>2 DEF Rendering!Reloaded
    <3> QED BY <1>1, <3>1, <3>2
  <2> QED BY <2>1
<1>2. CASE Rendering!DetailAnswered(r) \/ Rendering!DetailFailed(r)
  BY <1>2 DEF Rendering!DetailAnswered, Rendering!DetailFailed
<1>3. CASE Rendering!Saved(r)
  <2>1. /\ ui'.detailLoading = ui.detailLoading /\ ui'.previewLoading = ui.previewLoading
        /\ ui'.saveLoading = ui.saveLoading /\ ui'.pending = ui.pending
    BY <1>3 DEF Rendering!Saved
  <2>2. /\ req[r].kind = "save"
        /\ Rendering!Await(r, [kind |-> "reload", after |-> "save"])
    BY <1>3 DEF Rendering!Saved, Rendering!loadTemplateList
  <2> QED BY <2>1, <2>2
<1>4. CASE Rendering!Toggled(r)
  <2>1. /\ ui'.detailLoading = ui.detailLoading /\ ui'.previewLoading = ui.previewLoading
        /\ ui'.saveLoading = ui.saveLoading /\ ui'.pending = ui.pending
    BY <1>4 DEF Rendering!Toggled
  <2>2. /\ req[r].kind = "status"
        /\ Rendering!Await(r, [kind |-> "reload", after |-> "status"])
    BY <1>4 DEF Rendering!Toggled, Rendering!loadTemplateList
  <2> QED BY <2>1, <2>2
<1>5. CASE Rendering!WriteFailed(r)
  <2>1. /\ req[r].kind \in {"save", "status"} /\ Rendering!Return(r)
        /\ ui'.listLoading = ui.listLoading
        /\ ui'.detailLoading = ui.detailLoading /\ ui'.previewLoading = ui.previewLoading
        /\ ui'.saveLoading => ui.saveLoading /\ ~Rendering!Saving(r, "save")
        /\ ui'.pending # None => ui'.pending = ui.pending /\ ~Rendering!Saving(r, "status")
    BY <1>5 DEF Rendering!WriteFailed
  <2> QED BY <2>1
<1>6. CASE Rendering!Previewed(r)
  BY <1>6 DEF Rendering!Previewed
<1> QED BY <1>1, <1>2, <1>3, <1>4, <1>5, <1>6

LEMMA RenderingFlagStep ==
    RenderingTyped /\ Rendering!FlagsAreReal /\ Rendering!Next => Rendering!FlagsAreReal'
<1> SUFFICES ASSUME RenderingTyped, Rendering!FlagsAreReal, Rendering!Next
             PROVE  Rendering!FlagsAreReal'
  OBVIOUS
<1>1. ASSUME NEW v \in Rendering!Opened, Rendering!OpenFromDetail(v)
      PROVE  Rendering!FlagsAreReal'
  <2>1. ui.sel \in Items
    BY <1>1 DEF Rendering!OpenFromDetail, RenderingTyped, Typed, Rendering!UiType
  <2> QED BY <1>1, <2>1, RenderingOpenFlags DEF Rendering!OpenFromDetail
<1> QED BY <1>1, RenderingUserFlags, RenderingOpenFlags, RenderingAnswerFlags
        DEF Rendering!Next, Rendering!OpenFromList

LEMMA RenderingFlagInit == Rendering!Init => RenderingTyped /\ Rendering!FlagsAreReal
<1> SUFFICES ASSUME Rendering!Init PROVE RenderingTyped /\ Rendering!FlagsAreReal
  OBVIOUS
<1>1. RenderingTyped
  BY RenderingKinds DEF Rendering!Init, Rendering!Mounted, Rendering!ListCall, RenderingTyped,
     Typed, Rendering!UiType, Rendering!Views
<1>2. Rendering!FlagsAreReal
  BY RenderingKinds DEF Rendering!Init, Rendering!Mounted, Rendering!ListCall,
     Rendering!FlagsAreReal, Rendering!InFlight, Rendering!Free
<1> QED BY <1>1, <1>2

LEMMA RenderingFlagStay ==
    RenderingTyped /\ Rendering!FlagsAreReal /\ UNCHANGED <<ui, req>> =>
        RenderingTyped' /\ Rendering!FlagsAreReal'
BY DEF RenderingTyped, Typed, Rendering!FlagsAreReal, Rendering!InFlight, Rendering!Saving,
   Rendering!Has, Rendering!Free

-----------------------------------------------------------------------------
(* The task page.                                                          *)
TasksTyped == Typed(TaskList!UiType, Slots, TaskList!Request)

LEMMA TasksKinds ==
    /\ \A t \in Items \cup {None} : [kind |-> "list", retried |-> t] \in TaskList!Request
    /\ \A t \in Items : [kind |-> "detail", of |-> t] \in TaskList!Request
    /\ [kind |-> "retry"] \in TaskList!Request
    /\ None \notin TaskList!Request
BY PagesAssumption DEF NoneIsNoRequest, TaskList!Request, TaskList!Maybe

LEMMA TasksTypes ==
    ASSUME TasksTyped, NEW r \in Slots, req[r] # None
    PROVE  /\ req[r].kind = "list" => req[r].retried \in Items \cup {None}
           /\ req[r].kind = "detail" => req[r].of \in Items
BY DEF TasksTyped, Typed, TaskList!Request, TaskList!Maybe

LEMMA TasksDomain == TasksTyped => DOMAIN ui = TasksHooks /\ DOMAIN req = Slots
BY DEF TasksTyped, Typed, TaskList!UiType, TasksHooks

LEMMA TasksPuts ==
    ASSUME TasksTyped
    PROVE  /\ UNCHANGED req => req' \in [Slots -> TaskList!Request \cup {None}]
           /\ \A r \in Slots : TaskList!Return(r) =>
                req' \in [Slots -> TaskList!Request \cup {None}]
           /\ \A c \in TaskList!Request : \A r \in Slots :
                TaskList!Await(r, c) => req' \in [Slots -> TaskList!Request \cup {None}]
           /\ \A c \in TaskList!Request :
                TaskList!Call(c) => req' \in [Slots -> TaskList!Request \cup {None}]
           /\ \A c \in TaskList!Request : TaskList!Again(c) =>
                req' \in [Slots -> TaskList!Request \cup {None}]
BY DEF TasksTyped, Typed, TaskList!Return, TaskList!Await, TaskList!Call,
       TaskList!Again, TaskList!Without

LEMMA TasksLeaves ==
    ASSUME TasksTyped
    PROVE  /\ \A c : TaskList!Call(c) =>
                /\ \A s \in Slots : req[s] # None => req'[s] = req[s]
                /\ \E s \in Slots : req'[s] = c
           /\ \A c : TaskList!Again(c) =>
                /\ \A s \in Slots : req[s] # None /\ req[s].kind # c.kind => req'[s] = req[s]
                /\ \E s \in Slots : req'[s] = c
           /\ \A r \in Slots : TaskList!Return(r) =>
                \A s \in Slots \ {r} : req'[s] = req[s]
           /\ \A r \in Slots : \A c : TaskList!Await(r, c) =>
                /\ req'[r] = c
                /\ \A s \in Slots \ {r} : req'[s] = req[s]
BY DEF TasksTyped, Typed, TaskList!Call, TaskList!Return, TaskList!Await, TaskList!Free,
   TaskList!Again, TaskList!Without

LEMMA TasksUserTypes ==
    ASSUME TasksTyped,
           \/ TaskList!Refresh \/ TaskList!Close
           \/ \E hidden \in SUBSET Items : TaskList!ChangeFilter(hidden)
           \/ \E t \in Items : TaskList!Select(t) \/ TaskList!handleRetry(t)
    PROVE  TasksTyped'
<1> USE TasksKinds, TasksPuts
    DEF TasksTyped, Typed, TaskList!Set, TaskList!UiType, TaskList!Maybe
<1>1. CASE TaskList!Refresh
  BY <1>1 DEF TaskList!Refresh
<1>2. CASE TaskList!Close
  BY <1>2 DEF TaskList!Close, TaskList!Cancel, TaskList!Without
<1>3. ASSUME NEW hidden \in SUBSET Items, TaskList!ChangeFilter(hidden) PROVE TasksTyped'
  BY <1>3 DEF TaskList!ChangeFilter
<1>4. ASSUME NEW t \in Items, TaskList!Select(t) PROVE TasksTyped'
  BY <1>4 DEF TaskList!Select, TaskList!DetailCall
<1>5. ASSUME NEW t \in Items, TaskList!handleRetry(t) PROVE TasksTyped'
  BY <1>5 DEF TaskList!handleRetry
<1> QED BY <1>1, <1>2, <1>3, <1>4, <1>5

LEMMA TasksAnswerTypes ==
    ASSUME TasksTyped, NEW r \in Slots,
           \/ TaskList!loadTasks(r) \/ TaskList!loadTaskDetail(r)
           \/ TaskList!Retried(r) \/ TaskList!RetryFailed(r) \/ TaskList!RetryShown(r)
    PROVE  TasksTyped'
<1> USE TasksKinds, TasksTypes, TasksPuts
    DEF TasksTyped, Typed, TaskList!Set, TaskList!UiType, TaskList!Maybe, TaskList!Has,
        TaskList!Free
<1>1. CASE TaskList!loadTasks(r)
  <2>1. PICK items \in SUBSET Items : TaskList!Set([items |-> items, loading |-> FALSE])
    BY <1>1 DEF TaskList!loadTasks
  <2>2. ui' \in TaskList!UiType
    BY <2>1
  <2>3. TaskList!Return(r)
    BY <1>1 DEF TaskList!loadTasks
  <2> QED BY <2>2, <2>3
<1>2. CASE TaskList!loadTaskDetail(r)
  BY <1>2 DEF TaskList!loadTaskDetail
<1>3. CASE TaskList!Retried(r)
  BY <1>3 DEF TaskList!Retried
<1>4. CASE TaskList!RetryFailed(r)
  BY <1>4 DEF TaskList!RetryFailed
<1>5. CASE TaskList!RetryShown(r)
  <2>1. req[r].retried \in Items
    BY <1>5 DEF TaskList!RetryShown
  <2>2. PICK items \in SUBSET Items :
          \/ /\ TaskList!Set([items |-> items, loading |-> FALSE, action |-> None])
             /\ TaskList!Return(r)
          \/ /\ TaskList!Set([items |-> items, loading |-> FALSE, action |-> None,
                              selected |-> req[r].retried, detailLoading |-> TRUE])
             /\ req' = [TaskList!Without({"detail"}) EXCEPT ![r] =
                          TaskList!DetailCall(req[r].retried)]
    BY <1>5 DEF TaskList!RetryShown
  <2>3. ui' \in TaskList!UiType
    <3>1. CASE TaskList!Set([items |-> items, loading |-> FALSE, action |-> None])
      BY <3>1
    <3>2. CASE TaskList!Set([items |-> items, loading |-> FALSE, action |-> None,
                             selected |-> req[r].retried, detailLoading |-> TRUE])
      BY <2>1, <3>2
    <3> QED BY <2>2, <3>1, <3>2
  <2>4. [TaskList!Without({"detail"}) EXCEPT ![r] = TaskList!DetailCall(req[r].retried)]
           \in [Slots -> TaskList!Request \cup {None}]
    BY <2>1 DEF TaskList!Without, TaskList!DetailCall
  <2> QED BY <2>2, <2>3, <2>4
<1> QED BY <1>1, <1>2, <1>3, <1>4, <1>5

LEMMA TasksUserFlags ==
    ASSUME TasksTyped, TaskList!FlagsAreReal,
           \/ TaskList!Refresh \/ TaskList!Close
           \/ \E hidden \in SUBSET Items : TaskList!ChangeFilter(hidden)
           \/ \E t \in Items : TaskList!Select(t) \/ TaskList!handleRetry(t)
    PROVE  TaskList!FlagsAreReal'
<1> USE TasksKinds, TasksDomain, TasksLeaves
    DEF TasksHooks, TaskList!Set, TaskList!Has, TaskList!Free, TaskList!FlagsAreReal,
        TaskList!InFlight
<1>1. CASE TaskList!Refresh
  BY <1>1 DEF TaskList!Refresh
<1>2. CASE TaskList!Close
  <2>1. ui'.loading = ui.loading /\ ui'.action = ui.action /\ ui'.selected = None
    BY <1>2 DEF TaskList!Close
  <2>2. \A s \in Slots : req[s] # None /\ req[s].kind # "detail" => req'[s] = req[s]
    BY <1>2 DEF TaskList!Close, TaskList!Cancel, TaskList!Without
  <2> QED BY <2>1, <2>2
<1>3. ASSUME NEW hidden \in SUBSET Items, TaskList!ChangeFilter(hidden)
      PROVE  TaskList!FlagsAreReal'
  BY <1>3 DEF TaskList!ChangeFilter
<1>4. ASSUME NEW t \in Items, TaskList!Select(t) PROVE TaskList!FlagsAreReal'
  <2>1. ui'.loading = ui.loading /\ ui'.action = ui.action
    BY <1>4 DEF TaskList!Select
  <2>2. TaskList!Again([kind |-> "detail", of |-> t])
    BY <1>4 DEF TaskList!Select, TaskList!DetailCall
  <2> QED BY <2>1, <2>2
<1>5. ASSUME NEW t \in Items, TaskList!handleRetry(t) PROVE TaskList!FlagsAreReal'
  <2>1. /\ ui'.loading = ui.loading /\ ui'.selected = ui.selected
        /\ ui'.detailLoading = ui.detailLoading /\ TaskList!Call([kind |-> "retry"])
    BY <1>5 DEF TaskList!handleRetry
  <2> QED BY <2>1
<1> QED BY <1>1, <1>2, <1>3, <1>4, <1>5

LEMMA TasksAnswerFlags ==
    ASSUME TasksTyped, TaskList!FlagsAreReal, NEW r \in Slots,
           \/ TaskList!loadTasks(r) \/ TaskList!loadTaskDetail(r)
           \/ TaskList!Retried(r) \/ TaskList!RetryFailed(r) \/ TaskList!RetryShown(r)
    PROVE  TaskList!FlagsAreReal'
<1> USE TasksKinds, TasksTypes, TasksDomain, TasksLeaves, NoneIsNoRecord
    DEF TasksHooks, TaskList!Set, TaskList!Has, TaskList!Free, TaskList!FlagsAreReal,
        TaskList!InFlight
<1>1. CASE TaskList!loadTasks(r)
  <2>1. /\ ~ui'.loading /\ ui'.selected = ui.selected /\ ui'.action = ui.action
        /\ ui'.detailLoading = ui.detailLoading /\ TaskList!Return(r)
        /\ req[r].kind = "list" /\ req[r].retried = None
    BY <1>1 DEF TaskList!loadTasks
  <2> QED BY <2>1
<1>2. CASE TaskList!loadTaskDetail(r)
  <2>1. /\ ui'.loading = ui.loading /\ ui'.action = ui.action /\ ~ui'.detailLoading
        /\ TaskList!Return(r) /\ req[r].kind = "detail"
    BY <1>2 DEF TaskList!loadTaskDetail
  <2> QED BY <2>1
<1>3. CASE TaskList!Retried(r)
  <2>1. /\ ui'.selected = ui.selected /\ ui'.action = ui.action
        /\ ui'.detailLoading = ui.detailLoading
        /\ req[r].kind = "retry"
    BY <1>3 DEF TaskList!Retried
  <2>2. PICK t \in Items : TaskList!Await(r, [kind |-> "list", retried |-> t])
    BY <1>3 DEF TaskList!Retried
  <2> QED BY <2>1, <2>2
<1>4. CASE TaskList!RetryFailed(r)
  BY <1>4 DEF TaskList!RetryFailed
<1>5. CASE TaskList!RetryShown(r)
  <2>1. req[r].retried \in Items /\ ~ui'.loading /\ ui'.action = None /\ req[r].kind = "list"
    BY <1>5 DEF TaskList!RetryShown
  <2>2. CASE TaskList!Return(r) /\ ui'.selected = ui.selected
        /\ ui'.detailLoading = ui.detailLoading
    BY <2>1, <2>2
  <2>3. CASE req' = [TaskList!Without({"detail"}) EXCEPT ![r] = TaskList!DetailCall(req[r].retried)]
    <3>1. req'[r] = [kind |-> "detail", of |-> req[r].retried]
      BY <2>3 DEF TaskList!Without, TaskList!DetailCall
    <3> QED BY <2>1, <3>1
  <2> QED BY <1>5, <2>2, <2>3 DEF TaskList!RetryShown
<1> QED BY <1>1, <1>2, <1>3, <1>4, <1>5

LEMMA TasksFlagStep ==
    TasksTyped /\ TaskList!FlagsAreReal /\ TaskList!Next =>
        TasksTyped' /\ TaskList!FlagsAreReal'
BY TasksUserTypes, TasksAnswerTypes, TasksUserFlags, TasksAnswerFlags DEF TaskList!Next

LEMMA TasksFlagInit == TaskList!Init => TasksTyped /\ TaskList!FlagsAreReal
<1> SUFFICES ASSUME TaskList!Init PROVE TasksTyped /\ TaskList!FlagsAreReal
  OBVIOUS
<1>1. TasksTyped
  BY TasksKinds DEF TaskList!Init, TaskList!Mounted, TasksTyped, Typed, TaskList!UiType,
     TaskList!Maybe
<1>2. TaskList!FlagsAreReal
  BY TasksKinds DEF TaskList!Init, TaskList!Mounted, TaskList!FlagsAreReal, TaskList!InFlight,
     TaskList!Free
<1> QED BY <1>1, <1>2

LEMMA TasksFlagStay ==
    TasksTyped /\ TaskList!FlagsAreReal /\ UNCHANGED <<ui, req>> =>
        TasksTyped' /\ TaskList!FlagsAreReal'
BY DEF TasksTyped, Typed, TaskList!FlagsAreReal, TaskList!InFlight, TaskList!Has, TaskList!Free

-----------------------------------------------------------------------------
(* The API tokens.  A request that knows whether its dialog is shown keeps *)
(* its kind when the dialog goes.                                          *)
TokensHooks == {"tokens", "loading", "showModal", "submitting", "newlyCreated", "revoking"}

TokensTyped == Typed(TokenList!UiType, Slots, TokenList!Request)

LEMMA TokensKinds ==
    /\ \A a \in {"nothing", "revoke"} : [kind |-> "list", after |-> a] \in TokenList!Request
    /\ \A b \in BOOLEAN : /\ [kind |-> "list", after |-> "create",
                              shown |-> b] \in TokenList!Request
                          /\ [kind |-> "create", shown |-> b] \in TokenList!Request
    /\ [kind |-> "create", shown |-> TRUE] \in TokenList!Request
    /\ [kind |-> "revoke"] \in TokenList!Request
    /\ None \notin TokenList!Request
BY PagesAssumption DEF NoneIsNoRequest, TokenList!Request

LEMMA TokensTypes ==
    ASSUME TokensTyped, NEW r \in Slots, req[r] # None
    PROVE  /\ req[r] \in TokenList!Request
           /\ req[r].kind = "create" => req[r].shown \in BOOLEAN
           /\ req[r].kind = "list" => req[r].after \in {"nothing", "revoke", "create"}
BY DEF TokensTyped, Typed, TokenList!Request

LEMMA TokensDomain == TokensTyped => DOMAIN ui = TokensHooks /\ DOMAIN req = Slots
BY DEF TokensTyped, Typed, TokenList!UiType, TokensHooks

LEMMA TokensPuts ==
    ASSUME TokensTyped
    PROVE  /\ UNCHANGED req => req' \in [Slots -> TokenList!Request \cup {None}]
           /\ \A r \in Slots : TokenList!Return(r) =>
                req' \in [Slots -> TokenList!Request \cup {None}]
           /\ \A c \in TokenList!Request : \A r \in Slots :
                TokenList!Await(r, c) => req' \in [Slots -> TokenList!Request \cup {None}]
           /\ \A c \in TokenList!Request :
                TokenList!Call(c) => req' \in [Slots -> TokenList!Request \cup {None}]
BY DEF TokensTyped, Typed, TokenList!Return, TokenList!Await, TokenList!Call

LEMMA TokensLeaves ==
    ASSUME TokensTyped
    PROVE  /\ \A c : TokenList!Call(c) =>
                /\ \A s \in Slots : req[s] # None => req'[s] = req[s]
                /\ \E s \in Slots : req'[s] = c
           /\ \A r \in Slots : TokenList!Return(r) =>
                \A s \in Slots \ {r} : req'[s] = req[s]
           /\ \A r \in Slots : \A c : TokenList!Await(r, c) =>
                /\ req'[r] = c
                /\ \A s \in Slots \ {r} : req'[s] = req[s]
BY DEF TokensTyped, Typed, TokenList!Call, TokenList!Return, TokenList!Await, TokenList!Free

LEMMA TokensDetached ==
    \A q \in TokenList!Request : "shown" \in DOMAIN q =>
        /\ [q EXCEPT !.shown = FALSE] \in TokenList!Request
        /\ [q EXCEPT !.shown = FALSE].kind = q.kind
        /\ q.kind = "list" => q.after = "create"
        /\ q.kind # "revoke"
<1> SUFFICES ASSUME NEW q \in TokenList!Request, "shown" \in DOMAIN q
             PROVE  /\ [q EXCEPT !.shown = FALSE] \in TokenList!Request
                    /\ [q EXCEPT !.shown = FALSE].kind = q.kind
                    /\ q.kind = "list" => q.after = "create"
                    /\ q.kind # "revoke"
  OBVIOUS
<1>1. q \in [kind : {"list"}, after : {"create"}, shown : BOOLEAN] \cup [kind : {"create"},
                                                                         shown : BOOLEAN]
  BY DEF TokenList!Request
<1> QED BY <1>1 DEF TokenList!Request

LEMMA TokensLeft ==
    ASSUME TokensTyped, NEW calls \in [Slots -> TokenList!Request \cup {None}]
    PROVE  /\ TokenList!Detached(calls) \in [Slots -> TokenList!Request \cup {None}]
           /\ \A s \in Slots : calls[s] # None =>
                /\ TokenList!Detached(calls)[s] # None
                /\ TokenList!Detached(calls)[s].kind = calls[s].kind
                /\ calls[s].kind = "list" /\ calls[s].after = "revoke" =>
                     TokenList!Detached(calls)[s] = calls[s]
<1>1. \A s \in Slots :
        /\ TokenList!Detached(calls)[s] \in TokenList!Request \cup {None}
        /\ calls[s] # None =>
             /\ TokenList!Detached(calls)[s] # None
             /\ TokenList!Detached(calls)[s].kind = calls[s].kind
             /\ calls[s].kind = "list" /\ calls[s].after = "revoke" =>
                  TokenList!Detached(calls)[s] = calls[s]
  BY TokensDetached, TokensKinds DEF TokenList!Detached
<1>2. TokenList!Detached(calls) = [s \in Slots |-> TokenList!Detached(calls)[s]]
  BY DEF TokenList!Detached
<1> QED BY <1>1, <1>2

LEMMA TokensShown ==
    ASSUME TokensTyped, NEW r \in Slots, req' = TokenList!Detached([req EXCEPT ![r] = None])
    PROVE  \A s \in Slots \ {r} : req[s] # None =>
             /\ req'[s] # None /\ req'[s].kind = req[s].kind
             /\ req[s].kind = "list" /\ req[s].after = "revoke" => req'[s] = req[s]
<1>1. PICK calls : calls = [req EXCEPT ![r] = None]
  OBVIOUS
<1>2. calls \in [Slots -> TokenList!Request \cup {None}]
      /\ \A s \in Slots \ {r} : calls[s] = req[s]
  BY <1>1 DEF TokensTyped, Typed
<1>3. \A s \in Slots : calls[s] # None =>
        /\ req'[s] # None /\ req'[s].kind = calls[s].kind
        /\ calls[s].kind = "list" /\ calls[s].after = "revoke" => req'[s] = calls[s]
  BY <1>1, <1>2, TokensLeft
<1> QED BY <1>2, <1>3

LEMMA TokensUserTypes ==
    ASSUME TokensTyped,
           \/ TokenList!Refresh \/ TokenList!Open \/ TokenList!CloseDialog
           \/ TokenList!handleSubmit \/ TokenList!Dismiss
           \/ \E t \in Items : TokenList!handleRevoke(t)
    PROVE  TokensTyped'
<1> USE TokensKinds, TokensPuts
    DEF TokensTyped, Typed, TokenList!Set, TokenList!UiType, TokenList!Maybe
<1>1. CASE TokenList!Refresh
  BY <1>1 DEF TokenList!Refresh
<1>2. CASE TokenList!Open
  BY <1>2 DEF TokenList!Open
<1>3. CASE TokenList!CloseDialog
  BY <1>3, TokensLeft DEF TokenList!CloseDialog
<1>4. CASE TokenList!handleSubmit
  BY <1>4 DEF TokenList!handleSubmit
<1>5. CASE TokenList!Dismiss
  BY <1>5 DEF TokenList!Dismiss
<1>6. ASSUME NEW t \in Items, TokenList!handleRevoke(t) PROVE TokensTyped'
  BY <1>6 DEF TokenList!handleRevoke
<1> QED BY <1>1, <1>2, <1>3, <1>4, <1>5, <1>6

LEMMA TokensSubmitted ==
    ASSUME TokensTyped, TokenList!Set([submitting |-> FALSE])
    PROVE  ui' \in TokenList!UiType
BY DEF TokensTyped, Typed, TokenList!Set, TokenList!UiType

LEMMA TokensAnswerTypes ==
    ASSUME TokensTyped, NEW r \in Slots,
           \/ TokenList!load(r) \/ TokenList!handleCreate(r) \/ TokenList!CreateFailed(r)
           \/ TokenList!CreateShown(r) \/ TokenList!Revoked(r) \/ TokenList!RevokeFailed(r)
           \/ TokenList!RevokeShown(r)
    PROVE  TokensTyped'
<1> USE TokensKinds, TokensTypes, TokensPuts
    DEF TokensTyped, Typed, TokenList!Set, TokenList!UiType, TokenList!Maybe, TokenList!Has,
        TokenList!Free
<1>0. TokenList!Contents = [Items -> {"active", "revoked", None}]
  BY DEF TokenList!Contents
<1>1. CASE TokenList!load(r)
  BY <1>0, <1>1 DEF TokenList!load
<1>2. CASE TokenList!handleCreate(r)
  BY <1>2 DEF TokenList!handleCreate
<1>3. CASE TokenList!CreateFailed(r)
  <2>1. ui' \in TokenList!UiType
    <3>1. CASE req[r].shown
      BY <1>3, <3>1, TokensSubmitted DEF TokenList!CreateFailed
    <3>2. CASE ~req[r].shown
      BY <1>3, <3>2 DEF TokenList!CreateFailed
    <3> QED BY <3>1, <3>2
  <2>2. TokenList!Return(r)
    BY <1>3 DEF TokenList!CreateFailed
  <2> QED BY <2>1, <2>2
<1>4. CASE TokenList!CreateShown(r)
  <2>1. ui' \in TokenList!UiType
    BY <1>0, <1>4 DEF TokenList!CreateShown
  <2>2. [req EXCEPT ![r] = None] \in [Slots -> TokenList!Request \cup {None}]
    OBVIOUS
  <2> QED BY <1>4, <2>1, <2>2, TokensLeft DEF TokenList!CreateShown
<1>5. CASE TokenList!Revoked(r)
  BY <1>5 DEF TokenList!Revoked
<1>6. CASE TokenList!RevokeFailed(r)
  BY <1>6 DEF TokenList!RevokeFailed
<1>7. CASE TokenList!RevokeShown(r)
  BY <1>0, <1>7 DEF TokenList!RevokeShown
<1> QED BY <1>1, <1>2, <1>3, <1>4, <1>5, <1>6, <1>7

LEMMA TokensUserFlags ==
    ASSUME TokensTyped, TokenList!FlagsAreReal,
           \/ TokenList!Refresh \/ TokenList!Open \/ TokenList!CloseDialog
           \/ TokenList!handleSubmit \/ TokenList!Dismiss
           \/ \E t \in Items : TokenList!handleRevoke(t)
    PROVE  TokenList!FlagsAreReal'
<1> USE TokensKinds, TokensDomain, TokensLeaves
    DEF TokensHooks, TokenList!Set, TokenList!Has, TokenList!Free, TokenList!FlagsAreReal,
        TokenList!InFlight, TokenList!After
<1>1. CASE TokenList!Refresh
  <2>1. /\ ui'.revoking = ui.revoking /\ ui'.submitting = ui.submitting
        /\ ui'.showModal = ui.showModal
        /\ TokenList!Call([kind |-> "list", after |-> "nothing"])
    BY <1>1 DEF TokenList!Refresh
  <2> QED BY <2>1
<1>2. CASE TokenList!Open
  BY <1>2 DEF TokenList!Open
<1>3. CASE TokenList!CloseDialog
  <2>1. /\ ui'.revoking = ui.revoking /\ ui'.loading = ui.loading /\ ~ui'.submitting
        /\ req' = TokenList!Detached(req)
    BY <1>3 DEF TokenList!CloseDialog
  <2>2. \A s \in Slots : req[s] # None =>
          /\ req'[s] # None /\ req'[s].kind = req[s].kind
          /\ req[s].kind = "list" /\ req[s].after = "revoke" => req'[s] = req[s]
    BY <2>1, TokensLeft DEF TokensTyped, Typed
  <2> QED BY <2>1, <2>2
<1>4. CASE TokenList!handleSubmit
  <2>1. /\ ui'.revoking = ui.revoking /\ ui'.loading = ui.loading /\ ui'.showModal
        /\ TokenList!Call([kind |-> "create", shown |-> TRUE])
    BY <1>4 DEF TokenList!handleSubmit
  <2>2. PICK n \in Slots : req'[n] = [kind |-> "create", shown |-> TRUE]
    BY <2>1
  <2>3. req'[n] # None
    BY <2>2
  <2>4. "shown" \in DOMAIN req'[n] /\ req'[n].shown
    BY <2>2
  <2> QED BY <2>1, <2>3, <2>4
<1>5. CASE TokenList!Dismiss
  BY <1>5 DEF TokenList!Dismiss
<1>6. ASSUME NEW t \in Items, TokenList!handleRevoke(t) PROVE TokenList!FlagsAreReal'
  <2>1. /\ ui'.loading = ui.loading /\ ui'.submitting = ui.submitting
        /\ ui'.showModal = ui.showModal /\ TokenList!Call([kind |-> "revoke"])
    BY <1>6 DEF TokenList!handleRevoke
  <2> QED BY <2>1
<1> QED BY <1>1, <1>2, <1>3, <1>4, <1>5, <1>6

LEMMA TokensAnswerFlags ==
    ASSUME TokensTyped, TokenList!FlagsAreReal, NEW r \in Slots,
           \/ TokenList!load(r) \/ TokenList!handleCreate(r) \/ TokenList!CreateFailed(r)
           \/ TokenList!CreateShown(r) \/ TokenList!Revoked(r) \/ TokenList!RevokeFailed(r)
           \/ TokenList!RevokeShown(r)
    PROVE  TokenList!FlagsAreReal'
<1> USE TokensKinds, TokensTypes, TokensDomain, TokensLeaves
    DEF TokensHooks, TokenList!Set, TokenList!Has, TokenList!Free, TokenList!FlagsAreReal,
        TokenList!InFlight, TokenList!After
<1>0. req[r] # None => /\ "shown" \in DOMAIN req[r] => req[r].kind \in {"list", "create"}
                       /\ "shown" \in DOMAIN req[r] /\ req[r].kind = "list" =>
                            req[r].after = "create"
  BY TokensDetached DEF TokensTyped, Typed, TokenList!Request
<1>1. CASE TokenList!load(r)
  <2>1. /\ ~ui'.loading /\ ui'.revoking = ui.revoking /\ ui'.submitting = ui.submitting
        /\ ui'.showModal = ui.showModal /\ TokenList!Return(r)
        /\ req[r] # None /\ req[r].kind = "list" /\ req[r].after = "nothing"
    BY <1>1 DEF TokenList!load
  <2> QED BY <1>0, <2>1
<1>2. CASE TokenList!handleCreate(r)
  <2>1. /\ ui'.revoking = ui.revoking /\ ui'.submitting = ui.submitting
        /\ ui'.showModal = ui.showModal /\ req[r] # None /\ req[r].kind = "create"
        /\ TokenList!Await(r, [kind |-> "list", after |-> "create", shown |-> req[r].shown])
    BY <1>2 DEF TokenList!handleCreate
  <2>2. req'[r].kind = "list" /\ "shown" \in DOMAIN req'[r] /\ req'[r].shown = req[r].shown
    BY <2>1
  <2>3. [kind |-> "list", after |-> "create", shown |-> req[r].shown] # None
    <3>1. PICK b \in BOOLEAN : b = req[r].shown
      BY <2>1
    <3>2. [kind |-> "list", after |-> "create", shown |-> b] \in TokenList!Request
      BY DEF TokenList!Request
    <3>3. [kind |-> "list", after |-> "create", shown |-> b] # None
      BY <3>2, TokensKinds
    <3> QED BY <3>1, <3>3
  <2>4. req'[r] # None /\ \A s \in Slots \ {r} : req'[s] = req[s]
    BY <2>1, <2>3
  <2> QED BY <2>1, <2>2, <2>4
<1>3. CASE TokenList!CreateFailed(r)
  <2>1. /\ ui'.revoking = ui.revoking /\ ui'.loading = ui.loading /\ ui'.showModal = ui.showModal
        /\ ui'.submitting => ui.submitting /\ ~req[r].shown
        /\ req[r] # None /\ req[r].kind = "create" /\ TokenList!Return(r)
    BY <1>3 DEF TokenList!CreateFailed
  <2> QED BY <2>1
<1>4. CASE TokenList!CreateShown(r)
  <2>1. /\ ui'.revoking = ui.revoking /\ ~ui'.loading /\ ~ui'.submitting
        /\ req[r].kind = "list" /\ req[r].after = "create"
        /\ req' = TokenList!Detached([req EXCEPT ![r] = None])
    BY <1>4 DEF TokenList!CreateShown
  <2>2. \A s \in Slots \ {r} : req[s] # None =>
          /\ req'[s] # None /\ req'[s].kind = req[s].kind
          /\ req[s].kind = "list" /\ req[s].after = "revoke" => req'[s] = req[s]
    BY <2>1, TokensShown
  <2>3. ASSUME ui'.revoking # None
        PROVE  \E s \in Slots : req'[s] # None /\
                 (req'[s].kind = "revoke" \/ (req'[s].kind = "list" /\ req'[s].after = "revoke"))
    <3>1. PICK s \in Slots : req[s] # None /\
                 (req[s].kind = "revoke" \/ (req[s].kind = "list" /\ req[s].after = "revoke"))
      BY <2>1, <2>3
    <3>2. s # r
      BY <2>1, <3>1
    <3>3. req'[s] # None /\ req'[s].kind = req[s].kind
      BY <2>2, <3>1, <3>2
    <3>4. req[s].kind = "list" => req'[s] = req[s]
      BY <2>2, <3>1, <3>2
    <3> QED BY <3>1, <3>3, <3>4
  <2> QED BY <2>1, <2>3
<1>5. CASE TokenList!Revoked(r)
  <2>1. /\ ui'.revoking = ui.revoking /\ ui'.submitting = ui.submitting
        /\ ui'.showModal = ui.showModal /\ req[r] # None /\ req[r].kind = "revoke"
        /\ TokenList!Await(r, [kind |-> "list", after |-> "revoke"])
    BY <1>5 DEF TokenList!Revoked
  <2> QED BY <1>0, <2>1
<1>6. CASE TokenList!RevokeFailed(r)
  <2>1. /\ ui'.loading = ui.loading /\ ui'.submitting = ui.submitting /\ ui'.revoking = None
        /\ ui'.showModal = ui.showModal /\ req[r] # None /\ req[r].kind = "revoke"
        /\ TokenList!Return(r)
    BY <1>6 DEF TokenList!RevokeFailed
  <2> QED BY <1>0, <2>1
<1>7. CASE TokenList!RevokeShown(r)
  <2>1. /\ ~ui'.loading /\ ui'.revoking = None /\ ui'.submitting = ui.submitting
        /\ ui'.showModal = ui.showModal /\ TokenList!Return(r)
        /\ req[r] # None /\ req[r].kind = "list" /\ req[r].after = "revoke"
    BY <1>7 DEF TokenList!RevokeShown
  <2> QED BY <1>0, <2>1
<1> QED BY <1>1, <1>2, <1>3, <1>4, <1>5, <1>6, <1>7

LEMMA TokensFlagStep ==
    TokensTyped /\ TokenList!FlagsAreReal /\ TokenList!Next =>
        TokensTyped' /\ TokenList!FlagsAreReal'
BY TokensUserTypes, TokensAnswerTypes, TokensUserFlags, TokensAnswerFlags DEF TokenList!Next

LEMMA TokensFlagInit == TokenList!Init => TokensTyped /\ TokenList!FlagsAreReal
<1> SUFFICES ASSUME TokenList!Init PROVE TokensTyped /\ TokenList!FlagsAreReal
  OBVIOUS
<1>1. TokensTyped
  BY TokensKinds DEF TokenList!Init, TokenList!Mounted, TokensTyped, Typed, TokenList!UiType,
     TokenList!Maybe
<1>2. TokenList!FlagsAreReal
  BY TokensKinds DEF TokenList!Init, TokenList!Mounted, TokenList!FlagsAreReal,
     TokenList!InFlight, TokenList!Free
<1> QED BY <1>1, <1>2

LEMMA TokensFlagStay ==
    TokensTyped /\ TokenList!FlagsAreReal /\ UNCHANGED <<ui, req>> =>
        TokensTyped' /\ TokenList!FlagsAreReal'
BY DEF TokensTyped, Typed, TokenList!FlagsAreReal, TokenList!InFlight, TokenList!After,
   TokenList!Has, TokenList!Free

-----------------------------------------------------------------------------
(* The report templates.                                                   *)
TemplatesTyped == Typed(ReportForms!UiType, Slots, ReportForms!Request)

LEMMA TemplatesKinds ==
    /\ \A op \in ReportForms!Writes \cup {None} : [kind |-> "list",
                                                   op |-> op] \in ReportForms!Request
    /\ \A op \in ReportForms!Writes : \A form \in ReportForms!Form :
         [kind |-> "write", op |-> op, form |-> form] \in ReportForms!Request
    /\ <<"create", None>> \in ReportForms!Writes
    /\ \A t \in Items : <<"update", t>> \in ReportForms!Writes
         /\ <<"replace", t>> \in ReportForms!Writes
    /\ None \notin ReportForms!Request
BY PagesAssumption DEF NoneIsNoRequest, ReportForms!Request, ReportForms!Writes

LEMMA TemplatesTypes ==
    ASSUME TemplatesTyped, NEW r \in Slots, req[r] # None
    PROVE  /\ req[r].op \in ReportForms!Writes \cup {None}
           /\ req[r].kind = "write" => req[r].op \in ReportForms!Writes
BY DEF TemplatesTyped, Typed, ReportForms!Request

LEMMA TemplatesDomain == TemplatesTyped => DOMAIN ui = TemplateHooks /\ DOMAIN req = Slots
BY DEF TemplatesTyped, Typed, ReportForms!UiType, TemplateHooks

LEMMA TemplatesPuts ==
    ASSUME TemplatesTyped
    PROVE  /\ UNCHANGED req => req' \in [Slots -> ReportForms!Request \cup {None}]
           /\ \A r \in Slots : ReportForms!Return(r) =>
                req' \in [Slots -> ReportForms!Request \cup {None}]
           /\ \A c \in ReportForms!Request : \A r \in Slots :
                ReportForms!Await(r, c) => req' \in [Slots -> ReportForms!Request \cup {None}]
           /\ \A c \in ReportForms!Request :
                ReportForms!Call(c) => req' \in [Slots -> ReportForms!Request \cup {None}]
BY DEF TemplatesTyped, Typed, ReportForms!Return, ReportForms!Await, ReportForms!Call

LEMMA TemplatesLeaves ==
    ASSUME TemplatesTyped
    PROVE  /\ \A c : ReportForms!Call(c) =>
                /\ \A s \in Slots : req[s] # None => req'[s] = req[s]
                /\ \E s \in Slots : req'[s] = c
           /\ \A r \in Slots : ReportForms!Return(r) =>
                \A s \in Slots \ {r} : req'[s] = req[s]
           /\ \A r \in Slots : \A c : ReportForms!Await(r, c) =>
                /\ req'[r] = c
                /\ \A s \in Slots \ {r} : req'[s] = req[s]
BY DEF TemplatesTyped, Typed, ReportForms!Call, ReportForms!Return, ReportForms!Await,
   ReportForms!Free

LEMMA TemplatesEditing ==
    ASSUME TemplatesTyped, NEW items \in SUBSET Items, NEW selected
    PROVE  ReportForms!Editing(items, selected) \in ReportForms!Form
BY DEF TemplatesTyped, Typed, ReportForms!UiType, ReportForms!Editing, ReportForms!Form,
   ReportForms!Maybe

LEMMA TemplatesUserTypes ==
    ASSUME TemplatesTyped,
           \/ ReportForms!Refresh \/ ReportForms!Type \/ ReportForms!ChooseFile
           \/ \E t \in Items : ReportForms!Select(t)
           \/ ReportForms!handleCreate \/ ReportForms!handleUpdate
           \/ ReportForms!handleReplaceFile
    PROVE  TemplatesTyped'
<1> USE TemplatesKinds, TemplatesPuts
    DEF TemplatesTyped, Typed, ReportForms!Set, ReportForms!UiType, ReportForms!Maybe
<1>1. CASE ReportForms!Refresh
  BY <1>1 DEF ReportForms!Refresh
<1>2. CASE ReportForms!Type
  <2>1. [ui.form EXCEPT !.typed = TRUE] \in ReportForms!Form
    BY DEF ReportForms!Form
  <2> QED BY <1>2, <2>1 DEF ReportForms!Type
<1>3. CASE ReportForms!ChooseFile
  BY <1>3 DEF ReportForms!ChooseFile
<1>4. ASSUME NEW t \in Items, ReportForms!Select(t) PROVE TemplatesTyped'
  <2>1. ReportForms!Editing(ui.items, t) \in ReportForms!Form
    BY TemplatesEditing
  <2> QED BY <1>4, <2>1 DEF ReportForms!Select
<1>5. ASSUME NEW op \in ReportForms!Writes, ReportForms!Write(op) PROVE TemplatesTyped'
  BY <1>5 DEF ReportForms!Write
<1>6. CASE ReportForms!handleCreate
  BY <1>5, <1>6 DEF ReportForms!handleCreate
<1>7. CASE ReportForms!handleUpdate \/ ReportForms!handleReplaceFile
  <2>1. ReportForms!selectedTemplate \in Items
    BY <1>7 DEF ReportForms!handleUpdate, ReportForms!handleReplaceFile,
       ReportForms!DetailIsOffered, ReportForms!selectedTemplate
  <2> QED BY <1>5, <1>7, <2>1 DEF ReportForms!handleUpdate, ReportForms!handleReplaceFile
<1> QED BY <1>1, <1>2, <1>3, <1>4, <1>6, <1>7

LEMMA TemplatesAnswerTypes ==
    ASSUME TemplatesTyped, NEW r \in Slots,
           \/ ReportForms!loadTemplates(r) \/ ReportForms!LoadFailed(r)
           \/ ReportForms!Written(r) \/ ReportForms!WriteFailed(r)
    PROVE  TemplatesTyped'
<1> USE TemplatesKinds, TemplatesTypes, TemplatesPuts
    DEF TemplatesTyped, Typed, ReportForms!Set, ReportForms!UiType, ReportForms!Maybe,
        ReportForms!Has, ReportForms!Free
<1>1. CASE ReportForms!loadTemplates(r)
  <2>1. PICK items \in SUBSET Items : \E first \in IF items = {} THEN {None} ELSE items :
          LET selected == IF ui.selected = None THEN first ELSE ui.selected
          IN ReportForms!Set([items |-> items, loading |-> FALSE, selected |-> selected,
                              form |-> ReportForms!Editing(items, selected),
                              saving |-> IF req[r].op = None THEN ui.saving ELSE None])
    BY <1>1 DEF ReportForms!loadTemplates
  <2>2. PICK first \in Items \cup {None} :
          LET selected == IF ui.selected = None THEN first ELSE ui.selected
          IN ReportForms!Set([items |-> items, loading |-> FALSE, selected |-> selected,
                              form |-> ReportForms!Editing(items, selected),
                              saving |-> IF req[r].op = None THEN ui.saving ELSE None])
    BY <2>1
  <2>3. PICK selected \in Items \cup {None} :
          selected = IF ui.selected = None THEN first ELSE ui.selected
    OBVIOUS
  <2>4. ReportForms!Editing(items, selected) \in ReportForms!Form
    BY TemplatesEditing
  <2>5. ui' \in ReportForms!UiType
    BY <2>2, <2>3, <2>4
  <2> QED BY <1>1, <2>5 DEF ReportForms!loadTemplates
<1>2. CASE ReportForms!LoadFailed(r)
  BY <1>2 DEF ReportForms!LoadFailed
<1>3. CASE ReportForms!Written(r)
  BY <1>3 DEF ReportForms!Written
<1>4. CASE ReportForms!WriteFailed(r)
  BY <1>4 DEF ReportForms!WriteFailed
<1> QED BY <1>1, <1>2, <1>3, <1>4

LEMMA TemplatesFlags ==
    ASSUME TemplatesTyped, ReportForms!FlagsAreReal, ReportForms!Next
    PROVE  ReportForms!FlagsAreReal'
<1> USE TemplatesKinds, TemplatesTypes, TemplatesDomain, TemplatesLeaves
    DEF TemplateHooks, ReportForms!Set, ReportForms!Has, ReportForms!Free,
        ReportForms!FlagsAreReal, ReportForms!InFlight
<1>1. CASE ReportForms!Refresh
  <2>1. ui'.saving = ui.saving /\ ReportForms!Call([kind |-> "list", op |-> None])
    BY <1>1 DEF ReportForms!Refresh
  <2> QED BY <2>1
<1>2. CASE ReportForms!Type \/ ReportForms!ChooseFile \/ \E t \in Items : ReportForms!Select(t)
  <2>1. ui'.loading = ui.loading /\ ui'.saving = ui.saving /\ req' = req
    <3>1. CASE ReportForms!Type
      BY <3>1 DEF ReportForms!Type
    <3>2. CASE ReportForms!ChooseFile
      BY <3>2 DEF ReportForms!ChooseFile
    <3>3. CASE \E t \in Items : ReportForms!Select(t)
      BY <3>3 DEF ReportForms!Select
    <3> QED BY <1>2, <3>1, <3>2, <3>3
  <2> QED BY <2>1
<1>3. ASSUME NEW op \in ReportForms!Writes, ReportForms!Write(op)
      PROVE  ReportForms!FlagsAreReal'
  <2>1. ui'.loading = ui.loading /\ ui'.saving = op
    BY <1>3 DEF ReportForms!Write
  <2>2. PICK form \in ReportForms!Form :
          ReportForms!Call([kind |-> "write", op |-> op, form |-> form])
    BY <1>3 DEF ReportForms!Write, TemplatesTyped, Typed, ReportForms!UiType
  <2> QED BY <2>1, <2>2
<1>4. CASE ReportForms!handleCreate
  BY <1>3, <1>4 DEF ReportForms!handleCreate
<1>5. CASE ReportForms!handleUpdate \/ ReportForms!handleReplaceFile
  <2>1. ReportForms!selectedTemplate \in Items
    BY <1>5 DEF ReportForms!handleUpdate, ReportForms!handleReplaceFile,
       ReportForms!DetailIsOffered, ReportForms!selectedTemplate, TemplatesTyped, Typed,
       ReportForms!UiType
  <2> QED BY <1>3, <1>5, <2>1 DEF ReportForms!handleUpdate, ReportForms!handleReplaceFile
<1>6. ASSUME NEW r \in Slots, ReportForms!loadTemplates(r) \/ ReportForms!LoadFailed(r)
      PROVE  ReportForms!FlagsAreReal'
  <2>1. ReportForms!Return(r)
    BY <1>6 DEF ReportForms!loadTemplates, ReportForms!LoadFailed
  <2>2. ~ui'.loading /\ (ui'.saving # None => ui'.saving = ui.saving /\ req[r].op = None)
    <3>1. CASE ReportForms!loadTemplates(r)
      BY <3>1 DEF ReportForms!loadTemplates
    <3>2. CASE ReportForms!LoadFailed(r)
      BY <3>2 DEF ReportForms!LoadFailed
    <3> QED BY <1>6, <3>1, <3>2
  <2> QED BY <2>1, <2>2
<1>7. ASSUME NEW r \in Slots, ReportForms!Written(r) PROVE ReportForms!FlagsAreReal'
  <2>1. ui'.saving = ui.saving /\ ReportForms!Await(r, [kind |-> "list", op |-> req[r].op])
    BY <1>7 DEF ReportForms!Written
  <2> QED BY <1>7, <2>1 DEF ReportForms!Written
<1>8. ASSUME NEW r \in Slots, ReportForms!WriteFailed(r) PROVE ReportForms!FlagsAreReal'
  BY <1>8 DEF ReportForms!WriteFailed
<1> HIDE TemplatesKinds, TemplatesTypes, TemplatesDomain, TemplatesLeaves
    DEF TemplateHooks, ReportForms!Set, ReportForms!Has, ReportForms!Free,
        ReportForms!FlagsAreReal, ReportForms!InFlight
<1> QED BY <1>1, <1>2, <1>4, <1>5, <1>6, <1>7, <1>8 DEF ReportForms!Next

LEMMA TemplatesFlagStep ==
    TemplatesTyped /\ ReportForms!FlagsAreReal /\ ReportForms!Next =>
        TemplatesTyped' /\ ReportForms!FlagsAreReal'
BY TemplatesUserTypes, TemplatesAnswerTypes, TemplatesFlags DEF ReportForms!Next

LEMMA TemplatesFlagInit == ReportForms!Init => TemplatesTyped /\ ReportForms!FlagsAreReal
<1> SUFFICES ASSUME ReportForms!Init PROVE TemplatesTyped /\ ReportForms!FlagsAreReal
  OBVIOUS
<1>1. TemplatesTyped
  BY TemplatesKinds DEF ReportForms!Init, ReportForms!Mounted, TemplatesTyped, Typed,
     ReportForms!UiType, ReportForms!Maybe, ReportForms!Form
<1>2. ReportForms!FlagsAreReal
  BY TemplatesKinds DEF ReportForms!Init, ReportForms!Mounted, ReportForms!FlagsAreReal,
     ReportForms!InFlight, ReportForms!Free
<1> QED BY <1>1, <1>2

LEMMA TemplatesFlagStay ==
    TemplatesTyped /\ ReportForms!FlagsAreReal /\ UNCHANGED <<ui, req>> =>
        TemplatesTyped' /\ ReportForms!FlagsAreReal'
BY DEF TemplatesTyped, Typed, ReportForms!FlagsAreReal, ReportForms!InFlight, ReportForms!Free

-----------------------------------------------------------------------------
(* The task templates.                                                     *)
TaskFormsTyped == Typed(TaskForms!UiType, Slots, TaskForms!Request)

LEMMA TaskFormsKinds ==
    /\ \A s \in TaskForms!Shown \cup {None} : [kind |-> "page", saved |-> s] \in TaskForms!Request
    /\ \A t \in Items \cup {None} : \A form \in TaskForms!Form : \A a, b \in BOOLEAN :
         [kind |-> "save", of |-> t, form |-> form, rules |-> a, setsStatus |-> b]
            \in TaskForms!Request
    /\ \A t \in Items : \A s \in Items \cup {None} : \A to \in TaskForms!Statuses :
         [kind |-> "toggle", of |-> t, selected |-> s, to |-> to] \in TaskForms!Request
    /\ None \notin TaskForms!Request /\ None \notin TaskForms!Shown
BY PagesAssumption DEF NoneIsNoRequest, TaskForms!Request, TaskForms!Maybe

LEMMA TaskFormsTypes ==
    ASSUME TaskFormsTyped, NEW r \in Slots, req[r] # None
    PROVE  /\ req[r].kind = "page" => req[r].saved \in TaskForms!Shown \cup {None}
           /\ req[r].kind = "save" =>
                /\ req[r].of \in Items \cup {None} /\ req[r].form \in TaskForms!Form
                /\ req[r].setsStatus \in BOOLEAN
                /\ [req[r] EXCEPT !.setsStatus = FALSE] \in TaskForms!Request
                /\ [req[r] EXCEPT !.setsStatus = FALSE].kind = "save"
           /\ req[r].kind = "toggle" => req[r].of \in Items /\ req[r].to \in TaskForms!Statuses
BY DEF TaskFormsTyped, Typed, TaskForms!Request, TaskForms!Maybe

LEMMA TaskFormsDomain == TaskFormsTyped => DOMAIN ui = TaskFormHooks /\ DOMAIN req = Slots
BY DEF TaskFormsTyped, Typed, TaskForms!UiType, TaskFormHooks

LEMMA TaskFormsPuts ==
    ASSUME TaskFormsTyped
    PROVE  /\ UNCHANGED req => req' \in [Slots -> TaskForms!Request \cup {None}]
           /\ \A r \in Slots : TaskForms!Return(r) =>
                req' \in [Slots -> TaskForms!Request \cup {None}]
           /\ \A c \in TaskForms!Request : \A r \in Slots :
                TaskForms!Await(r, c) => req' \in [Slots -> TaskForms!Request \cup {None}]
           /\ \A c \in TaskForms!Request :
                TaskForms!Call(c) => req' \in [Slots -> TaskForms!Request \cup {None}]
BY DEF TaskFormsTyped, Typed, TaskForms!Return, TaskForms!Await, TaskForms!Call

LEMMA TaskFormsLeaves ==
    ASSUME TaskFormsTyped
    PROVE  /\ \A c : TaskForms!Call(c) =>
                /\ \A s \in Slots : req[s] # None => req'[s] = req[s]
                /\ \E s \in Slots : req'[s] = c
           /\ \A r \in Slots : TaskForms!Return(r) =>
                \A s \in Slots \ {r} : req'[s] = req[s]
           /\ \A r \in Slots : \A c : TaskForms!Await(r, c) =>
                /\ req'[r] = c
                /\ \A s \in Slots \ {r} : req'[s] = req[s]
BY DEF TaskFormsTyped, Typed, TaskForms!Call, TaskForms!Return, TaskForms!Await, TaskForms!Free

LEMMA TaskFormsMade ==
    /\ TaskForms!defaultFormState \in TaskForms!Form
    /\ \A t \in Items : \A status \in TaskForms!Statuses : \A sender \in BOOLEAN :
         /\ TaskForms!fromTaskTemplate(t, status, sender) \in TaskForms!Form
         /\ TaskForms!Opened(t, status, sender) \in TaskForms!Shown
<1>1. TaskForms!defaultFormState \in TaskForms!Form
  BY DEF TaskForms!defaultFormState, TaskForms!Form, TaskForms!Maybe, TaskForms!Types,
     TaskForms!Statuses
<1>2. ASSUME NEW t \in Items, NEW status \in TaskForms!Statuses, NEW sender \in BOOLEAN
      PROVE  TaskForms!fromTaskTemplate(t, status, sender) \in TaskForms!Form
  BY DEF TaskForms!fromTaskTemplate, TaskForms!Form, TaskForms!Maybe, TaskForms!Types,
     TaskForms!Type
<1> QED BY <1>1, <1>2 DEF TaskForms!Opened, TaskForms!Shown

LEMMA TaskFormsTableTypes ==
    ASSUME TaskFormsTyped,
           \/ TaskForms!Refresh \/ TaskForms!openCreatePanel \/ TaskForms!handleSave
           \/ \E t \in Items : TaskForms!openEditPanel(t) \/ TaskForms!handleToggleStatus(t)
    PROVE  TaskFormsTyped'
<1> USE TaskFormsKinds, TaskFormsPuts
    DEF TaskFormsTyped, Typed, TaskForms!Set, TaskForms!UiType, TaskForms!Maybe
<1>1. CASE TaskForms!Refresh
  BY <1>1 DEF TaskForms!Refresh
<1>2. CASE TaskForms!openCreatePanel
  BY <1>2, TaskFormsMade DEF TaskForms!openCreatePanel
<1>3. CASE TaskForms!handleSave
  <2>1. CASE ui.panelMode = "edit" /\ ui.items[ui.selected] = None
    BY <1>3, <2>1 DEF TaskForms!handleSave
  <2>2. CASE ~(ui.panelMode = "edit" /\ ui.items[ui.selected] = None)
    <3>0. TaskForms!Set([saving |-> TRUE])
      BY <1>3, <2>2 DEF TaskForms!handleSave
    <3>1. ui' \in TaskForms!UiType
      BY <3>0
    <3>2. PICK a \in BOOLEAN, b \in BOOLEAN :
            TaskForms!Call([kind |-> "save", of |-> ui.selected, form |-> ui.form,
                            rules |-> a, setsStatus |-> b])
      BY <1>3, <2>2 DEF TaskForms!handleSave, TaskForms!buildRecipientConfig
    <3> QED BY <3>1, <3>2
  <2> QED BY <2>1, <2>2
<1>4. ASSUME NEW t \in Items, TaskForms!openEditPanel(t) PROVE TaskFormsTyped'
  <2>1. ui.items[t] \in TaskForms!Statuses
    BY <1>4 DEF TaskForms!openEditPanel, TaskForms!RowIsOffered
  <2>2. PICK sender \in BOOLEAN : TaskForms!Set(TaskForms!Opened(t, ui.items[t], sender))
    BY <1>4 DEF TaskForms!openEditPanel
  <2>3. ui' \in TaskForms!UiType
    BY <2>1, <2>2, TaskFormsMade DEF TaskForms!Opened
  <2> QED BY <1>4, <2>3 DEF TaskForms!openEditPanel
<1>5. ASSUME NEW t \in Items, TaskForms!handleToggleStatus(t) PROVE TaskFormsTyped'
  BY <1>5 DEF TaskForms!handleToggleStatus, TaskForms!Statuses
<1> QED BY <1>1, <1>2, <1>3, <1>4, <1>5

LEMMA TaskFormsFormTypes ==
    ASSUME TaskFormsTyped,
           \/ \E type \in TaskForms!Types : TaskForms!ChooseType(type)
           \/ \E status \in TaskForms!Statuses : TaskForms!ChooseStatus(status)
           \/ \E b \in BOOLEAN : TaskForms!ChooseSender(b) \/ TaskForms!ChooseRules(b)
    PROVE  TaskFormsTyped' /\ ui'.loading = ui.loading /\ ui'.saving = ui.saving
           /\ ui'.action = ui.action /\ req' = req
<1>1. PICK form \in TaskForms!Form : TaskForms!SetForm(form)
  BY DEF TaskFormsTyped, Typed, TaskForms!UiType, TaskForms!Form, TaskForms!ChooseType,
     TaskForms!ChooseStatus, TaskForms!ChooseSender, TaskForms!ChooseRules
<1> QED BY <1>1 DEF TaskFormsTyped, Typed, TaskForms!Set, TaskForms!UiType, TaskForms!SetForm

LEMMA TaskFormsAnswerTypes ==
    ASSUME TaskFormsTyped, NEW r \in Slots,
           \/ TaskForms!loadPage(r) \/ TaskForms!Saved(r) \/ TaskForms!SaveFailed(r)
           \/ TaskForms!SaveShown(r) \/ TaskForms!Toggled(r) \/ TaskForms!ToggleFailed(r)
    PROVE  TaskFormsTyped'
<1> USE TaskFormsKinds, TaskFormsTypes, TaskFormsPuts
    DEF TaskFormsTyped, Typed, TaskForms!Set, TaskForms!UiType, TaskForms!Maybe,
        TaskForms!Has, TaskForms!Free
<1>0. TaskForms!Contents = [Items -> TaskForms!Statuses \cup {None}]
  BY DEF TaskForms!Contents
<1>1. CASE TaskForms!loadPage(r)
  <2>1. PICK items \in [Items -> TaskForms!Statuses \cup {None}] :
          TaskForms!Set([items |-> items, loading |-> FALSE])
    BY <1>0, <1>1 DEF TaskForms!loadPage
  <2>2. ui' \in TaskForms!UiType
    BY <2>1
  <2> QED BY <1>1, <2>2 DEF TaskForms!loadPage
<1>2. CASE TaskForms!Saved(r)
  <2>1. CASE UNCHANGED ui /\ TaskForms!Await(r, [req[r] EXCEPT !.setsStatus = FALSE])
    BY <1>2, <2>1 DEF TaskForms!Saved
  <2>2. ASSUME NEW t \in Items, TaskForms!Set([loading |-> TRUE]),
               TaskForms!Await(r, [kind |-> "page", saved |->
                 TaskForms!Opened(t, req[r].form.status, req[r].form.sender)])
        PROVE  TaskFormsTyped'
    <3>1. req[r].form.status \in TaskForms!Statuses /\ req[r].form.sender \in BOOLEAN
      BY <1>2 DEF TaskForms!Saved, TaskForms!Form
    <3>2. ui' \in TaskForms!UiType
      BY <2>2
    <3> QED BY <2>2, <3>1, <3>2, TaskFormsMade
  <2> QED BY <1>2, <2>1, <2>2 DEF TaskForms!Saved
<1>3. CASE TaskForms!SaveFailed(r)
  BY <1>3 DEF TaskForms!SaveFailed
<1>4. CASE TaskForms!SaveShown(r)
  <2>1. req[r].saved.selected \in Items /\ req[r].saved.form \in TaskForms!Form
    BY <1>4 DEF TaskForms!SaveShown, TaskForms!Shown
  <2> HIDE DEF TaskForms!Set, TaskForms!UiType
  <2>2. PICK items \in [Items -> TaskForms!Statuses \cup {None}] :
          TaskForms!Set([items |-> items, loading |-> FALSE, saving |-> FALSE,
                         panelMode |-> "edit", selected |-> req[r].saved.selected,
                         form |-> req[r].saved.form])
    BY <1>0, <1>4 DEF TaskForms!SaveShown
  <2> USE DEF TaskForms!Set, TaskForms!UiType
  <2>3. ui' \in TaskForms!UiType
    BY <2>1, <2>2
  <2>4. TaskForms!Return(r)
    BY <1>4 DEF TaskForms!SaveShown
  <2> QED BY <2>3, <2>4
<1>5. CASE TaskForms!Toggled(r)
  <2>1. req[r].of \in Items /\ req[r].to \in TaskForms!Statuses
    BY <1>5 DEF TaskForms!Toggled
  <2>2. [ui.items EXCEPT ![req[r].of] = req[r].to] \in [Items -> TaskForms!Statuses \cup {None}]
    BY <2>1
  <2>3. [ui.form EXCEPT !.status = req[r].to] \in TaskForms!Form
    BY <2>1 DEF TaskForms!Form
  <2>4. ui' \in TaskForms!UiType
    BY <1>5, <2>2, <2>3 DEF TaskForms!Toggled
  <2> QED BY <1>5, <2>4 DEF TaskForms!Toggled
<1>6. CASE TaskForms!ToggleFailed(r)
  BY <1>6 DEF TaskForms!ToggleFailed
<1> QED BY <1>1, <1>2, <1>3, <1>4, <1>5, <1>6

LEMMA TaskFormsTableFlags ==
    ASSUME TaskFormsTyped, TaskForms!FlagsAreReal,
           \/ TaskForms!Refresh \/ TaskForms!openCreatePanel \/ TaskForms!handleSave
           \/ \E t \in Items : TaskForms!openEditPanel(t) \/ TaskForms!handleToggleStatus(t)
    PROVE  TaskForms!FlagsAreReal'
<1> USE TaskFormsKinds, TaskFormsDomain, TaskFormsLeaves
    DEF TaskFormHooks, TaskForms!Set, TaskForms!Has, TaskForms!Free, TaskForms!FlagsAreReal,
        TaskForms!InFlight
<1>1. CASE TaskForms!Refresh
  <2>1. /\ ui'.saving = ui.saving /\ ui'.action = ui.action
        /\ TaskForms!Call([kind |-> "page", saved |-> None])
    BY <1>1 DEF TaskForms!Refresh
  <2> QED BY <2>1
<1>2. CASE TaskForms!openCreatePanel
  BY <1>2 DEF TaskForms!openCreatePanel
<1>3. CASE TaskForms!handleSave
  <2>1. CASE ui.panelMode = "edit" /\ ui.items[ui.selected] = None
    BY <1>3, <2>1 DEF TaskForms!handleSave
  <2>2. CASE ~(ui.panelMode = "edit" /\ ui.items[ui.selected] = None)
    <3>1. ui'.loading = ui.loading /\ ui'.action = ui.action
      BY <1>3, <2>2 DEF TaskForms!handleSave
    <3>2. PICK form \in TaskForms!Form, t \in Items \cup {None}, a \in BOOLEAN, b \in BOOLEAN :
            TaskForms!Call([kind |-> "save", of |-> t, form |-> form,
                            rules |-> a, setsStatus |-> b])
      BY <1>3, <2>2 DEF TaskForms!handleSave, TaskForms!buildRecipientConfig,
         TaskFormsTyped, Typed, TaskForms!UiType, TaskForms!Maybe
    <3> QED BY <3>1, <3>2
  <2> QED BY <2>1, <2>2
<1>4. ASSUME NEW t \in Items, TaskForms!openEditPanel(t) PROVE TaskForms!FlagsAreReal'
  <2>1. /\ ui'.loading = ui.loading /\ ui'.saving = ui.saving /\ ui'.action = ui.action
        /\ req' = req
    BY <1>4 DEF TaskForms!openEditPanel, TaskForms!Opened
  <2> QED BY <2>1
<1>5. ASSUME NEW t \in Items, TaskForms!handleToggleStatus(t) PROVE TaskForms!FlagsAreReal'
  <2>1. ui'.loading = ui.loading /\ ui'.saving = ui.saving
    BY <1>5 DEF TaskForms!handleToggleStatus
  <2>2. PICK s \in Items \cup {None}, to \in TaskForms!Statuses :
          TaskForms!Call([kind |-> "toggle", of |-> t, selected |-> s, to |-> to])
    BY <1>5 DEF TaskForms!handleToggleStatus, TaskFormsTyped, Typed, TaskForms!UiType,
       TaskForms!Maybe, TaskForms!Statuses
  <2> QED BY <2>1, <2>2
<1> QED BY <1>1, <1>2, <1>3, <1>4, <1>5

LEMMA TaskFormsAnswerFlags ==
    ASSUME TaskFormsTyped, TaskForms!FlagsAreReal, NEW r \in Slots,
           \/ TaskForms!loadPage(r) \/ TaskForms!Saved(r) \/ TaskForms!SaveFailed(r)
           \/ TaskForms!SaveShown(r) \/ TaskForms!Toggled(r) \/ TaskForms!ToggleFailed(r)
    PROVE  TaskForms!FlagsAreReal'
<1> USE TaskFormsKinds, TaskFormsTypes, TaskFormsDomain, TaskFormsLeaves
    DEF TaskFormHooks, TaskForms!Set, TaskForms!Has, TaskForms!Free, TaskForms!FlagsAreReal,
        TaskForms!InFlight
<1>1. CASE TaskForms!loadPage(r)
  <2>1. /\ ~ui'.loading /\ ui'.saving = ui.saving /\ ui'.action = ui.action
        /\ TaskForms!Return(r) /\ req[r].kind = "page" /\ req[r].saved = None
    BY <1>1 DEF TaskForms!loadPage
  <2> QED BY <2>1
<1>2. CASE TaskForms!Saved(r)
  <2>0. req[r] # None /\ req[r].kind = "save"
    BY <1>2 DEF TaskForms!Saved
  <2>1. CASE UNCHANGED ui /\ TaskForms!Await(r, [req[r] EXCEPT !.setsStatus = FALSE])
    <3>1. PICK c \in TaskForms!Request : c.kind = "save" /\ TaskForms!Await(r, c)
      BY <2>0, <2>1
    <3> QED BY <2>0, <2>1, <3>1
  <2>2. ASSUME NEW t \in Items, TaskForms!Set([loading |-> TRUE]),
               TaskForms!Await(r, [kind |-> "page", saved |->
                 TaskForms!Opened(t, req[r].form.status, req[r].form.sender)])
        PROVE  TaskForms!FlagsAreReal'
    <3>1. req[r].form.status \in TaskForms!Statuses /\ req[r].form.sender \in BOOLEAN
      BY <2>0 DEF TaskForms!Form
    <3>2. PICK s \in TaskForms!Shown :
            s = TaskForms!Opened(t, req[r].form.status, req[r].form.sender)
      BY <3>1, TaskFormsMade
    <3>3. TaskForms!Await(r, [kind |-> "page", saved |-> s])
      BY <2>2, <3>2
    <3>4. ui'.saving = ui.saving /\ ui'.action = ui.action
      BY <2>2
    <3> QED BY <2>0, <3>3, <3>4
  <2> QED BY <1>2, <2>1, <2>2 DEF TaskForms!Saved
<1>3. CASE TaskForms!SaveFailed(r)
  BY <1>3 DEF TaskForms!SaveFailed
<1>4. CASE TaskForms!SaveShown(r)
  <2>1. /\ ~ui'.loading /\ ~ui'.saving /\ ui'.action = ui.action
        /\ TaskForms!Return(r) /\ req[r].kind = "page"
    BY <1>4 DEF TaskForms!SaveShown
  <2> QED BY <2>1
<1>5. CASE TaskForms!Toggled(r)
  <2>1. /\ ui'.loading = ui.loading /\ ui'.saving = ui.saving /\ ui'.action = None
        /\ TaskForms!Return(r) /\ req[r].kind = "toggle"
    BY <1>5 DEF TaskForms!Toggled
  <2> QED BY <2>1
<1>6. CASE TaskForms!ToggleFailed(r)
  BY <1>6 DEF TaskForms!ToggleFailed
<1> QED BY <1>1, <1>2, <1>3, <1>4, <1>5, <1>6

LEMMA TaskFormsFlagStep ==
    TaskFormsTyped /\ TaskForms!FlagsAreReal /\ TaskForms!Next =>
        TaskFormsTyped' /\ TaskForms!FlagsAreReal'
<1> SUFFICES ASSUME TaskFormsTyped, TaskForms!FlagsAreReal, TaskForms!Next
             PROVE  TaskFormsTyped' /\ TaskForms!FlagsAreReal'
  OBVIOUS
<1>1. ASSUME \/ \E type \in TaskForms!Types : TaskForms!ChooseType(type)
             \/ \E status \in TaskForms!Statuses : TaskForms!ChooseStatus(status)
             \/ \E b \in BOOLEAN : TaskForms!ChooseSender(b) \/ TaskForms!ChooseRules(b)
      PROVE  TaskFormsTyped' /\ TaskForms!FlagsAreReal'
  BY <1>1, TaskFormsFormTypes
     DEF TaskForms!FlagsAreReal, TaskForms!InFlight, TaskForms!Has, TaskForms!Free
<1> QED BY <1>1, TaskFormsTableTypes, TaskFormsAnswerTypes, TaskFormsTableFlags,
           TaskFormsAnswerFlags DEF TaskForms!Next

LEMMA TaskFormsFlagInit == TaskForms!Init => TaskFormsTyped /\ TaskForms!FlagsAreReal
<1> SUFFICES ASSUME TaskForms!Init PROVE TaskFormsTyped /\ TaskForms!FlagsAreReal
  OBVIOUS
<1>1. TaskFormsTyped
  BY TaskFormsKinds, TaskFormsMade DEF TaskForms!Init, TaskForms!Mounted, TaskFormsTyped, Typed,
     TaskForms!UiType, TaskForms!Maybe
<1>2. TaskForms!FlagsAreReal
  BY TaskFormsKinds DEF TaskForms!Init, TaskForms!Mounted, TaskForms!FlagsAreReal,
     TaskForms!InFlight, TaskForms!Free
<1> QED BY <1>1, <1>2

LEMMA TaskFormsFlagStay ==
    TaskFormsTyped /\ TaskForms!FlagsAreReal /\ UNCHANGED <<ui, req>> =>
        TaskFormsTyped' /\ TaskForms!FlagsAreReal'
BY DEF TaskFormsTyped, Typed, TaskForms!FlagsAreReal, TaskForms!InFlight, TaskForms!Has,
   TaskForms!Free

-----------------------------------------------------------------------------
(* The pages of saved connections.  The alert sources do all that the mail *)
(* senders do, word for word, and query besides.                           *)
PanelTyped == Typed(Senders!UiType, Slots, Senders!Request)

PanelFlags == Senders!FlagsAreReal /\ Sources!QueryFlagIsReal

LEMMA PanelKinds ==
    /\ \A a \in {"nothing", "test"} : [kind |-> "page", after |-> a] \in Senders!Request
    /\ \A c \in Special : \A v \in Senders!Saves :
         [kind |-> "page", after |-> "save", form |-> [of |-> c, value |-> v]] \in Senders!Request
    /\ \A c \in Special \cup {None} : \A form \in Senders!Forms :
         [kind |-> "save", of |-> c, form |-> form] \in Senders!Request
    /\ \A c \in Special : \A s \in Special \cup {None} : \A v \in Senders!Saves :
         [kind |-> "toggle", of |-> c, selected |-> s, to |-> v] \in Senders!Request
    /\ \A c \in Special : /\ [kind |-> "test", of |-> c] \in Senders!Request
                          /\ [kind |-> "query", of |-> c] \in Senders!Request
    /\ None \notin Senders!Request
BY PagesAssumption DEF NoneIsNoRequest, Senders!Request, Senders!Maybe

LEMMA PanelTypes ==
    ASSUME PanelTyped, NEW r \in Slots, req[r] # None
    PROVE  /\ req[r].kind = "page" =>
                /\ req[r].after \in {"nothing", "test", "save"}
                /\ req[r].after = "save" => req[r].form \in [of : Special, value : Senders!Saves]
           /\ req[r].kind = "save" =>
                req[r].of \in Special \cup {None} /\ req[r].form \in Senders!Forms
           /\ req[r].kind = "toggle" => req[r].of \in Special /\ req[r].to \in Senders!Saves
           /\ req[r].kind \in {"test", "query"} => req[r].of \in Special
BY DEF PanelTyped, Typed, Senders!Request, Senders!Maybe

LEMMA PanelDomain == PanelTyped => DOMAIN ui = PanelHooks /\ DOMAIN req = Slots
BY DEF PanelTyped, Typed, Senders!UiType, PanelHooks

LEMMA PanelPuts ==
    ASSUME PanelTyped
    PROVE  /\ UNCHANGED req => req' \in [Slots -> Senders!Request \cup {None}]
           /\ \A r \in Slots : Senders!Return(r) =>
                req' \in [Slots -> Senders!Request \cup {None}]
           /\ \A c \in Senders!Request : \A r \in Slots :
                Senders!Await(r, c) => req' \in [Slots -> Senders!Request \cup {None}]
           /\ \A c \in Senders!Request :
                Senders!Call(c) => req' \in [Slots -> Senders!Request \cup {None}]
BY DEF PanelTyped, Typed, Senders!Return, Senders!Await, Senders!Call

LEMMA PanelLeaves ==
    ASSUME PanelTyped
    PROVE  /\ \A c : Senders!Call(c) =>
                /\ \A s \in Slots : req[s] # None => req'[s] = req[s]
                /\ \E s \in Slots : req'[s] = c
           /\ \A r \in Slots : Senders!Return(r) =>
                \A s \in Slots \ {r} : req'[s] = req[s]
           /\ \A r \in Slots : \A c : Senders!Await(r, c) =>
                /\ req'[r] = c
                /\ \A s \in Slots \ {r} : req'[s] = req[s]
BY DEF PanelTyped, Typed, Senders!Call, Senders!Return, Senders!Await, Senders!Free

LEMMA PanelForms ==
    /\ Senders!defaultForm \in Senders!Forms
    /\ \A v \in Senders!Saves :
         /\ v[1] \in Settings /\ v[2] \in Senders!Statuses
         /\ \A x \in Senders!Statuses : [v EXCEPT ![2] = x] \in Senders!Saves
    /\ \A s \in Settings : \A x \in Senders!Statuses : <<s, x>> \in Senders!Saves
    /\ Senders!Contents = [Special -> Senders!Saves \cup {None}]
<1>1. Senders!defaultForm \in Senders!Forms
  <2>1. (CHOOSE s \in Settings : TRUE) \in Settings
    BY PagesAssumption
  <2> QED BY <2>1 DEF Senders!defaultForm, Senders!Forms, Senders!Maybe, Senders!Saves,
             Senders!Statuses
<1>2. ASSUME NEW v \in Senders!Saves
      PROVE  /\ v[1] \in Settings /\ v[2] \in Senders!Statuses
             /\ \A x \in Senders!Statuses : [v EXCEPT ![2] = x] \in Senders!Saves
  <2>1. PICK s \in Settings, y \in Senders!Statuses : v = <<s, y>>
    BY DEF Senders!Saves
  <2>2. \A x : [<<s, y>> EXCEPT ![2] = x] = <<s, x>>
    OBVIOUS
  <2> QED BY <2>1, <2>2 DEF Senders!Saves
<1> QED BY <1>1, <1>2 DEF Senders!Saves, Senders!Contents

LEMMA QueryAsSender ==
    Sources!handleRunQuery =>
        Senders!Set([querying |-> TRUE]) /\ Senders!Call([kind |-> "query", of |-> ui.selected])
BY DEF Sources!handleRunQuery, Sources!Set, Senders!Set, Sources!Call, Senders!Call,
   Sources!Free, Senders!Free

LEMMA PanelUserTypes ==
    ASSUME PanelTyped, PanelInv,
           \/ Senders!Refresh \/ Senders!openCreatePanel \/ Senders!handleSave
           \/ Senders!handleTest
           \/ \E c \in Special : Senders!openEditPanel(c) \/ Senders!handleToggleStatus(c)
           \/ \E value \in Senders!Saves : Senders!Edit(value)
           \/ Sources!handleRunQuery
    PROVE  PanelTyped'
<1> USE PanelKinds, PanelPuts
    DEF PanelTyped, Typed, Senders!Set, Senders!UiType, Senders!Maybe
<1>1. CASE Senders!Refresh
  BY <1>1 DEF Senders!Refresh
<1>2. CASE Senders!openCreatePanel
  <2>1. ui' \in Senders!UiType
    BY <1>2, PanelForms DEF Senders!openCreatePanel, Senders!Panel, Senders!Forms
  <2> QED BY <1>2, <2>1 DEF Senders!openCreatePanel
<1>3. CASE Senders!handleSave
  BY <1>3 DEF Senders!handleSave
<1>4. CASE Senders!handleTest
  <2>1. ui.selected \in Special
    BY <1>4 DEF Senders!handleTest, Senders!TestIsOffered, PanelInv
  <2> QED BY <1>4, <2>1 DEF Senders!handleTest
<1>5. ASSUME NEW c \in Special, Senders!openEditPanel(c) PROVE PanelTyped'
  <2>1. [of |-> c, value |-> ui.items[c]] \in Senders!Forms
    BY <1>5, PanelForms DEF Senders!openEditPanel, Senders!RowIsOffered, Senders!Forms
  <2>2. ui' \in Senders!UiType
    BY <1>5, <2>1 DEF Senders!openEditPanel, Senders!Panel
  <2> QED BY <1>5, <2>2 DEF Senders!openEditPanel
<1>6. ASSUME NEW c \in Special, Senders!handleToggleStatus(c) PROVE PanelTyped'
  <2>1. ui.items[c] \in Senders!Saves
    BY <1>6, PanelForms DEF Senders!handleToggleStatus, Senders!RowIsOffered
  <2>2. PICK v \in Senders!Saves :
          Senders!Call([kind |-> "toggle", of |-> c, selected |-> ui.selected, to |-> v])
    BY <1>6, <2>1, PanelForms DEF Senders!handleToggleStatus, Senders!Statuses
  <2>3. ui' \in Senders!UiType
    BY <1>6 DEF Senders!handleToggleStatus
  <2> QED BY <2>2, <2>3
<1>7. ASSUME NEW value \in Senders!Saves, Senders!Edit(value) PROVE PanelTyped'
  BY <1>7 DEF Senders!Edit, Senders!Forms
<1>8. CASE Sources!handleRunQuery
  <2>1. ui.selected \in Special
    BY <1>8 DEF Sources!handleRunQuery, Sources!QueryIsOffered
  <2>2. Senders!Set([querying |-> TRUE]) /\ Senders!Call([kind |-> "query", of |-> ui.selected])
    BY <1>8, QueryAsSender
  <2>3. ui' \in Senders!UiType
    BY <2>2
  <2> QED BY <2>1, <2>2, <2>3
<1> QED BY <1>1, <1>2, <1>3, <1>4, <1>5, <1>6, <1>7, <1>8

LEMMA PanelAnswerTypes ==
    ASSUME PanelTyped, NEW r \in Slots,
           \/ Senders!loadPage(r) \/ Senders!Saved(r) \/ Senders!SaveFailed(r)
           \/ Senders!SaveShown(r) \/ Senders!Toggled(r) \/ Senders!ToggleFailed(r)
           \/ Senders!Tested(r) \/ Senders!TestFailed(r) \/ Senders!TestShown(r)
           \/ Sources!Queried(r) \/ Sources!QueryFailed(r)
    PROVE  PanelTyped'
<1> USE PanelKinds, PanelTypes, PanelPuts
    DEF PanelTyped, Typed, Senders!Set, Senders!UiType, Senders!Maybe, Senders!Has, Senders!Free
<1>0. Senders!Contents \cup {ui.items} = [Special -> Senders!Saves \cup {None}]
  BY PanelForms
<1>1. CASE Senders!loadPage(r)
  <2>1. PICK items \in [Special -> Senders!Saves \cup {None}] :
          Senders!Set([items |-> items, loading |-> FALSE])
    BY <1>0, <1>1 DEF Senders!loadPage
  <2>2. ui' \in Senders!UiType
    BY <2>1, PanelForms
  <2> QED BY <1>1, <2>2 DEF Senders!loadPage
<1>2. CASE Senders!Saved(r)
  <2>0. Senders!Set([loading |-> TRUE])
    BY <1>2 DEF Senders!Saved
  <2>1. req[r].form.value \in Senders!Saves
    BY <1>2 DEF Senders!Saved, Senders!Forms
  <2>2. PICK c \in Special :
          Senders!Await(r, [kind |-> "page", after |-> "save",
                            form |-> [of |-> c, value |-> req[r].form.value]])
    BY <1>2 DEF Senders!Saved
  <2>3. ui' \in Senders!UiType
    BY <2>0
  <2> QED BY <2>1, <2>2, <2>3
<1>3. CASE Senders!SaveFailed(r)
  BY <1>3 DEF Senders!SaveFailed
<1>4. CASE Senders!SaveShown(r)
  <2>1. req[r].form \in [of : Special, value : Senders!Saves]
    BY <1>4 DEF Senders!SaveShown
  <2>2. req[r].form.of \in Special /\ req[r].form \in Senders!Forms
    BY <2>1 DEF Senders!Forms
  <2> HIDE DEF Senders!Set, Senders!UiType
  <2>3. PICK items \in [Special -> Senders!Saves \cup {None}] :
          Senders!Set([items |-> items, loading |-> FALSE, saving |-> FALSE, panelMode |-> "edit",
              selected |-> req[r].form.of, form |-> req[r].form, test |-> None, found |-> None])
    BY <1>0, <1>4 DEF Senders!SaveShown
  <2> USE DEF Senders!Set, Senders!UiType
  <2>4. ui' \in Senders!UiType
    BY <2>2, <2>3, PanelForms
  <2>5. Senders!Return(r)
    BY <1>4 DEF Senders!SaveShown
  <2> QED BY <2>4, <2>5
<1>5. CASE Senders!Toggled(r)
  <2>0. req[r].of \in Special /\ req[r].to \in Senders!Saves
    BY <1>5 DEF Senders!Toggled
  <2>1. PICK s \in Settings :
          LET c == req[r].of
              to == <<s, req[r].to[2]>>
          IN Senders!Set([action |-> None,
                          items |-> IF ui.items[c] = None THEN ui.items
                                    ELSE [ui.items EXCEPT ![c] = to],
                          form |-> IF req[r].selected # c THEN ui.form
                                   ELSE [ui.form EXCEPT !.value[2] = to[2]]])
    BY <1>5 DEF Senders!Toggled
  <2>2. PICK x \in Senders!Statuses : x = req[r].to[2]
    BY <2>0, PanelForms
  <2>3. <<s, x>> \in Senders!Saves /\ <<s, x>>[2] = x
    BY PanelForms
  <2>4. PICK items \in [Special -> Senders!Saves \cup {None}] :
          items = IF ui.items[req[r].of] = None THEN ui.items
                  ELSE [ui.items EXCEPT ![req[r].of] = <<s, x>>]
    BY <2>0, <2>3, PanelForms
  <2>5. PICK form \in Senders!Forms :
          form = IF req[r].selected # req[r].of THEN ui.form
                 ELSE [ui.form EXCEPT !.value[2] = x]
    <3>1. ui.form.value \in Senders!Saves
      BY DEF Senders!Forms
    <3>2. [ui.form.value EXCEPT ![2] = x] \in Senders!Saves
      BY <3>1, PanelForms
    <3>3. [ui.form EXCEPT !.value[2] = x] = [ui.form EXCEPT !.value = [ui.form.value EXCEPT ![2] = x]]
      BY DEF Senders!Forms
    <3>4. [ui.form EXCEPT !.value[2] = x] \in Senders!Forms
      BY <3>2, <3>3 DEF Senders!Forms
    <3> QED BY <3>4
  <2>6. Senders!Set([action |-> None, items |-> items, form |-> form])
    BY <2>1, <2>2, <2>3, <2>4, <2>5
  <2>7. ui' \in Senders!UiType
    BY <2>6, PanelForms
  <2>8. Senders!Return(r)
    BY <1>5 DEF Senders!Toggled
  <2> QED BY <2>7, <2>8
<1>6. CASE Senders!ToggleFailed(r)
  BY <1>6 DEF Senders!ToggleFailed
<1>7. CASE Senders!Tested(r)
  BY <1>7 DEF Senders!Tested
<1>8. CASE Senders!TestFailed(r)
  BY <1>8 DEF Senders!TestFailed
<1>9. CASE Senders!TestShown(r)
  <2>1. PICK items \in [Special -> Senders!Saves \cup {None}] :
          Senders!Set([items |-> items, loading |-> FALSE, testing |-> FALSE])
    BY <1>0, <1>9 DEF Senders!TestShown
  <2>2. ui' \in Senders!UiType
    BY <2>1, PanelForms
  <2> QED BY <1>9, <2>2 DEF Senders!TestShown
<1>10. CASE Sources!Queried(r)
  <2>1. ui' \in Senders!UiType
    BY <1>10 DEF Sources!Queried, Sources!Set, Sources!Has, Sources!Free
  <2> QED BY <1>10, <2>1 DEF Sources!Queried, Sources!Return, Senders!Return
<1>11. CASE Sources!QueryFailed(r)
  <2>1. ui' \in Senders!UiType
    BY <1>11 DEF Sources!QueryFailed, Sources!Set
  <2> QED BY <1>11, <2>1 DEF Sources!QueryFailed, Sources!Return, Senders!Return
<1> QED BY <1>1, <1>2, <1>3, <1>4, <1>5, <1>6, <1>7, <1>8, <1>9, <1>10,
           <1>11

LEMMA PanelToggled ==
    ASSUME PanelTyped, NEW r \in Slots, Senders!Toggled(r)
    PROVE  /\ ui'.loading = ui.loading /\ ui'.saving = ui.saving /\ ui'.testing = ui.testing
           /\ ui'.querying = ui.querying /\ ui'.action = None /\ Senders!Return(r)
           /\ Senders!Has(r, "toggle")
<1>1. \E items, form : Senders!Set([action |-> None, items |-> items, form |-> form])
  BY DEF Senders!Toggled
<1>2. /\ ui'.loading = ui.loading /\ ui'.saving = ui.saving /\ ui'.testing = ui.testing
      /\ ui'.querying = ui.querying /\ ui'.action = None
  BY <1>1, PanelDomain DEF PanelHooks, Senders!Set
<1> QED BY <1>2 DEF Senders!Toggled

LEMMA PanelUserFlags ==
    ASSUME PanelTyped, PanelInv, PanelFlags,
           \/ Senders!Refresh \/ Senders!openCreatePanel \/ Senders!handleSave
           \/ Senders!handleTest
           \/ \E c \in Special : Senders!openEditPanel(c) \/ Senders!handleToggleStatus(c)
           \/ \E value \in Senders!Saves : Senders!Edit(value)
           \/ Sources!handleRunQuery
    PROVE  PanelFlags'
<1> USE PanelKinds, PanelDomain, PanelLeaves
    DEF PanelHooks, Senders!Set, Senders!Has, Senders!Free, PanelFlags, Senders!FlagsAreReal,
        Sources!QueryFlagIsReal, Senders!InFlight, Sources!InFlight, Sources!Free, Senders!After
<1>1. CASE Senders!Refresh
  <2>1. /\ ui'.saving = ui.saving /\ ui'.testing = ui.testing /\ ui'.querying = ui.querying
        /\ ui'.action = ui.action /\ Senders!Call([kind |-> "page", after |-> "nothing"])
    BY <1>1 DEF Senders!Refresh
  <2> QED BY <2>1
<1>2. CASE Senders!openCreatePanel \/ \E c \in Special : Senders!openEditPanel(c)
  <2>1. /\ ui'.loading = ui.loading /\ ui'.saving = ui.saving /\ ui'.testing = ui.testing
        /\ ui'.querying = ui.querying /\ ui'.action = ui.action /\ req' = req
    <3>1. CASE Senders!openCreatePanel
      BY <3>1 DEF Senders!openCreatePanel, Senders!Panel
    <3>2. ASSUME NEW c \in Special, Senders!openEditPanel(c)
          PROVE  /\ ui'.loading = ui.loading /\ ui'.saving = ui.saving
                 /\ ui'.testing = ui.testing /\ ui'.querying = ui.querying
                 /\ ui'.action = ui.action /\ req' = req
      BY <3>2 DEF Senders!openEditPanel, Senders!Panel
    <3> QED BY <1>2, <3>1, <3>2
  <2> QED BY <2>1
<1>3. CASE Senders!handleSave
  <2>1. /\ ui'.loading = ui.loading /\ ui'.testing = ui.testing /\ ui'.querying = ui.querying
        /\ ui'.action = ui.action
        /\ Senders!Call([kind |-> "save", of |-> ui.selected, form |-> ui.form])
    BY <1>3 DEF Senders!handleSave
  <2>2. [kind |-> "save", of |-> ui.selected, form |-> ui.form] # None
    BY DEF PanelTyped, Typed, Senders!UiType, Senders!Maybe
  <2> QED BY <2>1, <2>2
<1>4. CASE Senders!handleTest
  <2>1. /\ ui'.loading = ui.loading /\ ui'.saving = ui.saving /\ ui'.querying = ui.querying
        /\ ui'.action = ui.action /\ Senders!Call([kind |-> "test", of |-> ui.selected])
    BY <1>4 DEF Senders!handleTest
  <2>2. ui.selected \in Special
    BY <1>4 DEF Senders!handleTest, Senders!TestIsOffered, PanelInv, PanelTyped, Typed,
       Senders!UiType, Senders!Maybe
  <2>3. [kind |-> "test", of |-> ui.selected] # None
    BY <2>2
  <2> QED BY <2>1, <2>3
<1>5. ASSUME NEW c \in Special, Senders!handleToggleStatus(c) PROVE PanelFlags'
  <2>1. /\ ui'.loading = ui.loading /\ ui'.saving = ui.saving /\ ui'.testing = ui.testing
        /\ ui'.querying = ui.querying
    BY <1>5 DEF Senders!handleToggleStatus
  <2>2. ui.items[c] # None
    BY <1>5 DEF Senders!handleToggleStatus, Senders!RowIsOffered
  <2>5. ui.items[c] \in Senders!Saves /\ ui.selected \in Special \cup {None}
    BY <2>2, PanelForms DEF PanelTyped, Typed, Senders!UiType, Senders!Maybe
  <2>3. PICK v \in Senders!Saves :
          Senders!Call([kind |-> "toggle", of |-> c, selected |-> ui.selected, to |-> v])
    BY <1>5, <2>5, PanelForms DEF Senders!handleToggleStatus, Senders!Statuses
  <2>4. [kind |-> "toggle", of |-> c, selected |-> ui.selected, to |-> v] # None
    BY <2>5
  <2> QED BY <2>1, <2>3, <2>4
<1>6. ASSUME NEW value \in Senders!Saves, Senders!Edit(value) PROVE PanelFlags'
  BY <1>6 DEF Senders!Edit
<1>7. CASE Sources!handleRunQuery
  <2>1. /\ ui'.loading = ui.loading /\ ui'.saving = ui.saving /\ ui'.testing = ui.testing
        /\ ui'.action = ui.action /\ Senders!Call([kind |-> "query", of |-> ui.selected])
    BY <1>7 DEF Sources!handleRunQuery, Sources!Set, Sources!Call, Senders!Call
  <2>2. ui.selected \in Special
    BY <1>7 DEF Sources!handleRunQuery, Sources!QueryIsOffered, PanelTyped, Typed,
       Senders!UiType, Senders!Maybe
  <2>3. [kind |-> "query", of |-> ui.selected] # None
    BY <2>2
  <2> QED BY <2>1, <2>3
<1> QED BY <1>1, <1>2, <1>3, <1>4, <1>5, <1>6, <1>7

LEMMA PanelAnswerFlags ==
    ASSUME PanelTyped, PanelFlags, NEW r \in Slots,
           \/ Senders!loadPage(r) \/ Senders!Saved(r) \/ Senders!SaveFailed(r)
           \/ Senders!SaveShown(r) \/ Senders!Toggled(r) \/ Senders!ToggleFailed(r)
           \/ Senders!Tested(r) \/ Senders!TestFailed(r) \/ Senders!TestShown(r)
           \/ Sources!Queried(r) \/ Sources!QueryFailed(r)
    PROVE  PanelFlags'
<1> USE PanelKinds, PanelTypes, PanelDomain, PanelLeaves
    DEF PanelHooks, Senders!Set, Senders!Has, Senders!Free, PanelFlags, Senders!FlagsAreReal,
        Sources!QueryFlagIsReal, Senders!InFlight, Sources!InFlight, Sources!Free, Senders!After
<1>1. CASE Senders!loadPage(r)
  <2>1. /\ ~ui'.loading /\ ui'.saving = ui.saving /\ ui'.testing = ui.testing
        /\ ui'.querying = ui.querying /\ ui'.action = ui.action /\ Senders!Return(r)
    BY <1>1 DEF Senders!loadPage
  <2> QED BY <1>1, <2>1 DEF Senders!loadPage
<1>2. CASE Senders!Saved(r)
  <2>1. /\ ui'.saving = ui.saving /\ ui'.testing = ui.testing
        /\ ui'.querying = ui.querying /\ ui'.action = ui.action
    BY <1>2 DEF Senders!Saved
  <2>2. PICK c \in Special :
          Senders!Await(r, [kind |-> "page", after |-> "save",
                            form |-> [of |-> c, value |-> req[r].form.value]])
    BY <1>2 DEF Senders!Saved
  <2>3. [kind |-> "page", after |-> "save",
         form |-> [of |-> c, value |-> req[r].form.value]] # None
    BY <1>2 DEF Senders!Saved, Senders!Forms
  <2> QED BY <1>2, <2>1, <2>2, <2>3 DEF Senders!Saved
<1>3. CASE Senders!SaveFailed(r)
  <2>1. /\ ui'.loading = ui.loading /\ ~ui'.saving /\ ui'.testing = ui.testing
        /\ ui'.querying = ui.querying /\ ui'.action = ui.action /\ Senders!Return(r)
    BY <1>3 DEF Senders!SaveFailed
  <2> QED BY <1>3, <2>1 DEF Senders!SaveFailed
<1>4. CASE Senders!SaveShown(r)
  <2>1. /\ ~ui'.loading /\ ~ui'.saving /\ ui'.testing = ui.testing
        /\ ui'.querying = ui.querying /\ ui'.action = ui.action /\ Senders!Return(r)
    BY <1>4 DEF Senders!SaveShown
  <2> QED BY <1>4, <2>1 DEF Senders!SaveShown
<1>5. CASE Senders!Toggled(r) \/ Senders!ToggleFailed(r)
  <2>1. /\ ui'.loading = ui.loading /\ ui'.saving = ui.saving /\ ui'.testing = ui.testing
        /\ ui'.querying = ui.querying /\ ui'.action = None /\ Senders!Return(r)
        /\ Senders!Has(r, "toggle")
    <3>1. CASE Senders!Toggled(r)
      BY <3>1, PanelToggled
    <3>2. CASE Senders!ToggleFailed(r)
      BY <3>2 DEF Senders!ToggleFailed
    <3> QED BY <1>5, <3>1, <3>2
  <2> QED BY <2>1
<1>6. CASE Senders!Tested(r)
  <2>1. /\ ui'.saving = ui.saving /\ ui'.testing = ui.testing
        /\ ui'.querying = ui.querying /\ ui'.action = ui.action
        /\ Senders!Await(r, [kind |-> "page", after |-> "test"])
    BY <1>6 DEF Senders!Tested
  <2> QED BY <1>6, <2>1 DEF Senders!Tested
<1>7. CASE Senders!TestFailed(r)
  <2>1. /\ ui'.loading = ui.loading /\ ui'.saving = ui.saving /\ ~ui'.testing
        /\ ui'.querying = ui.querying /\ ui'.action = ui.action /\ Senders!Return(r)
    BY <1>7 DEF Senders!TestFailed
  <2> QED BY <1>7, <2>1 DEF Senders!TestFailed
<1>8. CASE Senders!TestShown(r)
  <2>1. /\ ~ui'.loading /\ ui'.saving = ui.saving /\ ~ui'.testing
        /\ ui'.querying = ui.querying /\ ui'.action = ui.action /\ Senders!Return(r)
    BY <1>8 DEF Senders!TestShown
  <2> QED BY <1>8, <2>1 DEF Senders!TestShown
<1>9. CASE Sources!Queried(r) \/ Sources!QueryFailed(r)
  <2>1. /\ ui'.loading = ui.loading /\ ui'.saving = ui.saving /\ ui'.testing = ui.testing
        /\ ~ui'.querying /\ ui'.action = ui.action /\ Senders!Return(r)
        /\ Senders!Has(r, "query")
    BY <1>9 DEF Sources!Queried, Sources!QueryFailed, Sources!Set, Sources!Return, Senders!Return,
       Sources!Has
  <2> QED BY <2>1
<1> QED BY <1>1, <1>2, <1>3, <1>4, <1>5, <1>6, <1>7, <1>8, <1>9

LEMMA SendersFlagStep ==
    PanelInv /\ PanelTyped /\ PanelFlags /\ Senders!Next => PanelTyped' /\ PanelFlags'
BY PanelUserTypes, PanelAnswerTypes, PanelUserFlags, PanelAnswerFlags DEF Senders!Next

LEMMA SourcesFlagStep ==
    PanelInv /\ PanelTyped /\ PanelFlags /\ Sources!SourcesNext => PanelTyped' /\ PanelFlags'
BY SendersFlagStep, SourcesDoAsSenders, PanelUserTypes, PanelAnswerTypes, PanelUserFlags,
   PanelAnswerFlags DEF Sources!SourcesNext

LEMMA SendersFlagInit == Senders!Init => PanelTyped /\ PanelFlags
<1> SUFFICES ASSUME Senders!Init PROVE PanelTyped /\ PanelFlags
  OBVIOUS
<1>1. PanelTyped
  BY PanelKinds, PanelForms DEF Senders!Init, Senders!InitialUi, Senders!Mounted,
     PanelTyped, Typed,
     Senders!UiType, Senders!Maybe
<1>2. PanelFlags
  BY PanelKinds DEF Senders!Init, Senders!InitialUi, Senders!Mounted, PanelFlags,
     Senders!FlagsAreReal, Sources!QueryFlagIsReal, Senders!InFlight, Senders!Free
<1> QED BY <1>1, <1>2

LEMMA PanelFlagStay ==
    PanelTyped /\ PanelFlags /\ UNCHANGED <<ui, req>> => PanelTyped' /\ PanelFlags'
BY DEF PanelTyped, Typed, PanelFlags, Senders!FlagsAreReal, Sources!QueryFlagIsReal,
   Senders!InFlight, Sources!InFlight, Senders!After, Senders!Has, Senders!Free, Sources!Free

-----------------------------------------------------------------------------
(* The ticket list.                                                        *)
ListTyped == Typed(TicketList!UiType, ListSlots, TicketList!Request)

LEMMA ListKinds ==
    /\ \A k \in {"list", "pools"} : [kind |-> k] \in TicketList!Request
    /\ [kind |-> "list"] \in TicketList!Request /\ [kind |-> "pools"] \in TicketList!Request
    /\ \A f \in TicketList!Filters : [kind |-> "more", filter |-> f] \in TicketList!Request
    /\ \A t \in Plain : [kind |-> "live", of |-> t] \in TicketList!Request
    /\ None \notin TicketList!Request
BY PagesAssumption DEF NoneIsNoRequest, TicketList!Request

LEMMA ListTypes ==
    ASSUME ListTyped, NEW r \in ListSlots, req[r] # None
    PROVE  /\ req[r].kind = "more" => req[r].filter \in TicketList!Filters
           /\ req[r].kind = "live" => req[r].of \in Plain
BY DEF ListTyped, Typed, TicketList!Request

LEMMA ListDomain == ListTyped => DOMAIN ui = ListHooks /\ DOMAIN req = ListSlots
BY DEF ListTyped, Typed, TicketList!UiType, ListHooks

LEMMA ListPuts ==
    ASSUME ListTyped
    PROVE  /\ UNCHANGED req => req' \in [ListSlots -> TicketList!Request \cup {None}]
           /\ \A r \in ListSlots : TicketList!Return(r) =>
                req' \in [ListSlots -> TicketList!Request \cup {None}]
           /\ \A c \in TicketList!Request : \A r \in ListSlots :
                TicketList!Await(r, c) => req' \in [ListSlots -> TicketList!Request \cup {None}]
           /\ \A c \in TicketList!Request :
                TicketList!Call(c) => req' \in [ListSlots -> TicketList!Request \cup {None}]
BY DEF ListTyped, Typed, TicketList!Return, TicketList!Await, TicketList!Call, ListSlots

LEMMA ListLeaves ==
    ASSUME ListTyped
    PROVE  /\ \A c : TicketList!Call(c) =>
                /\ \A s \in ListSlots : req[s] # None => req'[s] = req[s]
                /\ \E s \in ListSlots : req'[s] = c
           /\ \A r \in ListSlots : TicketList!Return(r) =>
                \A s \in ListSlots \ {r} : req'[s] = req[s]
           /\ \A r \in ListSlots : \A c : TicketList!Await(r, c) =>
                /\ req'[r] = c
                /\ \A s \in ListSlots \ {r} : req'[s] = req[s]
BY DEF ListTyped, Typed, TicketList!Call, TicketList!Return, TicketList!Await,
   TicketList!Free, ListSlots

LEMMA ListRowTypes ==
    /\ TicketList!Rows = [Plain -> TicketList!Claims \cup {None}]
    /\ \A f \in TicketList!Filters : f \subseteq TicketList!Claims
    /\ TicketList!NoRows \in TicketList!Rows
BY DEF TicketList!Rows, TicketList!Filters, TicketList!Claims, TicketList!NoRows

LEMMA ListLeft ==
    ASSUME ListTyped, NEW kinds
    PROVE  /\ TicketList!Without(kinds) \in [ListSlots -> TicketList!Request \cup {None}]
           /\ \A s \in ListSlots :
                req[s] # None /\ req[s].kind \notin kinds => TicketList!Without(kinds)[s] = req[s]
BY DEF ListTyped, Typed, TicketList!Without, TicketList!Free, ListSlots

LEMMA ListFilterTypes ==
    ASSUME ListTyped, TicketList!FlagsAreReal, NEW f \in TicketList!Filters,
           TicketList!ChangeFilter(f)
    PROVE  ListTyped' /\ TicketList!FlagsAreReal'
<1>1. /\ ui' \in TicketList!UiType /\ ~ui'.loadingMore /\ ui'.poolsLoading = ui.poolsLoading
  BY DEF ListTyped, Typed, TicketList!ChangeFilter, TicketList!Set, TicketList!UiType
<1>2. PICK left \in [ListSlots -> TicketList!Request \cup {None}] :
        left = TicketList!Without({"list", "more", "live"})
  BY ListLeft
<1>3. PICK r \in ListSlots, l \in ListSlots :
        /\ l # r /\ left[r] = None
        /\ ui.last # None => left[l] = None
        /\ req' = [s \in ListSlots |->
                     IF s = r THEN [kind |-> "list"]
                     ELSE IF s = l /\ ui.last # None THEN [kind |-> "live", of |-> ui.last]
                     ELSE left[s]]
  BY <1>2 DEF TicketList!ChangeFilter, ListSlots
<1>4. ui.last \in Plain \cup {None}
  BY DEF ListTyped, Typed, TicketList!UiType
<1>5. ListTyped'
  BY <1>1, <1>3, <1>4, ListKinds DEF ListTyped, Typed
<1>6. req'[r] = [kind |-> "list"] /\ req'[r] # None
  BY <1>3, ListKinds
<1>7. \A s \in ListSlots : req[s] # None /\ req[s].kind = "pools" => req'[s] = req[s]
  <2>1. SUFFICES ASSUME NEW s \in ListSlots, req[s] # None, req[s].kind = "pools"
                 PROVE  req'[s] = req[s]
    OBVIOUS
  <2>2. left[s] = req[s]
    BY <1>2, <2>1, ListLeft
  <2> QED BY <1>3, <2>1, <2>2
<1> QED BY <1>1, <1>5, <1>6, <1>7 DEF TicketList!FlagsAreReal, TicketList!InFlight,
       TicketList!Free, ListSlots

LEMMA ListEventTypes ==
    ASSUME ListTyped, TicketList!FlagsAreReal, NEW t \in Plain, TicketList!EventArrives(t)
    PROVE  ListTyped' /\ TicketList!FlagsAreReal'
<1>1. /\ ui' \in TicketList!UiType /\ ui'.loading = ui.loading
      /\ ui'.loadingMore = ui.loadingMore
  BY DEF ListTyped, Typed, TicketList!EventArrives, TicketList!Set, TicketList!UiType
<1>2. PICK left \in [ListSlots -> TicketList!Request \cup {None}] :
        left = TicketList!Without({"live"})
  BY ListLeft
<1>3. PICK l \in ListSlots, p \in ListSlots :
        /\ l # p /\ left[l] = None /\ left[p] = None
        /\ req' = [left EXCEPT ![l] = [kind |-> "live", of |-> t], ![p] = [kind |-> "pools"]]
  BY <1>2 DEF TicketList!EventArrives, ListSlots
<1>4. ListTyped'
  BY <1>1, <1>3, ListKinds DEF ListTyped, Typed
<1>5. req'[p] = [kind |-> "pools"] /\ req'[p] # None
  BY <1>3, ListKinds
<1>6. \A s \in ListSlots : req[s] # None /\ req[s].kind # "live" => req'[s] = req[s]
  <2>1. SUFFICES ASSUME NEW s \in ListSlots, req[s] # None, req[s].kind # "live"
                 PROVE  req'[s] = req[s]
    OBVIOUS
  <2>2. left[s] = req[s]
    BY <1>2, <2>1, ListLeft
  <2> QED BY <1>3, <2>1, <2>2
<1> QED BY <1>1, <1>4, <1>5, <1>6 DEF TicketList!FlagsAreReal, TicketList!InFlight,
       TicketList!Free, ListSlots

LEMMA ListShows ==
    ASSUME ListTyped, NEW t \in Plain, NEW claim \in TicketList!Claims \cup {None},
           TicketList!Replace(t, claim)
    PROVE  /\ ui' \in TicketList!UiType /\ ui'.loading = ui.loading
           /\ ui'.loadingMore = ui.loadingMore /\ ui'.poolsLoading = ui.poolsLoading
<1> DEFINE items == IF TicketList!Listed(t) THEN [ui.items EXCEPT ![t] = claim] ELSE ui.items
           selected == IF ui.selected = None THEN None
                       ELSE IF ui.selected[1] # t THEN ui.selected
                       ELSE IF claim = None THEN None ELSE <<t, claim>>
<1>1. items \in TicketList!Rows
  BY ListRowTypes DEF ListTyped, Typed, TicketList!UiType
<1>2. selected \in (Plain \X TicketList!Claims) \cup {None}
  BY DEF ListTyped, Typed, TicketList!UiType
<1>3. TicketList!Set([items |-> items, selected |-> selected])
  BY DEF TicketList!Replace
<1> HIDE DEF items, selected
<1>4. ui' \in TicketList!UiType
  BY <1>1, <1>2, <1>3 DEF TicketList!Set, ListTyped, Typed, TicketList!UiType
<1> QED BY <1>3, <1>4, ListDomain DEF TicketList!Set, ListHooks

LEMMA ListLoadTypes ==
    ASSUME ListTyped, NEW r \in ListSlots,
           TicketList!ListAnswered(r) \/ TicketList!ListFailed(r)
    PROVE  /\ ui' \in TicketList!UiType /\ ~ui'.loading
           /\ ui'.loadingMore = ui.loadingMore /\ ui'.poolsLoading = ui.poolsLoading
           /\ TicketList!Has(r, "list") /\ TicketList!Return(r)
<1>1. CASE TicketList!ListAnswered(r)
  <2>1. PICK rows \in [Plain -> TicketList!listQuery \cup {None}], more \in BOOLEAN :
          LET t == ui.selected[1]
          IN TicketList!Set([items |-> rows, hasMore |-> more, loading |-> FALSE,
                 selected |-> IF ui.selected = None \/ rows[t] = None THEN None
                              ELSE <<t, rows[t]>>])
    BY <1>1 DEF TicketList!ListAnswered
  <2>2. TicketList!listQuery \subseteq TicketList!Claims
    BY ListRowTypes DEF TicketList!listQuery, ListTyped, Typed, TicketList!UiType
  <2>3. rows \in TicketList!Rows
    BY <2>2, ListRowTypes
  <2>4. PICK selected \in (Plain \X TicketList!Claims) \cup {None} :
          selected = IF ui.selected = None \/ rows[ui.selected[1]] = None THEN None
                     ELSE <<ui.selected[1], rows[ui.selected[1]]>>
    <3>1. ui.selected # None => ui.selected[1] \in Plain
      BY DEF ListTyped, Typed, TicketList!UiType
    <3> QED BY <2>2, <3>1
  <2>5. TicketList!Set([items |-> rows, hasMore |-> more, loading |-> FALSE,
                        selected |-> selected])
    BY <2>1, <2>4
  <2>6. ui' \in TicketList!UiType
    BY <2>3, <2>5 DEF TicketList!Set, ListTyped, Typed, TicketList!UiType
  <2>7. /\ ~ui'.loading /\ ui'.loadingMore = ui.loadingMore
        /\ ui'.poolsLoading = ui.poolsLoading
    BY <2>5, ListDomain DEF TicketList!Set, ListHooks
  <2> QED BY <1>1, <2>6, <2>7 DEF TicketList!ListAnswered
<1>2. CASE TicketList!ListFailed(r)
  <2>1. ui' \in TicketList!UiType
    BY <1>2, ListRowTypes DEF TicketList!ListFailed, TicketList!Set, ListTyped, Typed,
       TicketList!UiType
  <2>2. /\ ~ui'.loading /\ ui'.loadingMore = ui.loadingMore
        /\ ui'.poolsLoading = ui.poolsLoading
    BY <1>2, ListDomain DEF TicketList!ListFailed, TicketList!Set, ListHooks
  <2> QED BY <1>2, <2>1, <2>2 DEF TicketList!ListFailed
<1> QED BY <1>1, <1>2

LEMMA ListMoreTypes ==
    ASSUME ListTyped, NEW r \in ListSlots,
           TicketList!MoreAnswered(r) \/ TicketList!MoreFailed(r)
    PROVE  /\ ui' \in TicketList!UiType /\ ui'.loading = ui.loading
           /\ ~ui'.loadingMore /\ ui'.poolsLoading = ui.poolsLoading
           /\ TicketList!Has(r, "more") /\ TicketList!Return(r)
<1>1. CASE TicketList!MoreAnswered(r)
  <2>0. TicketList!Has(r, "more") /\ TicketList!Return(r)
    BY <1>1 DEF TicketList!MoreAnswered
  <2>1. PICK rows \in [Plain -> req[r].filter \cup {None}], more \in BOOLEAN :
          TicketList!Set([items |-> [t \in Plain |-> IF TicketList!Listed(t) THEN ui.items[t]
                                                     ELSE rows[t]],
                          hasMore |-> more, loadingMore |-> FALSE])
    BY <1>1 DEF TicketList!MoreAnswered
  <2>2. req[r].filter \subseteq TicketList!Claims
    BY <2>0, ListTypes, ListRowTypes DEF TicketList!Has, TicketList!Free
  <2>3. PICK items \in TicketList!Rows :
          items = [t \in Plain |-> IF TicketList!Listed(t) THEN ui.items[t] ELSE rows[t]]
    BY <2>2, ListRowTypes DEF ListTyped, Typed, TicketList!UiType
  <2>4. TicketList!Set([items |-> items, hasMore |-> more, loadingMore |-> FALSE])
    BY <2>1, <2>3
  <2>5. ui' \in TicketList!UiType
    BY <2>4 DEF TicketList!Set, ListTyped, Typed, TicketList!UiType
  <2>6. /\ ui'.loading = ui.loading /\ ~ui'.loadingMore
        /\ ui'.poolsLoading = ui.poolsLoading
    BY <2>4, ListDomain DEF TicketList!Set, ListHooks
  <2> QED BY <2>0, <2>5, <2>6
<1>2. CASE TicketList!MoreFailed(r)
  <2>1. ui' \in TicketList!UiType
    BY <1>2 DEF TicketList!MoreFailed, TicketList!Set, ListTyped, Typed, TicketList!UiType
  <2>2. /\ ui'.loading = ui.loading /\ ~ui'.loadingMore
        /\ ui'.poolsLoading = ui.poolsLoading
    BY <1>2, ListDomain DEF TicketList!MoreFailed, TicketList!Set, ListHooks
  <2> QED BY <1>2, <2>1, <2>2 DEF TicketList!MoreFailed
<1> QED BY <1>1, <1>2

LEMMA ListLiveTypes ==
    ASSUME ListTyped, NEW r \in ListSlots,
           TicketList!LiveAnswered(r) \/ TicketList!LiveRefused(r)
    PROVE  /\ ui' \in TicketList!UiType /\ ui'.loading = ui.loading
           /\ ui'.loadingMore = ui.loadingMore /\ ui'.poolsLoading = ui.poolsLoading
           /\ TicketList!Has(r, "live") /\ TicketList!Return(r)
<1>1. TicketList!Has(r, "live") /\ TicketList!Return(r)
  BY DEF TicketList!LiveAnswered, TicketList!LiveRefused
<1>2. req[r].of \in Plain
  BY <1>1, ListTypes DEF TicketList!Has, TicketList!Free
<1>3. \/ UNCHANGED ui
      \/ \E claim \in TicketList!Claims \cup {None} : TicketList!Replace(req[r].of, claim)
  BY DEF TicketList!LiveAnswered, TicketList!LiveRefused
<1> QED BY <1>1, <1>2, <1>3, ListShows DEF ListTyped, Typed

LEMMA ListElseTypes ==
    ASSUME ListTyped,
           \/ TicketList!loadMoreTickets \/ TicketList!Close
           \/ \E t \in Plain : TicketList!Open(t)
           \/ \E r \in ListSlots : TicketList!loadPoolTotals(r)
    PROVE  ui' \in TicketList!UiType
<1> USE DEF ListTyped, Typed, TicketList!Set, TicketList!UiType
<1>1. CASE TicketList!loadMoreTickets
  BY <1>1 DEF TicketList!loadMoreTickets
<1>2. CASE TicketList!Close
  BY <1>2 DEF TicketList!Close
<1>3. ASSUME NEW t \in Plain, TicketList!Open(t) PROVE ui' \in TicketList!UiType
  <2>1. ui.items[t] \in TicketList!Claims
    BY <1>3, ListRowTypes DEF TicketList!Open, TicketList!RowIsOffered, TicketList!Listed
  <2> QED BY <1>3, <2>1 DEF TicketList!Open, TicketList!Row
<1>4. ASSUME NEW r \in ListSlots, TicketList!loadPoolTotals(r) PROVE ui' \in TicketList!UiType
  BY <1>4 DEF TicketList!loadPoolTotals
<1> QED BY <1>1, <1>2, <1>3, <1>4

LEMMA ListFlags ==
    ASSUME ListTyped, TicketList!FlagsAreReal, TicketList!Next
    PROVE  ListTyped' /\ TicketList!FlagsAreReal'
<1> USE ListKinds, ListDomain, ListPuts, ListLeaves
    DEF ListHooks, TicketList!Set, TicketList!Has, TicketList!Free, TicketList!FlagsAreReal,
        TicketList!InFlight
<1>1. CASE TicketList!loadMoreTickets
  <2>0. ui.filter \in TicketList!Filters
    BY DEF ListTyped, Typed, TicketList!UiType
  <2>1. /\ ui' \in TicketList!UiType /\ ui'.loading = ui.loading
        /\ ui'.poolsLoading = ui.poolsLoading
    BY <1>1, ListElseTypes DEF TicketList!loadMoreTickets
  <2>2. TicketList!Call([kind |-> "more", filter |-> ui.filter])
    BY <1>1 DEF TicketList!loadMoreTickets, TicketList!listQuery
  <2>3. ListTyped'
    BY <2>0, <2>1, <2>2 DEF ListTyped, Typed
  <2> QED BY <2>0, <2>1, <2>2, <2>3 DEF ListSlots
<1>2. CASE TicketList!Close \/ \E t \in Plain : TicketList!Open(t)
  <2>1. /\ ui'.loading = ui.loading /\ ui'.loadingMore = ui.loadingMore
        /\ ui'.poolsLoading = ui.poolsLoading /\ req' = req
    <3>1. CASE TicketList!Close
      BY <3>1 DEF TicketList!Close
    <3>2. CASE \E t \in Plain : TicketList!Open(t)
      BY <3>2 DEF TicketList!Open
    <3> QED BY <1>2, <3>1, <3>2
  <2>2. ListTyped'
    BY <1>2, <2>1, ListElseTypes DEF ListTyped, Typed
  <2> QED BY <2>1, <2>2
<1>3. ASSUME NEW r \in ListSlots, TicketList!ListAnswered(r) \/ TicketList!ListFailed(r)
      PROVE  ListTyped' /\ TicketList!FlagsAreReal'
  <2>1. ListTyped'
    BY <1>3, ListLoadTypes DEF ListTyped, Typed
  <2> QED BY <1>3, <2>1, ListLoadTypes DEF ListSlots
<1>4. ASSUME NEW r \in ListSlots, TicketList!MoreAnswered(r) \/ TicketList!MoreFailed(r)
      PROVE  ListTyped' /\ TicketList!FlagsAreReal'
  <2>1. ListTyped'
    BY <1>4, ListMoreTypes DEF ListTyped, Typed
  <2> QED BY <1>4, <2>1, ListMoreTypes DEF ListSlots
<1>5. ASSUME NEW r \in ListSlots, TicketList!LiveAnswered(r) \/ TicketList!LiveRefused(r)
      PROVE  ListTyped' /\ TicketList!FlagsAreReal'
  <2>1. ListTyped'
    BY <1>5, ListLiveTypes DEF ListTyped, Typed
  <2> QED BY <1>5, <2>1, ListLiveTypes DEF ListSlots
<1>6. ASSUME NEW r \in ListSlots, TicketList!loadPoolTotals(r)
      PROVE  ListTyped' /\ TicketList!FlagsAreReal'
  <2>1. ListTyped'
    BY <1>6, ListElseTypes DEF ListTyped, Typed, TicketList!loadPoolTotals
  <2>2. /\ ui'.loading = ui.loading /\ ui'.loadingMore = ui.loadingMore /\ ~ui'.poolsLoading
        /\ TicketList!Return(r) /\ TicketList!Has(r, "pools")
    BY <1>6 DEF TicketList!loadPoolTotals
  <2> QED BY <2>1, <2>2 DEF ListSlots
<1> HIDE ListKinds, ListDomain, ListPuts, ListLeaves
    DEF ListHooks, TicketList!Set, TicketList!Has, TicketList!Free, TicketList!FlagsAreReal,
        TicketList!InFlight
<1>7. \A r \in Slots \cup {Third} : r \in ListSlots
  BY DEF ListSlots
<1> QED BY <1>1, <1>2, <1>3, <1>4, <1>5, <1>6, <1>7, ListFilterTypes, ListEventTypes
       DEF TicketList!Next

LEMMA ListFlagInit == TicketList!Init => ListTyped /\ TicketList!FlagsAreReal
<1> SUFFICES ASSUME TicketList!Init PROVE ListTyped /\ TicketList!FlagsAreReal
  OBVIOUS
<1>1. PICK f \in TicketList!Filters, r \in ListSlots, p \in ListSlots :
        /\ p # r
        /\ ui = [items |-> TicketList!NoRows, filter |-> f, hasMore |-> FALSE, loading |-> TRUE,
                 loadingMore |-> FALSE, loadError |-> FALSE, poolsLoading |-> TRUE,
                 selected |-> None, last |-> None]
        /\ req = [s \in ListSlots |-> IF s = r THEN [kind |-> "list"]
                                      ELSE IF s = p THEN [kind |-> "pools"] ELSE None]
  BY DEF TicketList!Init, ListSlots
<1>2. ui \in TicketList!UiType
  BY <1>1, ListRowTypes DEF TicketList!UiType
<1>3. req \in [ListSlots -> TicketList!Request \cup {None}]
  BY <1>1, ListKinds
<1>4. /\ req[r] = [kind |-> "list"] /\ req[p] = [kind |-> "pools"]
      /\ req[r] # None /\ req[p] # None
  BY <1>1, ListKinds
<1>5. TicketList!FlagsAreReal
  BY <1>1, <1>4 DEF TicketList!FlagsAreReal, TicketList!InFlight, TicketList!Free, ListSlots
<1> QED BY <1>2, <1>3, <1>5 DEF ListTyped, Typed

LEMMA ListFlagStay ==
    ListTyped /\ TicketList!FlagsAreReal /\ UNCHANGED <<ui, req>> =>
        ListTyped' /\ TicketList!FlagsAreReal'
BY DEF ListTyped, Typed, TicketList!FlagsAreReal, TicketList!InFlight, TicketList!Free

-----------------------------------------------------------------------------
(* The reports: several of them, then several requests.                    *)
ReportsTyped == Typed(ReportList!UiType, {Third}, ReportList!Request)

LEMMA ReportsKinds ==
    /\ \A p \in Plain \cup {None} : \A op \in ReportList!Ops \cup {None} :
         [kind |-> "list", prefers |-> p, op |-> op] \in ReportList!Request
    /\ \A op \in ReportList!Ops : \A i, u \in Plain \cup {None} :
         [kind |-> "write", op |-> op, of |-> i, url |-> u] \in ReportList!Request
    /\ None \notin ReportList!Request /\ None \notin ReportList!Ops
BY PagesAssumption DEF NoneIsNoRequest, ReportList!Request, ReportList!Maybe

LEMMA ReportsTypes ==
    ASSUME ReportsTyped, NEW r \in {Third}, req[r] # None
    PROVE  /\ req[r].kind = "list" =>
                req[r].prefers \in Plain \cup {None} /\ req[r].op \in ReportList!Ops \cup {None}
           /\ req[r].kind = "write" =>
                /\ req[r].op \in ReportList!Ops
                /\ req[r].of \in Plain \cup {None} /\ req[r].url \in Plain \cup {None}
BY DEF ReportsTyped, Typed, ReportList!Request, ReportList!Maybe

LEMMA ReportsDomain == ReportsTyped => DOMAIN ui = ReportHooks /\ DOMAIN req = {Third}
BY DEF ReportsTyped, Typed, ReportList!UiType, ReportHooks

LEMMA ReportsPuts ==
    ASSUME ReportsTyped
    PROVE  /\ UNCHANGED req => req' \in [{Third} -> ReportList!Request \cup {None}]
           /\ \A r \in {Third} : ReportList!Return(r) =>
                req' \in [{Third} -> ReportList!Request \cup {None}]
           /\ \A c \in ReportList!Request : \A r \in {Third} :
                ReportList!Await(r, c) => req' \in [{Third} -> ReportList!Request \cup {None}]
           /\ \A c \in ReportList!Request :
                ReportList!Call(c) => req' \in [{Third} -> ReportList!Request \cup {None}]
BY DEF ReportsTyped, Typed, ReportList!Return, ReportList!Await, ReportList!Call

LEMMA ReportsLeaves ==
    ASSUME ReportsTyped
    PROVE  /\ \A c : ReportList!Call(c) =>
                /\ \A s \in {Third} : req[s] # None => req'[s] = req[s]
                /\ \E s \in {Third} : req'[s] = c
           /\ \A r \in {Third} : ReportList!Return(r) =>
                \A s \in {Third} \ {r} : req'[s] = req[s]
           /\ \A r \in {Third} : \A c : ReportList!Await(r, c) =>
                /\ req'[r] = c
                /\ \A s \in {Third} \ {r} : req'[s] = req[s]
BY DEF ReportsTyped, Typed, ReportList!Call, ReportList!Return, ReportList!Await, ReportList!Free

LEMMA ReportsEffectTypes ==
    ASSUME ReportsTyped, ReportList!Effects
    PROVE  /\ ui' \in ReportList!UiType /\ ui'.loading = ui.loading /\ ui'.saving = ui.saving
           /\ req' = req
<1>1. /\ ReportList!Selected.sel \in Plain \cup {None}
      /\ ReportList!Selected.mode \in ReportList!Modes
      /\ ReportList!Selected.due \subseteq ReportList!Hooks
  BY DEF ReportList!Selected, ReportList!FromUrl, ReportList!Modes, ReportList!Hooks,
     ReportsTyped, Typed, ReportList!UiType, ReportList!Maybe
<1>2. ReportList!SetSearchParams \in Plain \cup {None, "stays"}
  BY DEF ReportList!SetSearchParams, ReportList!InUrl, ReportsTyped, Typed,
     ReportList!UiType, ReportList!Maybe
<1>3. ReportList!Lookup[1] \in Plain \cup {None} /\ ReportList!Lookup[2] \in Plain \cup {None}
  BY DEF ReportList!Lookup, ReportList!selectedReport, ReportsTyped, Typed,
     ReportList!UiType, ReportList!Maybe
<1>4. ReportList!UploadLookup[1] \in BOOLEAN
      /\ ReportList!UploadLookup[2] \in {None, "its", "old"}
  BY DEF ReportList!UploadLookup, ReportsTyped, Typed, ReportList!UiType
<1>5. ReportList!Set([sel |-> ReportList!Selected.sel, mode |-> ReportList!Selected.mode,
               due |-> ReportList!Selected.due, nav |-> ReportList!SetSearchParams,
               contextAsks |-> ReportList!Lookup[1], context |-> ReportList!Lookup[2],
               uploadAsks |-> ReportList!UploadLookup[1], upload |-> ReportList!UploadLookup[2]])
  BY DEF ReportList!Effects
<1>6. ui' \in ReportList!UiType
  BY <1>1, <1>2, <1>3, <1>4, <1>5 DEF ReportList!Set, ReportsTyped, Typed,
     ReportList!UiType, ReportList!Maybe
<1> QED BY <1>5, <1>6, ReportsDomain DEF ReportList!Set, ReportHooks, ReportList!Effects

LEMMA ReportsClickTypes ==
    ASSUME ReportsTyped,
           \/ ReportList!Routed \/ ReportList!ChangeFilter
           \/ ReportList!handleOpenCreateDrawer \/ ReportList!CloseDrawer
           \/ ReportList!ContextAnswered \/ ReportList!UploadAnswered
           \/ \E i \in Plain : ReportList!handleOpenDetailDrawer(i)
           \/ \E given \in BOOLEAN : ReportList!TypeTicket(given)
    PROVE  /\ ui' \in ReportList!UiType /\ ui'.loading = ui.loading /\ ui'.saving = ui.saving
           /\ req' = req
<1> USE ReportsDomain
    DEF ReportsTyped, Typed, ReportList!Set, ReportList!UiType, ReportList!Maybe,
       ReportList!Modes, ReportList!Hooks, ReportHooks
<1>1. CASE ReportList!Routed
  BY <1>1 DEF ReportList!Routed
<1>2. CASE ReportList!ChangeFilter
  BY <1>2 DEF ReportList!ChangeFilter
<1>3. CASE ReportList!handleOpenCreateDrawer
  BY <1>3 DEF ReportList!handleOpenCreateDrawer
<1>4. CASE ReportList!CloseDrawer
  BY <1>4 DEF ReportList!CloseDrawer
<1>5. CASE ReportList!ContextAnswered
  BY <1>5 DEF ReportList!ContextAnswered
<1>6. CASE ReportList!UploadAnswered
  <2>1. PICK c \in {"its", None} : ReportList!Set([upload |-> c, uploadAsks |-> FALSE])
    BY <1>6 DEF ReportList!UploadAnswered
  <2>2. ui' \in ReportList!UiType
    BY <2>1
  <2> QED BY <1>6, <2>1, <2>2 DEF ReportList!UploadAnswered
<1>7. ASSUME NEW i \in Plain, ReportList!handleOpenDetailDrawer(i)
      PROVE  /\ ui' \in ReportList!UiType /\ ui'.loading = ui.loading /\ ui'.saving = ui.saving
             /\ req' = req
  BY <1>7 DEF ReportList!handleOpenDetailDrawer
<1>8. ASSUME NEW given \in BOOLEAN, ReportList!TypeTicket(given)
      PROVE  /\ ui' \in ReportList!UiType /\ ui'.loading = ui.loading /\ ui'.saving = ui.saving
             /\ req' = req
  BY <1>8 DEF ReportList!TypeTicket
<1> HIDE ReportsDomain
    DEF ReportsTyped, Typed, ReportList!Set, ReportList!UiType, ReportList!Maybe,
       ReportList!Modes, ReportList!Hooks, ReportHooks
<1> QED BY <1>1, <1>2, <1>3, <1>4, <1>5, <1>6, <1>7, <1>8

LEMMA ReportsSends ==
    ASSUME ReportsTyped, ReportList!FlagsAreReal,
           \/ ReportList!Refresh
           \/ \E op \in ReportList!Ops : \E i \in Plain \cup {None} : ReportList!Write(op, i)
    PROVE  ReportsTyped' /\ ReportList!FlagsAreReal'
<1> USE ReportsKinds, ReportsDomain, ReportsPuts, ReportsLeaves
<1>0. ui.sel \in Plain \cup {None} /\ ui.url \in Plain \cup {None}
  BY DEF ReportsTyped, Typed, ReportList!UiType, ReportList!Maybe
<1>1. CASE ReportList!Refresh
  <2>1. /\ ui' \in ReportList!UiType /\ ui'.saving = ui.saving
    BY <1>1 DEF ReportList!Refresh, ReportList!Set, ReportHooks, ReportsTyped, Typed,
       ReportList!UiType
  <2>2. PICK p \in Plain \cup {None} : ReportList!Call([kind |-> "list", prefers |-> p,
                                                        op |-> None])
    BY <1>0, <1>1 DEF ReportList!Refresh, ReportList!ListCall
  <2>3. ReportsTyped'
    BY <2>1, <2>2 DEF ReportsTyped, Typed
  <2> QED BY <2>1, <2>2, <2>3 DEF ReportList!FlagsAreReal, ReportList!InFlight,
     ReportList!Free, ReportList!Waits
<1>2. ASSUME NEW op \in ReportList!Ops, NEW i \in Plain \cup {None}, ReportList!Write(op, i)
      PROVE  ReportsTyped' /\ ReportList!FlagsAreReal'
  <2>1. /\ ui' \in ReportList!UiType /\ ui'.loading = ui.loading /\ ui'.saving[1] = op
    BY <1>2 DEF ReportList!Write, ReportList!Set, ReportHooks, ReportsTyped, Typed,
       ReportList!UiType, ReportList!Maybe
  <2>2. PICK u \in Plain \cup {None} :
          ReportList!Call([kind |-> "write", op |-> op, of |-> i, url |-> u])
    BY <1>0, <1>2 DEF ReportList!Write
  <2>3. ReportsTyped'
    BY <2>1, <2>2 DEF ReportsTyped, Typed
  <2> QED BY <2>1, <2>2, <2>3 DEF ReportList!FlagsAreReal, ReportList!InFlight,
     ReportList!Free, ReportList!Waits
<1> QED BY <1>1, <1>2

LEMMA ReportsWriteClicks ==
    ASSUME ReportsTyped,
           \/ ReportList!handleCreate \/ ReportList!handleUpdate
           \/ ReportList!handleReplaceFile \/ ReportList!handleDelete
    PROVE  \E op \in ReportList!Ops : \E i \in Plain \cup {None} : ReportList!Write(op, i)
BY DEF ReportList!handleCreate, ReportList!handleUpdate, ReportList!handleReplaceFile,
   ReportList!handleDelete, ReportList!Ops,
   ReportsTyped, Typed, ReportList!UiType, ReportList!Maybe

LEMMA ReportsEnded ==
    ASSUME ReportsTyped, ReportList!FlagsAreReal, NEW r \in {Third},
           ReportList!ListAnswered(r) \/ ReportList!ListFailed(r) \/ ReportList!WriteFailed(r)
    PROVE  ReportsTyped' /\ ReportList!FlagsAreReal'
<1> USE ReportsKinds, ReportsDomain, ReportsPuts, ReportsLeaves
<1>1. CASE ReportList!ListAnswered(r)
  <2>1. PICK items \in SUBSET Plain, sel \in Plain \cup {None}, mode \in ReportList!Modes, due \in SUBSET ReportList!Hooks :
          ReportList!Set([items |-> items, sel |-> sel, loading |-> FALSE,
                          saving |-> ReportList!Ends(r),
                   mode |-> mode, due |-> due])
    <3>1. PICK items \in SUBSET Plain :
            \E sel \in Plain \cup {None} :
              ReportList!Set([items |-> items, sel |-> sel, loading |-> FALSE,
                              saving |-> ReportList!Ends(r),
                 mode |-> IF req[r].op = "create" THEN "detail" ELSE ui.mode,
                 due |-> {"items", "sel"} \cup (IF req[r].op = "create" THEN {"mode"} ELSE {})])
      BY <1>1 DEF ReportList!ListAnswered
    <3>2. PICK mode \in ReportList!Modes :
            mode = IF req[r].op = "create" THEN "detail" ELSE ui.mode
      BY DEF ReportList!Modes, ReportsTyped, Typed, ReportList!UiType
    <3>3. PICK due \in SUBSET ReportList!Hooks :
            due = {"items", "sel"} \cup (IF req[r].op = "create" THEN {"mode"} ELSE {})
      BY DEF ReportList!Hooks
    <3> QED BY <3>1, <3>2, <3>3
  <2>2. ReportList!Ends(r) \in (ReportList!Ops \X (Plain \cup {None})) \cup {None}
    BY DEF ReportList!Ends, ReportsTyped, Typed, ReportList!UiType, ReportList!Maybe
  <2>3. ui' \in ReportList!UiType
    BY <2>1, <2>2 DEF ReportList!Set, ReportsTyped, Typed, ReportList!UiType, ReportList!Maybe
  <2>4. ~ui'.loading /\ ui'.saving = ReportList!Ends(r)
    BY <2>1 DEF ReportList!Set, ReportHooks
  <2>5. ReportsTyped' /\ ReportList!Has(r, "list") /\ ReportList!Return(r)
    BY <1>1, <2>3 DEF ReportList!ListAnswered, ReportsTyped, Typed
  <2> QED BY <2>4, <2>5 DEF ReportList!FlagsAreReal, ReportList!InFlight, ReportList!Free,
     ReportList!Waits, ReportList!Ends,
           ReportList!Has
<1>2. CASE ReportList!ListFailed(r)
  <2>1. PICK mode \in ReportList!Modes, due \in SUBSET ReportList!Hooks :
          ReportList!Set([loading |-> FALSE, saving |-> ReportList!Ends(r), mode |-> mode,
                          due |-> due])
    <3>1. ReportList!Set([loading |-> FALSE, saving |-> ReportList!Ends(r),
                   mode |-> IF req[r].op = "create" THEN "detail" ELSE ui.mode,
                   due |-> (IF req[r].op = "create" THEN {"mode"} ELSE {})])
      BY <1>2 DEF ReportList!ListFailed
    <3>2. PICK mode \in ReportList!Modes :
            mode = IF req[r].op = "create" THEN "detail" ELSE ui.mode
      BY DEF ReportList!Modes, ReportsTyped, Typed, ReportList!UiType
    <3>3. PICK due \in SUBSET ReportList!Hooks :
            due = IF req[r].op = "create" THEN {"mode"} ELSE {}
      BY DEF ReportList!Hooks
    <3> QED BY <3>1, <3>2, <3>3
  <2>2. ReportList!Ends(r) \in (ReportList!Ops \X (Plain \cup {None})) \cup {None}
    BY DEF ReportList!Ends, ReportsTyped, Typed, ReportList!UiType, ReportList!Maybe
  <2>3. ui' \in ReportList!UiType
    BY <2>1, <2>2 DEF ReportList!Set, ReportsTyped, Typed, ReportList!UiType, ReportList!Maybe
  <2>4. ~ui'.loading /\ ui'.saving = ReportList!Ends(r)
    BY <2>1 DEF ReportList!Set, ReportHooks
  <2>5. ReportsTyped' /\ ReportList!Has(r, "list") /\ ReportList!Return(r)
    BY <1>2, <2>3 DEF ReportList!ListFailed, ReportsTyped, Typed
  <2> QED BY <2>4, <2>5 DEF ReportList!FlagsAreReal, ReportList!InFlight, ReportList!Free,
     ReportList!Waits, ReportList!Ends,
           ReportList!Has
<1>3. CASE ReportList!WriteFailed(r)
  <2>1. ui' \in ReportList!UiType
    BY <1>3 DEF ReportList!WriteFailed, ReportList!Set, ReportsTyped, Typed, ReportList!UiType
  <2>2. ui'.loading = ui.loading /\ ui'.saving = None
    BY <1>3 DEF ReportList!WriteFailed, ReportList!Set, ReportHooks
  <2>3. ReportsTyped' /\ ReportList!Has(r, "write") /\ ReportList!Return(r)
    BY <1>3, <2>1 DEF ReportList!WriteFailed, ReportsTyped, Typed
  <2> QED BY <2>2, <2>3 DEF ReportList!FlagsAreReal, ReportList!InFlight, ReportList!Free,
     ReportList!Waits, ReportList!Has
<1> QED BY <1>1, <1>2, <1>3

LEMMA ReportsRead ==
    ASSUME ReportsTyped, ReportList!FlagsAreReal, NEW r \in {Third}, ReportList!Written(r)
    PROVE  ReportsTyped' /\ ReportList!FlagsAreReal'
<1>1. ReportList!Has(r, "write") /\ req[r].op \in ReportList!Ops
      /\ req[r].url \in Plain \cup {None}
      /\ req[r].of \in Plain \cup {None}
  BY ReportsTypes DEF ReportList!Written, ReportList!Has, ReportList!Free
<1>2. PICK p \in Plain \cup {None} : ReportList!loadReports(r, p)
  BY <1>1 DEF ReportList!Written
<1>3. PICK q \in Plain \cup {None} :
        ReportList!Await(r, [kind |-> "list", prefers |-> q, op |-> req[r].op])
  BY <1>1, <1>2 DEF ReportList!loadReports, ReportList!ListCall
<1>4. /\ ui' \in ReportList!UiType /\ ui'.saving = ui.saving
  <2>1. \/ ReportList!Set([loading |-> TRUE, ticket |-> FALSE, upload |-> None,
                           due |-> {"ticket"}])
        \/ ReportList!Set([loading |-> TRUE, mode |-> None, sel |-> None,
                           due |-> {"mode", "sel"}])
        \/ ReportList!Set([loading |-> TRUE])
    BY DEF ReportList!Written
  <2>2. ui' \in ReportList!UiType
    <3> USE DEF ReportList!Set, ReportsTyped, Typed, ReportList!UiType, ReportList!Maybe,
       ReportList!Modes, ReportList!Hooks
    <3>1. CASE ReportList!Set([loading |-> TRUE, ticket |-> FALSE, upload |-> None,
                               due |-> {"ticket"}])
      BY <3>1
    <3>2. CASE ReportList!Set([loading |-> TRUE, mode |-> None, sel |-> None,
                               due |-> {"mode", "sel"}])
      BY <3>2
    <3>3. CASE ReportList!Set([loading |-> TRUE])
      BY <3>3
    <3> HIDE DEF ReportList!Set
    <3> QED BY <2>1, <3>1, <3>2, <3>3
  <2> QED BY <2>1, <2>2, ReportsDomain DEF ReportList!Set, ReportHooks
<1>5. [kind |-> "list", prefers |-> q, op |-> req[r].op] \in ReportList!Request
  BY <1>1, ReportsKinds
<1>6. ReportsTyped'
  BY <1>3, <1>4, <1>5, ReportsPuts DEF ReportsTyped, Typed
<1>7. /\ req'[r] = [kind |-> "list", prefers |-> q, op |-> req[r].op] /\ req'[r] # None
      /\ \A s \in {Third} \ {r} : req'[s] = req[s]
  BY <1>3, <1>5, ReportsKinds, ReportsLeaves
<1> QED BY <1>1, <1>4, <1>6, <1>7, ReportsKinds
    DEF ReportList!FlagsAreReal, ReportList!InFlight, ReportList!Free, ReportList!Waits,
       ReportList!Has

LEMMA ReportsFlagStep ==
    ReportsTyped /\ ReportList!FlagsAreReal /\ ReportList!Next =>
        ReportsTyped' /\ ReportList!FlagsAreReal'
<1> SUFFICES ASSUME ReportsTyped, ReportList!FlagsAreReal, ReportList!Next
             PROVE ReportsTyped' /\ ReportList!FlagsAreReal'
  OBVIOUS
<1>1. ASSUME ui' \in ReportList!UiType, ui'.loading = ui.loading, ui'.saving = ui.saving, req' = req
      PROVE  ReportsTyped' /\ ReportList!FlagsAreReal'
  BY <1>1 DEF ReportsTyped, Typed, ReportList!FlagsAreReal, ReportList!InFlight,
     ReportList!Free, ReportList!Waits
<1> QED BY <1>1, ReportsEffectTypes, ReportsClickTypes, ReportsSends, ReportsWriteClicks,
   ReportsEnded, ReportsRead
    DEF ReportList!Next

LEMMA ReportsFlagInit == ReportList!Init => ReportsTyped /\ ReportList!FlagsAreReal
<1> SUFFICES ASSUME ReportList!Init PROVE ReportsTyped /\ ReportList!FlagsAreReal
  OBVIOUS
<1>1. PICK u \in Plain \cup {None} :
        ui = ReportList!InitialUi(u) /\ ReportList!Mounted([kind |-> "list", prefers |-> u,
                                                            op |-> None])
  BY DEF ReportList!Init, ReportList!ListCall, ReportList!Maybe
<1>2. ui \in ReportList!UiType
  BY <1>1 DEF ReportList!InitialUi, ReportList!UiType, ReportList!Maybe, ReportList!Modes
<1>3. [kind |-> "list", prefers |-> u, op |-> None] \in ReportList!Request
  BY ReportsKinds
<1>4. ReportsTyped
  BY <1>1, <1>2, <1>3 DEF ReportList!Mounted, ReportsTyped, Typed
<1>5. ReportList!FlagsAreReal
  BY <1>1, <1>3, ReportsKinds
     DEF ReportList!InitialUi, ReportList!Mounted, ReportList!FlagsAreReal,
        ReportList!InFlight, ReportList!Free
<1> QED BY <1>4, <1>5

LEMMA ReportsFlagStay ==
    ReportsTyped /\ ReportList!FlagsAreReal /\ UNCHANGED <<ui, req>> =>
        ReportsTyped' /\ ReportList!FlagsAreReal'
BY DEF ReportsTyped, Typed, ReportList!FlagsAreReal, ReportList!InFlight, ReportList!Free,
   ReportList!Waits

-----------------------------------------------------------------------------
BusyTyped == Typed(ReportBusy!UiType, Slots, ReportBusy!Request)

LEMMA BusyKinds ==
    /\ \A p \in Special \cup {None} : \A op \in ReportBusy!Ops \cup {None} :
         [kind |-> "list", prefers |-> p, op |-> op] \in ReportBusy!Request
    /\ \A op \in ReportBusy!Ops : \A i, u \in Special \cup {None} :
         [kind |-> "write", op |-> op, of |-> i, url |-> u] \in ReportBusy!Request
    /\ None \notin ReportBusy!Request /\ None \notin ReportBusy!Ops
<1>1. None \notin ReportBusy!Request /\ None \notin ReportBusy!Ops
  BY PagesAssumption DEF NoneIsNoRequest, ReportBusy!Ops, ReportList!Ops
<1> QED BY <1>1 DEF ReportBusy!Request, ReportBusy!Maybe

LEMMA BusyTypes ==
    ASSUME BusyTyped, NEW r \in Slots, req[r] # None
    PROVE  /\ req[r].kind = "list" =>
                req[r].prefers \in Special \cup {None} /\ req[r].op \in ReportBusy!Ops \cup {None}
           /\ req[r].kind = "write" =>
                /\ req[r].op \in ReportBusy!Ops
                /\ req[r].of \in Special \cup {None} /\ req[r].url \in Special \cup {None}
BY DEF BusyTyped, Typed, ReportBusy!Request, ReportBusy!Maybe

LEMMA BusyDomain == BusyTyped => DOMAIN ui = ReportHooks /\ DOMAIN req = Slots
BY DEF BusyTyped, Typed, ReportBusy!UiType, ReportHooks

LEMMA BusyPuts ==
    ASSUME BusyTyped
    PROVE  /\ UNCHANGED req => req' \in [Slots -> ReportBusy!Request \cup {None}]
           /\ \A r \in Slots : ReportBusy!Return(r) =>
                req' \in [Slots -> ReportBusy!Request \cup {None}]
           /\ \A c \in ReportBusy!Request : \A r \in Slots :
                ReportBusy!Await(r, c) => req' \in [Slots -> ReportBusy!Request \cup {None}]
           /\ \A c \in ReportBusy!Request :
                ReportBusy!Call(c) => req' \in [Slots -> ReportBusy!Request \cup {None}]
BY DEF BusyTyped, Typed, ReportBusy!Return, ReportBusy!Await, ReportBusy!Call

LEMMA BusyLeaves ==
    ASSUME BusyTyped
    PROVE  /\ \A c : ReportBusy!Call(c) =>
                /\ \A s \in Slots : req[s] # None => req'[s] = req[s]
                /\ \E s \in Slots : req'[s] = c
           /\ \A r \in Slots : ReportBusy!Return(r) =>
                \A s \in Slots \ {r} : req'[s] = req[s]
           /\ \A r \in Slots : \A c : ReportBusy!Await(r, c) =>
                /\ req'[r] = c
                /\ \A s \in Slots \ {r} : req'[s] = req[s]
BY DEF BusyTyped, Typed, ReportBusy!Call, ReportBusy!Return, ReportBusy!Await, ReportBusy!Free

LEMMA BusyEffectTypes ==
    ASSUME BusyTyped, ReportBusy!Effects
    PROVE  /\ ui' \in ReportBusy!UiType /\ ui'.loading = ui.loading /\ ui'.saving = ui.saving
           /\ req' = req
<1>1. /\ ReportBusy!Selected.sel \in Special \cup {None}
      /\ ReportBusy!Selected.mode \in ReportBusy!Modes
      /\ ReportBusy!Selected.due \subseteq ReportBusy!Hooks
  BY DEF ReportBusy!Selected, ReportBusy!FromUrl, ReportBusy!Modes, ReportBusy!Hooks,
     BusyTyped, Typed, ReportBusy!UiType, ReportBusy!Maybe
<1>2. ReportBusy!SetSearchParams \in Special \cup {None, "stays"}
  BY DEF ReportBusy!SetSearchParams, ReportBusy!InUrl, BusyTyped, Typed, ReportBusy!UiType,
     ReportBusy!Maybe
<1>3. ReportBusy!Lookup[1] \in Special \cup {None} /\ ReportBusy!Lookup[2] \in Special \cup {None}
  BY DEF ReportBusy!Lookup, ReportBusy!selectedReport, BusyTyped, Typed, ReportBusy!UiType,
     ReportBusy!Maybe
<1>4. ReportBusy!UploadLookup[1] \in BOOLEAN
      /\ ReportBusy!UploadLookup[2] \in {None, "its", "old"}
  BY DEF ReportBusy!UploadLookup, BusyTyped, Typed, ReportBusy!UiType
<1>5. ReportBusy!Set([sel |-> ReportBusy!Selected.sel, mode |-> ReportBusy!Selected.mode,
               due |-> ReportBusy!Selected.due, nav |-> ReportBusy!SetSearchParams,
               contextAsks |-> ReportBusy!Lookup[1], context |-> ReportBusy!Lookup[2],
               uploadAsks |-> ReportBusy!UploadLookup[1], upload |-> ReportBusy!UploadLookup[2]])
  BY DEF ReportBusy!Effects
<1>6. ui' \in ReportBusy!UiType
  BY <1>1, <1>2, <1>3, <1>4, <1>5 DEF ReportBusy!Set, BusyTyped, Typed, ReportBusy!UiType,
     ReportBusy!Maybe
<1> QED BY <1>5, <1>6, BusyDomain DEF ReportBusy!Set, ReportHooks, ReportBusy!Effects

LEMMA BusyClickTypes ==
    ASSUME BusyTyped,
           \/ ReportBusy!Routed \/ ReportBusy!ChangeFilter
           \/ ReportBusy!handleOpenCreateDrawer \/ ReportBusy!CloseDrawer
           \/ ReportBusy!ContextAnswered \/ ReportBusy!UploadAnswered
           \/ \E i \in Special : ReportBusy!handleOpenDetailDrawer(i)
           \/ \E given \in BOOLEAN : ReportBusy!TypeTicket(given)
    PROVE  /\ ui' \in ReportBusy!UiType /\ ui'.loading = ui.loading /\ ui'.saving = ui.saving
           /\ req' = req
<1> USE BusyDomain
    DEF BusyTyped, Typed, ReportBusy!Set, ReportBusy!UiType, ReportBusy!Maybe,
       ReportBusy!Modes, ReportBusy!Hooks, ReportHooks
<1>1. CASE ReportBusy!Routed
  BY <1>1 DEF ReportBusy!Routed
<1>2. CASE ReportBusy!ChangeFilter
  BY <1>2 DEF ReportBusy!ChangeFilter
<1>3. CASE ReportBusy!handleOpenCreateDrawer
  BY <1>3 DEF ReportBusy!handleOpenCreateDrawer
<1>4. CASE ReportBusy!CloseDrawer
  BY <1>4 DEF ReportBusy!CloseDrawer
<1>5. CASE ReportBusy!ContextAnswered
  BY <1>5 DEF ReportBusy!ContextAnswered
<1>6. CASE ReportBusy!UploadAnswered
  <2>1. PICK c \in {"its", None} : ReportBusy!Set([upload |-> c, uploadAsks |-> FALSE])
    BY <1>6 DEF ReportBusy!UploadAnswered
  <2>2. ui' \in ReportBusy!UiType
    BY <2>1
  <2> QED BY <1>6, <2>1, <2>2 DEF ReportBusy!UploadAnswered
<1>7. ASSUME NEW i \in Special, ReportBusy!handleOpenDetailDrawer(i)
      PROVE  /\ ui' \in ReportBusy!UiType /\ ui'.loading = ui.loading /\ ui'.saving = ui.saving
             /\ req' = req
  BY <1>7 DEF ReportBusy!handleOpenDetailDrawer
<1>8. ASSUME NEW given \in BOOLEAN, ReportBusy!TypeTicket(given)
      PROVE  /\ ui' \in ReportBusy!UiType /\ ui'.loading = ui.loading /\ ui'.saving = ui.saving
             /\ req' = req
  BY <1>8 DEF ReportBusy!TypeTicket
<1> HIDE BusyDomain
    DEF BusyTyped, Typed, ReportBusy!Set, ReportBusy!UiType, ReportBusy!Maybe,
       ReportBusy!Modes, ReportBusy!Hooks, ReportHooks
<1> QED BY <1>1, <1>2, <1>3, <1>4, <1>5, <1>6, <1>7, <1>8

LEMMA BusySends ==
    ASSUME BusyTyped, ReportBusy!FlagsAreReal,
           \/ ReportBusy!Refresh
           \/ \E op \in ReportBusy!Ops : \E i \in Special \cup {None} : ReportBusy!Write(op, i)
    PROVE  BusyTyped' /\ ReportBusy!FlagsAreReal'
<1> USE BusyKinds, BusyDomain, BusyPuts, BusyLeaves
<1>0. ui.sel \in Special \cup {None} /\ ui.url \in Special \cup {None}
  BY DEF BusyTyped, Typed, ReportBusy!UiType, ReportBusy!Maybe
<1>1. CASE ReportBusy!Refresh
  <2>1. /\ ui' \in ReportBusy!UiType /\ ui'.saving = ui.saving
    BY <1>1 DEF ReportBusy!Refresh, ReportBusy!Set, ReportHooks, BusyTyped, Typed,
       ReportBusy!UiType
  <2>2. PICK p \in Special \cup {None} : ReportBusy!Call([kind |-> "list", prefers |-> p,
                                                          op |-> None])
    BY <1>0, <1>1 DEF ReportBusy!Refresh, ReportBusy!ListCall
  <2>3. BusyTyped'
    BY <2>1, <2>2 DEF BusyTyped, Typed
  <2> QED BY <2>1, <2>2, <2>3 DEF ReportBusy!FlagsAreReal, ReportBusy!InFlight,
     ReportBusy!Free, ReportBusy!Waits
<1>2. ASSUME NEW op \in ReportBusy!Ops, NEW i \in Special \cup {None}, ReportBusy!Write(op, i)
      PROVE  BusyTyped' /\ ReportBusy!FlagsAreReal'
  <2>1. /\ ui' \in ReportBusy!UiType /\ ui'.loading = ui.loading /\ ui'.saving[1] = op
    BY <1>2 DEF ReportBusy!Write, ReportBusy!Set, ReportHooks, BusyTyped, Typed,
       ReportBusy!UiType, ReportBusy!Maybe
  <2>2. PICK u \in Special \cup {None} :
          ReportBusy!Call([kind |-> "write", op |-> op, of |-> i, url |-> u])
    BY <1>0, <1>2 DEF ReportBusy!Write
  <2>3. BusyTyped'
    BY <2>1, <2>2 DEF BusyTyped, Typed
  <2> QED BY <2>1, <2>2, <2>3 DEF ReportBusy!FlagsAreReal, ReportBusy!InFlight,
     ReportBusy!Free, ReportBusy!Waits
<1> QED BY <1>1, <1>2

LEMMA BusyWriteClicks ==
    ASSUME BusyTyped,
           \/ ReportBusy!handleCreate \/ ReportBusy!handleUpdate
           \/ ReportBusy!handleReplaceFile \/ ReportBusy!handleDelete
    PROVE  \E op \in ReportBusy!Ops : \E i \in Special \cup {None} : ReportBusy!Write(op, i)
BY DEF ReportBusy!handleCreate, ReportBusy!handleUpdate, ReportBusy!handleReplaceFile,
   ReportBusy!handleDelete, ReportBusy!Ops,
   BusyTyped, Typed, ReportBusy!UiType, ReportBusy!Maybe

LEMMA BusyEnded ==
    ASSUME BusyTyped, ReportBusy!FlagsAreReal, NEW r \in Slots,
           ReportBusy!ListAnswered(r) \/ ReportBusy!ListFailed(r) \/ ReportBusy!WriteFailed(r)
    PROVE  BusyTyped' /\ ReportBusy!FlagsAreReal'
<1> USE BusyKinds, BusyDomain, BusyPuts, BusyLeaves
<1>1. CASE ReportBusy!ListAnswered(r)
  <2>1. PICK items \in SUBSET Special, sel \in Special \cup {None}, mode \in ReportBusy!Modes, due \in SUBSET ReportBusy!Hooks :
          ReportBusy!Set([items |-> items, sel |-> sel, loading |-> FALSE,
                          saving |-> ReportBusy!Ends(r),
                   mode |-> mode, due |-> due])
    <3>1. PICK items \in SUBSET Special :
            \E sel \in Special \cup {None} :
              ReportBusy!Set([items |-> items, sel |-> sel, loading |-> FALSE,
                              saving |-> ReportBusy!Ends(r),
                 mode |-> IF req[r].op = "create" THEN "detail" ELSE ui.mode,
                 due |-> {"items", "sel"} \cup (IF req[r].op = "create" THEN {"mode"} ELSE {})])
      BY <1>1 DEF ReportBusy!ListAnswered
    <3>2. PICK mode \in ReportBusy!Modes :
            mode = IF req[r].op = "create" THEN "detail" ELSE ui.mode
      BY DEF ReportBusy!Modes, BusyTyped, Typed, ReportBusy!UiType
    <3>3. PICK due \in SUBSET ReportBusy!Hooks :
            due = {"items", "sel"} \cup (IF req[r].op = "create" THEN {"mode"} ELSE {})
      BY DEF ReportBusy!Hooks
    <3> QED BY <3>1, <3>2, <3>3
  <2>2. ReportBusy!Ends(r) \in (ReportBusy!Ops \X (Special \cup {None})) \cup {None}
    BY DEF ReportBusy!Ends, BusyTyped, Typed, ReportBusy!UiType, ReportBusy!Maybe
  <2>3. ui' \in ReportBusy!UiType
    BY <2>1, <2>2 DEF ReportBusy!Set, BusyTyped, Typed, ReportBusy!UiType, ReportBusy!Maybe
  <2>4. ~ui'.loading /\ ui'.saving = ReportBusy!Ends(r)
    BY <2>1 DEF ReportBusy!Set, ReportHooks
  <2>5. BusyTyped' /\ ReportBusy!Has(r, "list") /\ ReportBusy!Return(r)
    BY <1>1, <2>3 DEF ReportBusy!ListAnswered, BusyTyped, Typed
  <2> QED BY <2>4, <2>5 DEF ReportBusy!FlagsAreReal, ReportBusy!InFlight, ReportBusy!Free,
     ReportBusy!Waits, ReportBusy!Ends,
           ReportBusy!Has
<1>2. CASE ReportBusy!ListFailed(r)
  <2>1. PICK mode \in ReportBusy!Modes, due \in SUBSET ReportBusy!Hooks :
          ReportBusy!Set([loading |-> FALSE, saving |-> ReportBusy!Ends(r), mode |-> mode,
                          due |-> due])
    <3>1. ReportBusy!Set([loading |-> FALSE, saving |-> ReportBusy!Ends(r),
                   mode |-> IF req[r].op = "create" THEN "detail" ELSE ui.mode,
                   due |-> (IF req[r].op = "create" THEN {"mode"} ELSE {})])
      BY <1>2 DEF ReportBusy!ListFailed
    <3>2. PICK mode \in ReportBusy!Modes :
            mode = IF req[r].op = "create" THEN "detail" ELSE ui.mode
      BY DEF ReportBusy!Modes, BusyTyped, Typed, ReportBusy!UiType
    <3>3. PICK due \in SUBSET ReportBusy!Hooks :
            due = IF req[r].op = "create" THEN {"mode"} ELSE {}
      BY DEF ReportBusy!Hooks
    <3> QED BY <3>1, <3>2, <3>3
  <2>2. ReportBusy!Ends(r) \in (ReportBusy!Ops \X (Special \cup {None})) \cup {None}
    BY DEF ReportBusy!Ends, BusyTyped, Typed, ReportBusy!UiType, ReportBusy!Maybe
  <2>3. ui' \in ReportBusy!UiType
    BY <2>1, <2>2 DEF ReportBusy!Set, BusyTyped, Typed, ReportBusy!UiType, ReportBusy!Maybe
  <2>4. ~ui'.loading /\ ui'.saving = ReportBusy!Ends(r)
    BY <2>1 DEF ReportBusy!Set, ReportHooks
  <2>5. BusyTyped' /\ ReportBusy!Has(r, "list") /\ ReportBusy!Return(r)
    BY <1>2, <2>3 DEF ReportBusy!ListFailed, BusyTyped, Typed
  <2> QED BY <2>4, <2>5 DEF ReportBusy!FlagsAreReal, ReportBusy!InFlight, ReportBusy!Free,
     ReportBusy!Waits, ReportBusy!Ends,
           ReportBusy!Has
<1>3. CASE ReportBusy!WriteFailed(r)
  <2>1. ui' \in ReportBusy!UiType
    BY <1>3 DEF ReportBusy!WriteFailed, ReportBusy!Set, BusyTyped, Typed, ReportBusy!UiType
  <2>2. ui'.loading = ui.loading /\ ui'.saving = None
    BY <1>3 DEF ReportBusy!WriteFailed, ReportBusy!Set, ReportHooks
  <2>3. BusyTyped' /\ ReportBusy!Has(r, "write") /\ ReportBusy!Return(r)
    BY <1>3, <2>1 DEF ReportBusy!WriteFailed, BusyTyped, Typed
  <2> QED BY <2>2, <2>3 DEF ReportBusy!FlagsAreReal, ReportBusy!InFlight, ReportBusy!Free,
     ReportBusy!Waits, ReportBusy!Has
<1> QED BY <1>1, <1>2, <1>3

LEMMA BusyRead ==
    ASSUME BusyTyped, ReportBusy!FlagsAreReal, NEW r \in Slots, ReportBusy!Written(r)
    PROVE  BusyTyped' /\ ReportBusy!FlagsAreReal'
<1>1. ReportBusy!Has(r, "write") /\ req[r].op \in ReportBusy!Ops
      /\ req[r].url \in Special \cup {None}
      /\ req[r].of \in Special \cup {None}
  BY BusyTypes DEF ReportBusy!Written, ReportBusy!Has, ReportBusy!Free
<1>2. PICK p \in Special \cup {None} : ReportBusy!loadReports(r, p)
  BY <1>1 DEF ReportBusy!Written
<1>3. PICK q \in Special \cup {None} :
        ReportBusy!Await(r, [kind |-> "list", prefers |-> q, op |-> req[r].op])
  BY <1>1, <1>2 DEF ReportBusy!loadReports, ReportBusy!ListCall
<1>4. /\ ui' \in ReportBusy!UiType /\ ui'.saving = ui.saving
  <2>1. \/ ReportBusy!Set([loading |-> TRUE, ticket |-> FALSE, upload |-> None,
                           due |-> {"ticket"}])
        \/ ReportBusy!Set([loading |-> TRUE, mode |-> None, sel |-> None,
                           due |-> {"mode", "sel"}])
        \/ ReportBusy!Set([loading |-> TRUE])
    BY DEF ReportBusy!Written
  <2>2. ui' \in ReportBusy!UiType
    <3> USE DEF ReportBusy!Set, BusyTyped, Typed, ReportBusy!UiType, ReportBusy!Maybe,
       ReportBusy!Modes, ReportBusy!Hooks
    <3>1. CASE ReportBusy!Set([loading |-> TRUE, ticket |-> FALSE, upload |-> None,
                               due |-> {"ticket"}])
      BY <3>1
    <3>2. CASE ReportBusy!Set([loading |-> TRUE, mode |-> None, sel |-> None,
                               due |-> {"mode", "sel"}])
      BY <3>2
    <3>3. CASE ReportBusy!Set([loading |-> TRUE])
      BY <3>3
    <3> HIDE DEF ReportBusy!Set
    <3> QED BY <2>1, <3>1, <3>2, <3>3
  <2> QED BY <2>1, <2>2, BusyDomain DEF ReportBusy!Set, ReportHooks
<1>5. [kind |-> "list", prefers |-> q, op |-> req[r].op] \in ReportBusy!Request
  BY <1>1, BusyKinds
<1>6. BusyTyped'
  BY <1>3, <1>4, <1>5, BusyPuts DEF BusyTyped, Typed
<1>7. /\ req'[r] = [kind |-> "list", prefers |-> q, op |-> req[r].op] /\ req'[r] # None
      /\ \A s \in Slots \ {r} : req'[s] = req[s]
  BY <1>3, <1>5, BusyKinds, BusyLeaves
<1> QED BY <1>1, <1>4, <1>6, <1>7, BusyKinds
    DEF ReportBusy!FlagsAreReal, ReportBusy!InFlight, ReportBusy!Free, ReportBusy!Waits,
       ReportBusy!Has

LEMMA BusyFlagStep ==
    BusyTyped /\ ReportBusy!FlagsAreReal /\ ReportBusy!Next =>
        BusyTyped' /\ ReportBusy!FlagsAreReal'
<1> SUFFICES ASSUME BusyTyped, ReportBusy!FlagsAreReal, ReportBusy!Next PROVE BusyTyped'
    /\ ReportBusy!FlagsAreReal'
  OBVIOUS
<1>1. ASSUME ui' \in ReportBusy!UiType, ui'.loading = ui.loading, ui'.saving = ui.saving, req' = req
      PROVE  BusyTyped' /\ ReportBusy!FlagsAreReal'
  BY <1>1 DEF BusyTyped, Typed, ReportBusy!FlagsAreReal, ReportBusy!InFlight,
     ReportBusy!Free, ReportBusy!Waits
<1> QED BY <1>1, BusyEffectTypes, BusyClickTypes, BusySends, BusyWriteClicks, BusyEnded, BusyRead
    DEF ReportBusy!Next

LEMMA BusyFlagInit == ReportBusy!Init => BusyTyped /\ ReportBusy!FlagsAreReal
<1> SUFFICES ASSUME ReportBusy!Init PROVE BusyTyped /\ ReportBusy!FlagsAreReal
  OBVIOUS
<1>1. PICK u \in Special \cup {None} :
        ui = ReportBusy!InitialUi(u) /\ ReportBusy!Mounted([kind |-> "list", prefers |-> u,
                                                            op |-> None])
  BY DEF ReportBusy!Init, ReportBusy!ListCall, ReportBusy!Maybe
<1>2. ui \in ReportBusy!UiType
  BY <1>1 DEF ReportBusy!InitialUi, ReportBusy!UiType, ReportBusy!Maybe, ReportBusy!Modes
<1>3. [kind |-> "list", prefers |-> u, op |-> None] \in ReportBusy!Request
  BY BusyKinds
<1>4. BusyTyped
  BY <1>1, <1>2, <1>3 DEF ReportBusy!Mounted, BusyTyped, Typed
<1>5. ReportBusy!FlagsAreReal
  BY <1>1, <1>3, BusyKinds
     DEF ReportBusy!InitialUi, ReportBusy!Mounted, ReportBusy!FlagsAreReal,
        ReportBusy!InFlight, ReportBusy!Free
<1> QED BY <1>4, <1>5

LEMMA BusyFlagStay ==
    BusyTyped /\ ReportBusy!FlagsAreReal /\ UNCHANGED <<ui, req>> =>
        BusyTyped' /\ ReportBusy!FlagsAreReal'
BY DEF BusyTyped, Typed, ReportBusy!FlagsAreReal, ReportBusy!InFlight, ReportBusy!Free,
   ReportBusy!Waits

-----------------------------------------------------------------------------
(* The users.  What a call, an answer and the next await must respect for  *)
(* the flags to stay real, and then what each handler does.                *)
UsersHooks == {"tab", "kind", "user", "userDetail", "userForm", "group", "groupDetail",
               "groupForm", "member", "loading", "drawerLoading", "submitting"}

UsersTyped == Typed(Accounts!UiType, Slots, Accounts!Request)

UsersFlags == UsersTyped /\ Accounts!FlagsAreReal

LEMMA UsersKinds ==
    /\ [kind |-> "list"] \in Accounts!Request
    /\ \A u \in Plain : [kind |-> "openUser", of |-> u] \in Accounts!Request
    /\ \A g \in Groups : [kind |-> "openGroup", of |-> g] \in Accounts!Request
    /\ \A b \in BOOLEAN : \A g \in Groups \cup {None} :
         [kind |-> "reload", clears |-> b, group |-> g] \in Accounts!Request
    /\ \A m \in {"user-create", "user-edit"} : \A u, f \in Plain \cup {None} :
       \A b \in BOOLEAN : \A g \in Groups \cup {None} :
         [kind |-> "saveUser", mode |-> m, of |-> u, form |-> f, password |-> b, group |-> g]
            \in Accounts!Request
    /\ \A m \in {"group-create", "group-edit"} : \A g, f \in Groups \cup {None} :
         [kind |-> "saveGroup", mode |-> m, of |-> g, form |-> f] \in Accounts!Request
    /\ \A g \in Groups : \A b \in BOOLEAN :
         [kind |-> "member", of |-> g, adds |-> b] \in Accounts!Request
    /\ \A b \in BOOLEAN : [kind |-> "delete", open |-> b] \in Accounts!Request
    /\ \A u \in Plain : \A to \in {"active", "disabled"} : \A b \in BOOLEAN :
       \A g \in Groups \cup {None} :
         [kind |-> "status", of |-> u, to |-> to, shown |-> b, state |-> "sent", group |-> g]
            \in Accounts!Request
    /\ None \notin Accounts!Request
BY PagesAssumption DEF NoneIsNoRequest, Accounts!Request, Accounts!AnyUser, Accounts!AnyGroup

LEMMA UsersTypes ==
    ASSUME UsersTyped, NEW r \in Slots, req[r] # None
    PROVE  /\ req[r].kind = "openUser" => req[r].of \in Plain
           /\ req[r].kind = "openGroup" => req[r].of \in Groups
           /\ req[r].kind = "reload" => req[r].clears \in BOOLEAN
                /\ req[r].group \in Groups \cup {None}
           /\ req[r].kind = "saveUser" =>
                /\ req[r].of \in Plain \cup {None} /\ req[r].group \in Groups \cup {None}
                /\ [req[r] EXCEPT !.password = FALSE] \in Accounts!Request
                /\ [req[r] EXCEPT !.password = FALSE].kind = "saveUser"
           /\ req[r].kind = "saveGroup" => req[r].of \in Groups \cup {None}
           /\ req[r].kind = "member" => req[r].of \in Groups /\ req[r].adds \in BOOLEAN
           /\ req[r].kind = "status" =>
                /\ req[r].of \in Plain /\ req[r].group \in Groups \cup {None}
                /\ \A s \in {"checked", "done"} :
                     /\ [req[r] EXCEPT !.state = s] \in Accounts!Request
                     /\ [req[r] EXCEPT !.state = s].kind = "status"
<1>1. req[r] \in Accounts!Request
  BY DEF UsersTyped, Typed
<1>2. /\ req[r].kind = "openUser" => req[r].of \in Plain
      /\ req[r].kind = "openGroup" => req[r].of \in Groups
      /\ req[r].kind = "reload" => req[r].clears \in BOOLEAN
           /\ req[r].group \in Groups \cup {None}
      /\ req[r].kind = "saveGroup" => req[r].of \in Groups \cup {None}
      /\ req[r].kind = "member" => req[r].of \in Groups /\ req[r].adds \in BOOLEAN
  BY <1>1 DEF Accounts!Request, Accounts!AnyUser, Accounts!AnyGroup
<1>3. ASSUME req[r].kind = "saveUser"
      PROVE  /\ req[r].of \in Plain \cup {None} /\ req[r].group \in Groups \cup {None}
             /\ [req[r] EXCEPT !.password = FALSE] \in Accounts!Request
             /\ [req[r] EXCEPT !.password = FALSE].kind = "saveUser"
  <2>1. req[r] \in [kind : {"saveUser"}, mode : {"user-create", "user-edit"},
                    of : Plain \cup {None}, form : Plain \cup {None},
                    password : BOOLEAN, group : Groups \cup {None}]
    BY <1>1, <1>3 DEF Accounts!Request, Accounts!AnyUser, Accounts!AnyGroup
  <2> QED BY <2>1 DEF Accounts!Request, Accounts!AnyUser, Accounts!AnyGroup
<1>4. ASSUME req[r].kind = "status"
      PROVE  /\ req[r].of \in Plain /\ req[r].group \in Groups \cup {None}
             /\ \A s \in {"checked", "done"} :
                  /\ [req[r] EXCEPT !.state = s] \in Accounts!Request
                  /\ [req[r] EXCEPT !.state = s].kind = "status"
  <2>1. req[r] \in [kind : {"status"}, of : Plain, to : {"active", "disabled"},
                    shown : BOOLEAN, state : {"sent", "checked", "done"},
                    group : Groups \cup {None}]
    BY <1>1, <1>4 DEF Accounts!Request, Accounts!AnyUser, Accounts!AnyGroup
  <2> QED BY <2>1 DEF Accounts!Request, Accounts!AnyUser, Accounts!AnyGroup
<1> QED BY <1>2, <1>3, <1>4

LEMMA UsersDomain == UsersTyped => DOMAIN ui = UsersHooks /\ DOMAIN req = Slots
BY DEF UsersTyped, Typed, Accounts!UiType, UsersHooks

LEMMA UsersPuts ==
    ASSUME UsersTyped
    PROVE  /\ UNCHANGED req => req' \in [Slots -> Accounts!Request \cup {None}]
           /\ \A r \in Slots : Accounts!Return(r) =>
                req' \in [Slots -> Accounts!Request \cup {None}]
           /\ \A c \in Accounts!Request : \A r \in Slots :
                Accounts!Await(r, c) => req' \in [Slots -> Accounts!Request \cup {None}]
           /\ \A c \in Accounts!Request :
                Accounts!Call(c) => req' \in [Slots -> Accounts!Request \cup {None}]
BY DEF UsersTyped, Typed, Accounts!Return, Accounts!Await, Accounts!Call

LEMMA UsersLeaves ==
    ASSUME UsersTyped
    PROVE  /\ \A c : Accounts!Call(c) =>
                /\ \A s \in Slots : req[s] # None => req'[s] = req[s]
                /\ \E s \in Slots : req'[s] = c
           /\ \A r \in Slots : Accounts!Return(r) =>
                \A s \in Slots \ {r} : req'[s] = req[s]
           /\ \A r \in Slots : \A c : Accounts!Await(r, c) =>
                /\ req'[r] = c
                /\ \A s \in Slots \ {r} : req'[s] = req[s]
BY DEF UsersTyped, Typed, Accounts!Call, Accounts!Return, Accounts!Await, Accounts!Free

LEMMA UsersQuiet ==
    ASSUME UsersFlags, ui' \in Accounts!UiType, req' = req,
           ui'.loading => ui.loading, ui'.drawerLoading => ui.drawerLoading,
           ui'.submitting => ui.submitting
    PROVE  UsersFlags'
BY DEF UsersFlags, UsersTyped, Typed, Accounts!FlagsAreReal, Accounts!InFlight, Accounts!Free,
   Accounts!Submits

LEMMA UsersCalls ==
    ASSUME UsersFlags, NEW c \in Accounts!Request, Accounts!Call(c), ui' \in Accounts!UiType,
           ui'.loading => ui.loading \/ c.kind = "list",
           ui'.drawerLoading => ui.drawerLoading \/ c.kind \in {"openUser", "openGroup"},
           ui'.submitting => \/ ui.submitting \/ c.kind \in {"saveUser", "saveGroup"}
                             \/ c.kind = "member" /\ c.adds
    PROVE  UsersFlags'
<1>1. UsersTyped'
  BY UsersPuts DEF UsersFlags, UsersTyped, Typed
<1>2. PICK n \in Slots : req'[n] = c /\ req'[n] # None
  BY UsersLeaves, UsersKinds DEF UsersFlags
<1>3. \A s \in Slots : req[s] # None => req'[s] = req[s]
  BY UsersLeaves DEF UsersFlags
<1> QED BY <1>1, <1>2, <1>3 DEF UsersFlags, Accounts!FlagsAreReal, Accounts!InFlight,
       Accounts!Free, Accounts!Submits

LEMMA UsersReturns ==
    ASSUME UsersFlags, NEW r \in Slots, req[r] # None, Accounts!Return(r),
           ui' \in Accounts!UiType,
           ui'.loading => ui.loading /\ req[r].kind \notin {"list", "reload"},
           ui'.drawerLoading => ui.drawerLoading /\ req[r].kind \notin {"openUser", "openGroup"},
           ui'.submitting => ui.submitting /\ ~Accounts!Submits(r)
    PROVE  UsersFlags'
<1>1. UsersTyped'
  BY UsersPuts DEF UsersFlags, UsersTyped, Typed
<1>2. \A s \in Slots \ {r} : req'[s] = req[s]
  BY UsersLeaves DEF UsersFlags
<1> QED BY <1>1, <1>2 DEF UsersFlags, Accounts!FlagsAreReal, Accounts!InFlight, Accounts!Free,
       Accounts!Submits

LEMMA UsersAwaits ==
    ASSUME UsersFlags, NEW r \in Slots, req[r] # None, NEW c \in Accounts!Request,
           Accounts!Await(r, c), ui' \in Accounts!UiType,
           req[r].kind \notin {"list", "reload", "openUser", "openGroup"},
           ui'.loading => ui.loading \/ c.kind = "reload",
           ui'.drawerLoading => ui.drawerLoading,
           ui'.submitting => ui.submitting,
           Accounts!Submits(r) => \/ c.kind \in {"saveUser", "saveGroup"}
                                  \/ c.kind = "reload" /\ c.clears
    PROVE  UsersFlags'
<1>1. UsersTyped'
  BY UsersPuts DEF UsersFlags, UsersTyped, Typed
<1>2. req'[r] = c /\ req'[r] # None /\ \A s \in Slots \ {r} : req'[s] = req[s]
  BY UsersLeaves, UsersKinds DEF UsersFlags
<1>3. ui'.loading => Accounts!InFlight({"list", "reload"})'
  BY <1>2 DEF UsersFlags, Accounts!FlagsAreReal, Accounts!InFlight, Accounts!Free
<1>4. ui'.drawerLoading => Accounts!InFlight({"openUser", "openGroup"})'
  BY <1>2 DEF UsersFlags, Accounts!FlagsAreReal, Accounts!InFlight, Accounts!Free
<1>5. ui'.submitting => \E s \in Slots : Accounts!Submits(s)'
  BY <1>2 DEF UsersFlags, Accounts!FlagsAreReal, Accounts!Free, Accounts!Submits
<1> QED BY <1>1, <1>3, <1>4, <1>5 DEF UsersFlags, Accounts!FlagsAreReal

LEMMA UsersClickFlags ==
    ASSUME UsersFlags,
           \/ \E tab \in {"users", "groups"} : Accounts!ChangeFilter(tab)
           \/ Accounts!openUserCreate \/ Accounts!openGroupCreate \/ Accounts!Close
           \/ Accounts!FooterEdit \/ Accounts!chooseMember
    PROVE  UsersFlags'
<1> USE UsersDomain
    DEF UsersHooks, UsersFlags, UsersTyped, Typed, Accounts!Set, Accounts!UiType,
        Accounts!UserKinds, Accounts!GroupKinds, Accounts!AnyUser, Accounts!AnyGroup
<1>1. ASSUME NEW tab \in {"users", "groups"}, Accounts!ChangeFilter(tab) PROVE UsersFlags'
  <2>1. ui' \in Accounts!UiType /\ ui'.drawerLoading = ui.drawerLoading
        /\ ui'.submitting = ui.submitting
    BY <1>1 DEF Accounts!ChangeFilter
  <2>2. Accounts!Call([kind |-> "list"])
    BY <1>1 DEF Accounts!ChangeFilter
  <2> HIDE DEF UsersFlags, Accounts!UiType, Accounts!Set
  <2> QED BY <2>1, <2>2, UsersCalls, UsersKinds
<1>2. CASE Accounts!openUserCreate
  <2>1. /\ ui' \in Accounts!UiType /\ ui'.drawerLoading = ui.drawerLoading
        /\ ui'.submitting = ui.submitting /\ ui'.loading = ui.loading /\ req' = req
    BY <1>2 DEF Accounts!openUserCreate
  <2> HIDE DEF UsersFlags, Accounts!UiType, Accounts!Set
  <2> QED BY <2>1, UsersQuiet
<1>3. CASE Accounts!openGroupCreate
  <2>1. /\ ui' \in Accounts!UiType /\ ui'.drawerLoading = ui.drawerLoading
        /\ ui'.submitting = ui.submitting /\ ui'.loading = ui.loading /\ req' = req
    BY <1>3 DEF Accounts!openGroupCreate
  <2> HIDE DEF UsersFlags, Accounts!UiType, Accounts!Set
  <2> QED BY <2>1, UsersQuiet
<1>4. CASE Accounts!Close
  <2>1. /\ ui' \in Accounts!UiType /\ ~ui'.drawerLoading
        /\ ui'.submitting = ui.submitting /\ ui'.loading = ui.loading /\ req' = req
    BY <1>4 DEF Accounts!Close, Accounts!closeDrawer
  <2> HIDE DEF UsersFlags, Accounts!UiType, Accounts!Set
  <2> QED BY <2>1, UsersQuiet
<1>5. CASE Accounts!FooterEdit
  <2>0. PICK kind \in {"user-edit", "group-edit"} : Accounts!Set([kind |-> kind]) /\ req' = req
    BY <1>5 DEF Accounts!FooterEdit
  <2>1. /\ ui' \in Accounts!UiType /\ ui'.drawerLoading = ui.drawerLoading
        /\ ui'.submitting = ui.submitting /\ ui'.loading = ui.loading /\ req' = req
    BY <2>0
  <2> HIDE DEF UsersFlags, Accounts!UiType, Accounts!Set
  <2> QED BY <2>1, UsersQuiet
<1>6. CASE Accounts!chooseMember
  <2>1. /\ ui' \in Accounts!UiType /\ ui'.drawerLoading = ui.drawerLoading
        /\ ui'.submitting = ui.submitting /\ ui'.loading = ui.loading /\ req' = req
    BY <1>6 DEF Accounts!chooseMember
  <2> HIDE DEF UsersFlags, Accounts!UiType, Accounts!Set
  <2> QED BY <2>1, UsersQuiet
<1> QED BY <1>1, <1>2, <1>3, <1>4, <1>5, <1>6

LEMMA UsersDrawerFlags ==
    ASSUME UsersFlags,
           \/ \E u \in Plain : \/ \E kind \in {"user-detail", "user-edit"} :
                                    Accounts!openUserDrawer(kind, u)
                               \/ \E to \in {"active", "disabled"} :
                                    Accounts!handleUserStatus(u, to)
           \/ \E g \in Groups : \/ \E kind \in {"group-detail", "group-edit"} :
                                     Accounts!openGroupDrawer(kind, g)
                                \/ Accounts!handleDeleteGroup(g)
    PROVE  UsersFlags'
<1> USE UsersDomain
    DEF UsersHooks, UsersFlags, UsersTyped, Typed, Accounts!Set, Accounts!UiType,
        Accounts!UserKinds, Accounts!GroupKinds, Accounts!AnyUser, Accounts!AnyGroup
<1>1. ASSUME NEW u \in Plain, NEW kind \in {"user-detail", "user-edit"},
             Accounts!openUserDrawer(kind, u)
      PROVE  UsersFlags'
  <2>1. ui' \in Accounts!UiType /\ ui'.loading = ui.loading /\ ui'.submitting = ui.submitting
    BY <1>1 DEF Accounts!openUserDrawer
  <2>2. Accounts!Call([kind |-> "openUser", of |-> u])
    BY <1>1 DEF Accounts!openUserDrawer
  <2> HIDE DEF UsersFlags, Accounts!UiType, Accounts!Set
  <2> QED BY <2>1, <2>2, UsersCalls, UsersKinds
<1>2. ASSUME NEW g \in Groups, NEW kind \in {"group-detail", "group-edit"},
             Accounts!openGroupDrawer(kind, g)
      PROVE  UsersFlags'
  <2>1. ui' \in Accounts!UiType /\ ui'.loading = ui.loading /\ ui'.submitting = ui.submitting
    BY <1>2 DEF Accounts!openGroupDrawer
  <2>2. Accounts!Call([kind |-> "openGroup", of |-> g])
    BY <1>2 DEF Accounts!openGroupDrawer
  <2> HIDE DEF UsersFlags, Accounts!UiType, Accounts!Set
  <2> QED BY <2>1, <2>2, UsersCalls, UsersKinds
<1>3. ASSUME NEW u \in Plain, NEW to \in {"active", "disabled"},
             Accounts!handleUserStatus(u, to)
      PROVE  UsersFlags'
  <2>1. PICK g \in Groups \cup {None} : g = Accounts!refreshActiveGroupDetail
    BY DEF Accounts!refreshActiveGroupDetail
  <2>2. PICK b \in BOOLEAN : Accounts!Call([kind |-> "status", of |-> u, to |-> to,
                                            shown |-> b, state |-> "sent", group |-> g])
    BY <1>3, <2>1 DEF Accounts!handleUserStatus
  <2>3. ui' \in Accounts!UiType /\ ui' = ui
    BY <1>3 DEF Accounts!handleUserStatus
  <2>4. [kind |-> "status", of |-> u, to |-> to, shown |-> b, state |-> "sent", group |-> g]
           \in Accounts!Request
    BY UsersKinds
  <2> HIDE DEF UsersFlags, Accounts!UiType, Accounts!Set
  <2> QED BY <2>2, <2>3, <2>4, UsersCalls
<1>4. ASSUME NEW g \in Groups, Accounts!handleDeleteGroup(g) PROVE UsersFlags'
  <2>1. PICK b \in BOOLEAN : Accounts!Call([kind |-> "delete", open |-> b])
    BY <1>4 DEF Accounts!handleDeleteGroup
  <2>3. ui' \in Accounts!UiType /\ ui' = ui
    BY <1>4 DEF Accounts!handleDeleteGroup
  <2> HIDE DEF UsersFlags, Accounts!UiType, Accounts!Set
  <2> QED BY <2>1, <2>3, UsersCalls, UsersKinds
<1> QED BY <1>1, <1>2, <1>3, <1>4

LEMMA UsersSaveFlags ==
    ASSUME UsersFlags,
           \/ Accounts!handleSaveUser \/ Accounts!handleSaveGroup
           \/ Accounts!handleAddMember \/ Accounts!handleRemoveMember
    PROVE  UsersFlags'
<1> USE UsersDomain
    DEF UsersHooks, UsersFlags, UsersTyped, Typed, Accounts!Set, Accounts!UiType,
        Accounts!UserKinds, Accounts!GroupKinds, Accounts!AnyUser, Accounts!AnyGroup
<1>1. CASE Accounts!handleSaveUser
  <2>1. ui' \in Accounts!UiType /\ ui'.loading = ui.loading
        /\ ui'.drawerLoading = ui.drawerLoading
    BY <1>1 DEF Accounts!handleSaveUser
  <2>2. PICK g \in Groups \cup {None} : g = Accounts!refreshActiveGroupDetail
    BY DEF Accounts!refreshActiveGroupDetail
  <2>3. /\ ui.kind \in {"user-create", "user-edit"}
        /\ ui.user \in Plain \cup {None} /\ ui.userForm \in Plain \cup {None}
    BY <1>1 DEF Accounts!handleSaveUser, Accounts!SaveIsOffered
  <2>4. PICK b \in BOOLEAN :
          Accounts!Call([kind |-> "saveUser", mode |-> ui.kind, of |-> ui.user,
                         form |-> ui.userForm, password |-> b, group |-> g])
    BY <1>1, <2>2 DEF Accounts!handleSaveUser
  <2>5. [kind |-> "saveUser", mode |-> ui.kind, of |-> ui.user, form |-> ui.userForm,
         password |-> b, group |-> g] \in Accounts!Request
    BY <2>3, UsersKinds
  <2> HIDE DEF UsersFlags, Accounts!UiType, Accounts!Set
  <2> QED BY <2>1, <2>4, <2>5, UsersCalls
<1>2. CASE Accounts!handleSaveGroup
  <2>1. ui' \in Accounts!UiType /\ ui'.loading = ui.loading
        /\ ui'.drawerLoading = ui.drawerLoading
    BY <1>2 DEF Accounts!handleSaveGroup
  <2>2. /\ ui.kind \in {"group-create", "group-edit"}
        /\ ui.group \in Groups \cup {None} /\ ui.groupForm \in Groups \cup {None}
    BY <1>2 DEF Accounts!handleSaveGroup, Accounts!SaveIsOffered
  <2>3. Accounts!Call([kind |-> "saveGroup", mode |-> ui.kind, of |-> ui.group,
                       form |-> ui.groupForm])
    BY <1>2 DEF Accounts!handleSaveGroup
  <2>4. [kind |-> "saveGroup", mode |-> ui.kind, of |-> ui.group, form |-> ui.groupForm]
           \in Accounts!Request
    BY <2>2, UsersKinds
  <2> HIDE DEF UsersFlags, Accounts!UiType, Accounts!Set
  <2> QED BY <2>1, <2>3, <2>4, UsersCalls
<1>3. CASE Accounts!handleAddMember
  <2>1. ui' \in Accounts!UiType /\ ui'.loading = ui.loading
        /\ ui'.drawerLoading = ui.drawerLoading /\ ui.group \in Groups
    BY <1>3 DEF Accounts!handleAddMember
  <2>2. Accounts!Call([kind |-> "member", of |-> ui.group, adds |-> TRUE])
    BY <1>3 DEF Accounts!handleAddMember
  <2>3. [kind |-> "member", of |-> ui.group, adds |-> TRUE] \in Accounts!Request
    BY <2>1, UsersKinds
  <2> HIDE DEF UsersFlags, Accounts!UiType, Accounts!Set
  <2> QED BY <2>1, <2>2, <2>3, UsersCalls
<1>4. CASE Accounts!handleRemoveMember
  <2>1. ui' \in Accounts!UiType /\ ui' = ui /\ ui.group \in Groups
    BY <1>4 DEF Accounts!handleRemoveMember
  <2>2. Accounts!Call([kind |-> "member", of |-> ui.group, adds |-> FALSE])
    BY <1>4 DEF Accounts!handleRemoveMember
  <2>3. [kind |-> "member", of |-> ui.group, adds |-> FALSE] \in Accounts!Request
    BY <2>1, UsersKinds
  <2> HIDE DEF UsersFlags, Accounts!UiType, Accounts!Set
  <2> QED BY <2>1, <2>2, <2>3, UsersCalls
<1> QED BY <1>1, <1>2, <1>3, <1>4

LEMMA UsersReloadFlags ==
    ASSUME UsersFlags, NEW r \in Slots, req[r] # None, NEW clears \in BOOLEAN,
           NEW group \in Groups \cup {None}, Accounts!Reload(r, clears, group),
           ui' \in Accounts!UiType,
           req[r].kind \notin {"list", "reload", "openUser", "openGroup"},
           ui'.drawerLoading => ui.drawerLoading, ui'.submitting => ui.submitting,
           Accounts!Submits(r) => clears
    PROVE  UsersFlags'
<1>1. PICK c \in Accounts!Request : c = [kind |-> "reload", clears |-> clears, group |-> group]
  BY UsersKinds
<1>2. Accounts!Await(r, c) /\ c.kind = "reload" /\ c.clears = clears
  BY <1>1 DEF Accounts!Reload
<1> QED BY <1>2, UsersAwaits

LEMMA UsersAnswerFlags ==
    ASSUME UsersFlags, NEW r \in Slots,
           \/ Accounts!ListEnds(r) \/ Accounts!Reloaded(r) \/ Accounts!Opened(r)
           \/ Accounts!OpenFailed(r) \/ Accounts!WriteFailed(r)
    PROVE  UsersFlags'
<1> USE UsersDomain, UsersTypes
    DEF UsersHooks, UsersFlags, UsersTyped, Typed, Accounts!Set, Accounts!UiType,
        Accounts!UserKinds, Accounts!GroupKinds, Accounts!AnyUser, Accounts!AnyGroup,
        Accounts!Has, Accounts!Free
<1>1. CASE Accounts!ListEnds(r)
  <2>1. /\ ui' \in Accounts!UiType /\ ~ui'.loading
        /\ ui'.drawerLoading = ui.drawerLoading /\ ui'.submitting = ui.submitting
        /\ req[r] # None /\ req[r].kind = "list" /\ Accounts!Return(r)
    BY <1>1 DEF Accounts!ListEnds
  <2> HIDE DEF UsersFlags, Accounts!UiType, Accounts!Set
  <2> QED BY <2>1, UsersReturns DEF Accounts!Submits
<1>2. CASE Accounts!Reloaded(r)
  <2>1. req[r] # None /\ req[r].kind = "reload" /\ Accounts!Return(r)
    BY <1>2 DEF Accounts!Reloaded
  <2>2. PICK g \in {req[r].group, None} :
          Accounts!Set([loading |-> FALSE, submitting |-> ui.submitting /\ ~req[r].clears,
                        groupDetail |-> IF g = None THEN ui.groupDetail ELSE g])
    BY <1>2 DEF Accounts!Reloaded
  <2>3. PICK b \in BOOLEAN : b = (ui.submitting /\ ~req[r].clears)
    OBVIOUS
  <2>4. /\ ui' \in Accounts!UiType /\ ~ui'.loading
        /\ ui'.drawerLoading = ui.drawerLoading
        /\ ui'.submitting = b
    BY <2>1, <2>2, <2>3
  <2> HIDE DEF UsersFlags, Accounts!UiType, Accounts!Set
  <2> QED BY <2>1, <2>3, <2>4, UsersReturns DEF Accounts!Submits
<1>3. CASE Accounts!Opened(r)
  <2>1. req[r] # None /\ req[r].kind \in {"openUser", "openGroup"} /\ Accounts!Return(r)
    BY <1>3 DEF Accounts!Opened
  <2>2. \/ /\ req[r].of \in Plain
           /\ Accounts!Set([drawerLoading |-> FALSE, userDetail |-> req[r].of,
                            userForm |-> req[r].of])
        \/ /\ req[r].of \in Groups
           /\ Accounts!Set([drawerLoading |-> FALSE, groupDetail |-> req[r].of,
                            groupForm |-> req[r].of, member |-> FALSE])
    BY <1>3 DEF Accounts!Opened
  <2>3. /\ ui' \in Accounts!UiType /\ ~ui'.drawerLoading
        /\ ui'.loading = ui.loading /\ ui'.submitting = ui.submitting
    <3>1. ASSUME NEW u \in Plain, Accounts!Set([drawerLoading |-> FALSE, userDetail |-> u,
                                                 userForm |-> u])
          PROVE  /\ ui' \in Accounts!UiType /\ ~ui'.drawerLoading
                 /\ ui'.loading = ui.loading /\ ui'.submitting = ui.submitting
      BY <3>1
    <3>2. ASSUME NEW g \in Groups, Accounts!Set([drawerLoading |-> FALSE, groupDetail |-> g,
                                                 groupForm |-> g, member |-> FALSE])
          PROVE  /\ ui' \in Accounts!UiType /\ ~ui'.drawerLoading
                 /\ ui'.loading = ui.loading /\ ui'.submitting = ui.submitting
      BY <3>2
    <3> HIDE DEF UsersFlags, Accounts!UiType, Accounts!Set
    <3> QED BY <2>2, <3>1, <3>2
  <2> HIDE DEF UsersFlags, Accounts!UiType, Accounts!Set
  <2> QED BY <2>1, <2>3, UsersReturns DEF Accounts!Submits
<1>5. CASE Accounts!OpenFailed(r)
  <2>1. /\ req[r] # None /\ req[r].kind \in {"openUser", "openGroup"} /\ Accounts!Return(r)
        /\ Accounts!Set([drawerLoading |-> FALSE])
    BY <1>5 DEF Accounts!OpenFailed
  <2>2. /\ ui' \in Accounts!UiType /\ ~ui'.drawerLoading
        /\ ui'.loading = ui.loading /\ ui'.submitting = ui.submitting
    BY <2>1
  <2> HIDE DEF UsersFlags, Accounts!UiType, Accounts!Set
  <2> QED BY <2>1, <2>2, UsersReturns DEF Accounts!Submits
<1>4. CASE Accounts!WriteFailed(r)
  <2>1. /\ req[r] # None /\ req[r].kind \in {"saveUser", "saveGroup", "member", "delete"}
        /\ Accounts!Return(r)
    BY <1>4 DEF Accounts!WriteFailed
  <2>2. PICK b \in BOOLEAN :
          b = (/\ ui.submitting
               /\ req[r].kind = "delete" \/ (req[r].kind = "member" /\ ~req[r].adds))
    OBVIOUS
  <2>3. Accounts!Set([submitting |-> b])
    BY <1>4, <2>2 DEF Accounts!WriteFailed
  <2>4. /\ ui' \in Accounts!UiType /\ ui'.loading = ui.loading
        /\ ui'.drawerLoading = ui.drawerLoading /\ ui'.submitting = b
    BY <2>3
  <2> HIDE DEF UsersFlags, Accounts!UiType, Accounts!Set
  <2> QED BY <2>1, <2>2, <2>4, UsersReturns DEF Accounts!Submits
<1> QED BY <1>1, <1>2, <1>3, <1>4, <1>5

LEMMA UsersWrittenFlags ==
    ASSUME UsersFlags, NEW r \in Slots,
           \/ Accounts!UserSaved(r) \/ Accounts!GroupSaved(r) \/ Accounts!MemberChanged(r)
           \/ Accounts!GroupDeleted(r)
    PROVE  UsersFlags'
<1> USE UsersDomain, UsersTypes
    DEF UsersHooks, UsersFlags, UsersTyped, Typed, Accounts!Set, Accounts!UiType,
        Accounts!UserKinds, Accounts!GroupKinds, Accounts!AnyUser, Accounts!AnyGroup,
        Accounts!Has, Accounts!Free
<1>1. CASE Accounts!UserSaved(r)
  <2>0. req[r] # None /\ req[r].kind = "saveUser" /\ req[r].group \in Groups \cup {None}
    BY <1>1 DEF Accounts!UserSaved
  <2>1. CASE Accounts!Await(r, [req[r] EXCEPT !.password = FALSE]) /\ UNCHANGED ui
    <3>1. PICK c \in Accounts!Request : c.kind = "saveUser" /\ Accounts!Await(r, c)
      BY <2>0, <2>1
    <3>2. ui' \in Accounts!UiType /\ ui' = ui
      BY <2>1
    <3> HIDE DEF UsersFlags, Accounts!UiType, Accounts!Set
    <3> QED BY <2>0, <3>1, <3>2, UsersAwaits
  <2>2. CASE Accounts!Set([loading |-> TRUE]) /\ Accounts!Reload(r, TRUE, req[r].group)
    <3>1. /\ ui' \in Accounts!UiType /\ ui'.drawerLoading = ui.drawerLoading
          /\ ui'.submitting = ui.submitting
      BY <2>2
    <3> HIDE DEF UsersFlags, Accounts!UiType, Accounts!Set
    <3> QED BY <2>0, <2>2, <3>1, UsersReloadFlags
  <2>3. ASSUME NEW u \in Plain, Accounts!Reload(r, TRUE, req[r].group),
               Accounts!Set([kind |-> "user-detail", loading |-> TRUE, userDetail |-> u,
                           user |-> IF req[r].of = None THEN u ELSE ui.user])
        PROVE  UsersFlags'
    <3>1. /\ ui' \in Accounts!UiType /\ ui'.drawerLoading = ui.drawerLoading
          /\ ui'.submitting = ui.submitting
      BY <2>3
    <3> HIDE DEF UsersFlags, Accounts!UiType, Accounts!Set
    <3> QED BY <2>0, <2>3, <3>1, UsersReloadFlags
  <2> HIDE DEF UsersFlags, Accounts!UiType, Accounts!Set
  <2> QED BY <1>1, <2>1, <2>2, <2>3 DEF Accounts!UserSaved
<1>2. CASE Accounts!GroupSaved(r)
  <2>0. req[r] # None /\ req[r].kind = "saveGroup" /\ Accounts!Reload(r, TRUE, None)
    BY <1>2 DEF Accounts!GroupSaved
  <2>1. \/ Accounts!Set([loading |-> TRUE])
        \/ \E g \in Groups :
             Accounts!Set([kind |-> "group-detail", groupDetail |-> g, loading |-> TRUE,
                           group |-> IF req[r].of = None THEN g ELSE ui.group])
    BY <1>2 DEF Accounts!GroupSaved
  <2>2. /\ ui' \in Accounts!UiType /\ ui'.drawerLoading = ui.drawerLoading
        /\ ui'.submitting = ui.submitting
    <3>1. CASE Accounts!Set([loading |-> TRUE])
      BY <3>1
    <3>2. ASSUME NEW g \in Groups,
                 Accounts!Set([kind |-> "group-detail", groupDetail |-> g, loading |-> TRUE,
                           group |-> IF req[r].of = None THEN g ELSE ui.group])
          PROVE  /\ ui' \in Accounts!UiType /\ ui'.drawerLoading = ui.drawerLoading
                 /\ ui'.submitting = ui.submitting
      BY <3>2
    <3> QED BY <2>1, <3>1, <3>2
  <2> HIDE DEF UsersFlags, Accounts!UiType, Accounts!Set
  <2> QED BY <2>0, <2>2, UsersReloadFlags
<1>3. CASE Accounts!MemberChanged(r)
  <2>0. /\ req[r] # None /\ req[r].kind = "member" /\ Accounts!Reload(r, req[r].adds, None)
        /\ req[r].of \in Groups /\ req[r].adds \in BOOLEAN
    BY <1>3 DEF Accounts!MemberChanged
  <2>1. PICK b \in BOOLEAN : b = (ui.member /\ ~req[r].adds)
    OBVIOUS
  <2>2. Accounts!Set([groupDetail |-> req[r].of, member |-> b, loading |-> TRUE])
    BY <1>3, <2>1 DEF Accounts!MemberChanged
  <2>3. /\ ui' \in Accounts!UiType /\ ui'.drawerLoading = ui.drawerLoading
        /\ ui'.submitting = ui.submitting
    BY <2>0, <2>2
  <2> HIDE DEF UsersFlags, Accounts!UiType, Accounts!Set
  <2> QED BY <2>0, <2>3, UsersReloadFlags DEF Accounts!Submits
<1>4. CASE Accounts!GroupDeleted(r)
  <2>0. req[r] # None /\ req[r].kind = "delete" /\ Accounts!Reload(r, FALSE, None)
    BY <1>4 DEF Accounts!GroupDeleted
  <2>1. \/ Accounts!Set([loading |-> TRUE])
        \/ Accounts!Set([kind |-> "closed", user |-> None, userDetail |-> None,
                         group |-> None, groupDetail |-> None, drawerLoading |-> FALSE,
                         member |-> FALSE, loading |-> TRUE])
    BY <1>4 DEF Accounts!GroupDeleted
  <2>2. /\ ui' \in Accounts!UiType
        /\ ui'.drawerLoading => ui.drawerLoading
        /\ ui'.submitting = ui.submitting
    <3>1. CASE Accounts!Set([loading |-> TRUE])
      BY <3>1
    <3>2. CASE Accounts!Set([kind |-> "closed", user |-> None, userDetail |-> None,
                             group |-> None, groupDetail |-> None, drawerLoading |-> FALSE,
                             member |-> FALSE, loading |-> TRUE])
      BY <3>2
    <3> QED BY <2>1, <3>1, <3>2
  <2> HIDE DEF UsersFlags, Accounts!UiType, Accounts!Set
  <2> QED BY <2>0, <2>2, UsersReloadFlags DEF Accounts!Submits
<1> QED BY <1>1, <1>2, <1>3, <1>4

LEMMA UsersStatusFlags ==
    ASSUME UsersFlags, active \subseteq Plain, NEW r \in Slots,
           \/ Accounts!update_user_status(r) \/ Accounts!StatusCommits(r)
           \/ Accounts!StatusAnswered(r)
    PROVE  UsersFlags' /\ active' \subseteq Plain
<1>0. /\ req[r] # None /\ req[r].kind = "status"
      /\ req[r].of \in Plain /\ req[r].group \in Groups \cup {None}
      /\ ~Accounts!Submits(r)
  BY UsersTypes DEF UsersFlags, Accounts!update_user_status, Accounts!StatusCommits,
     Accounts!StatusAnswered, Accounts!Has, Accounts!Free, Accounts!Submits
<1>1. active' \subseteq Plain
  BY <1>0 DEF Accounts!update_user_status, Accounts!StatusCommits, Accounts!StatusAnswered
<1>2. ui \in Accounts!UiType
  BY DEF UsersFlags, UsersTyped, Typed
<1>3. ASSUME UNCHANGED ui, NEW s \in {"checked", "done"},
             Accounts!Await(r, [req[r] EXCEPT !.state = s])
      PROVE  UsersFlags'
  <2>1. PICK c \in Accounts!Request : c.kind = "status" /\ Accounts!Await(r, c)
    BY <1>0, <1>3, UsersTypes DEF UsersFlags
  <2> QED BY <1>0, <1>2, <1>3, <2>1, UsersAwaits
<1>4. ASSUME Accounts!Return(r), UNCHANGED ui PROVE UsersFlags'
  BY <1>0, <1>2, <1>4, UsersReturns
<1>5. CASE Accounts!update_user_status(r) \/ Accounts!StatusCommits(r)
  BY <1>1, <1>3, <1>4, <1>5 DEF Accounts!update_user_status, Accounts!StatusCommits
<1>6. CASE Accounts!StatusAnswered(r)
  <2>1. PICK u \in Plain \cup {None} :
          u = IF req[r].shown THEN req[r].of ELSE ui.userDetail
    BY <1>0, <1>2 DEF Accounts!UiType, Accounts!AnyUser
  <2>2. CASE /\ Accounts!Set([loading |-> TRUE, userDetail |-> u])
             /\ Accounts!Reload(r, FALSE, req[r].group)
    <3>1. /\ ui' \in Accounts!UiType /\ ui'.drawerLoading = ui.drawerLoading
          /\ ui'.submitting = ui.submitting
      BY <1>2, <2>2 DEF Accounts!Set, Accounts!UiType, Accounts!AnyUser
    <3> QED BY <1>0, <1>1, <2>2, <3>1, UsersReloadFlags
  <2>3. CASE Accounts!Return(r) /\ UNCHANGED ui
    BY <1>1, <1>4, <2>3
  <2> QED BY <1>6, <2>1, <2>2, <2>3 DEF Accounts!StatusAnswered
<1> QED BY <1>5, <1>6

LEMMA UsersFlagStep ==
    active \subseteq Plain /\ UsersFlags /\ Accounts!Next =>
        UsersFlags' /\ active' \subseteq Plain
<1> SUFFICES ASSUME active \subseteq Plain, UsersFlags, Accounts!Next
             PROVE  UsersFlags' /\ active' \subseteq Plain
  OBVIOUS
<1>1. ASSUME NEW r \in Slots, Accounts!update_user_status(r) \/ Accounts!StatusCommits(r)
                              \/ Accounts!StatusAnswered(r)
      PROVE  UsersFlags' /\ active' \subseteq Plain
  BY <1>1, UsersStatusFlags
<1>2. ASSUME UNCHANGED active, UsersFlags' PROVE UsersFlags' /\ active' \subseteq Plain
  BY <1>2
<1>3. ASSUME ~\E r \in Slots : \/ Accounts!update_user_status(r) \/ Accounts!StatusCommits(r)
                               \/ Accounts!StatusAnswered(r)
      PROVE  UNCHANGED active
  BY <1>3 DEF Accounts!Next, Accounts!ChangeFilter, Accounts!openUserDrawer,
     Accounts!handleUserStatus, Accounts!openGroupDrawer, Accounts!handleDeleteGroup,
     Accounts!openUserCreate, Accounts!openGroupCreate, Accounts!Close, Accounts!FooterEdit,
     Accounts!handleSaveUser, Accounts!handleSaveGroup, Accounts!chooseMember,
     Accounts!handleAddMember, Accounts!handleRemoveMember, Accounts!ListEnds,
     Accounts!Reloaded, Accounts!Opened, Accounts!OpenFailed, Accounts!UserSaved, Accounts!GroupSaved,
     Accounts!MemberChanged, Accounts!GroupDeleted, Accounts!WriteFailed
<1> QED BY <1>1, <1>2, <1>3, UsersClickFlags, UsersDrawerFlags, UsersSaveFlags, UsersAnswerFlags,
           UsersWrittenFlags DEF Accounts!Next

LEMMA UsersFlagInit == Accounts!Init => UsersFlags /\ active \subseteq Plain
<1> SUFFICES ASSUME Accounts!Init PROVE UsersFlags /\ active \subseteq Plain
  OBVIOUS
<1>1. UsersTyped /\ active \subseteq Plain
  BY UsersKinds DEF Accounts!Init, Accounts!Mounted, UsersTyped, Typed, Accounts!UiType,
     Accounts!AnyUser, Accounts!AnyGroup
<1>2. Accounts!FlagsAreReal
  BY UsersKinds DEF Accounts!Init, Accounts!Mounted, Accounts!FlagsAreReal, Accounts!InFlight,
     Accounts!Free
<1> QED BY <1>1, <1>2 DEF UsersFlags

LEMMA UsersFlagStay ==
    UsersFlags /\ UNCHANGED <<ui, req>> => UsersFlags'
BY DEF UsersFlags, UsersTyped, Typed, Accounts!FlagsAreReal, Accounts!InFlight, Accounts!Free,
   Accounts!Submits

-----------------------------------------------------------------------------
(* The event rules.  A save, or a deletion from a detail page, that        *)
(* outlives its page knows that it is not shown any more: what is shown is *)
(* waited for on the page it was sent from, so that the next page's flags  *)
(* never wait for it.                                                      *)
RulesTyped == Typed(Rules!UiType, Slots, Rules!Request)

RulesReads(q) == q # None /\ q.kind = "load"
RulesBusy(q)  == q # None /\ \/ q.kind \in {"toggle", "reload"}
                             \/ q.kind = "delete" /\ q.shown
RulesSaving(q) == q # None /\ q.kind = "save" /\ q.shown
RulesPlaced(q, at) ==
    /\ RulesSaving(q) => at = "edit"
    /\ q # None /\ q.kind = "delete" /\ q.leads /\ q.shown => at = "detail"

RulesFlags ==
    /\ RulesTyped
    /\ ui.loading => \E r \in Slots : RulesReads(req[r])
    /\ ui.busy # None => \E r \in Slots : RulesBusy(req[r])
    /\ ui.saving => \E r \in Slots : RulesSaving(req[r])
    /\ \A r \in Slots : RulesPlaced(req[r], Rules!Page(ui.route))

LEMMA RulesFlagsAreReal == RulesFlags => RulesTyped /\ Rules!FlagsAreReal
BY DEF RulesFlags, RulesReads, RulesBusy, RulesSaving, Rules!FlagsAreReal, Rules!InFlight,
   Rules!Has, Rules!Free

LEMMA RulesKinds ==
    /\ \A i \in Items \cup {None} : [kind |-> "load", of |-> i] \in Rules!Request
    /\ \A i \in Items : [kind |-> "toggle", of |-> i] \in Rules!Request
    /\ \A i \in Items : \A b, c \in BOOLEAN :
         [kind |-> "delete", of |-> i, leads |-> b, shown |-> c] \in Rules!Request
    /\ [kind |-> "reload"] \in Rules!Request
    /\ \A i \in Items \cup {None} : \A form \in Rules!Form : \A b, c \in BOOLEAN :
         [kind |-> "save", of |-> i, form |-> form, applied |-> b, shown |-> c] \in Rules!Request
    /\ None \notin Rules!Request
BY PagesAssumption DEF NoneIsNoRequest, Rules!Request, Rules!Maybe

LEMMA RulesTypes ==
    ASSUME NEW q \in Rules!Request
    PROVE  /\ q.kind \in {"load", "toggle", "delete", "reload", "save"}
           /\ q.kind = "load" => q.of \in Items \cup {None}
           /\ q.kind = "toggle" => q.of \in Items
           /\ q.kind = "delete" => q.of \in Items /\ q.leads \in BOOLEAN /\ q.shown \in BOOLEAN
           /\ q.kind = "save" => q.of \in Items \cup {None} /\ q.shown \in BOOLEAN
           /\ q.kind \in {"save", "delete"} =>
                /\ [q EXCEPT !.shown = FALSE] \in Rules!Request
                /\ [q EXCEPT !.shown = FALSE].kind = q.kind
                /\ ~[q EXCEPT !.shown = FALSE].shown
<1>1. ASSUME q.kind = "save"
      PROVE  /\ [q EXCEPT !.shown = FALSE] \in Rules!Request
             /\ [q EXCEPT !.shown = FALSE].kind = q.kind
             /\ ~[q EXCEPT !.shown = FALSE].shown
  <2>1. q \in [kind : {"save"}, of : Rules!Maybe, form : Rules!Form, applied : BOOLEAN,
               shown : BOOLEAN]
    BY <1>1 DEF Rules!Request
  <2> QED BY <2>1 DEF Rules!Request
<1>2. ASSUME q.kind = "delete"
      PROVE  /\ [q EXCEPT !.shown = FALSE] \in Rules!Request
             /\ [q EXCEPT !.shown = FALSE].kind = q.kind
             /\ ~[q EXCEPT !.shown = FALSE].shown
  <2>1. q \in [kind : {"delete"}, of : Items, leads : BOOLEAN, shown : BOOLEAN]
    BY <1>2 DEF Rules!Request
  <2> QED BY <2>1 DEF Rules!Request
<1> QED BY <1>1, <1>2 DEF Rules!Request, Rules!Maybe

LEMMA RulesDomain == RulesTyped => DOMAIN ui = RulesHooks /\ DOMAIN req = Slots
BY DEF RulesTyped, Typed, Rules!UiType, RulesHooks

LEMMA RulesPuts ==
    ASSUME RulesTyped
    PROVE  /\ UNCHANGED req => req' \in [Slots -> Rules!Request \cup {None}]
           /\ \A r \in Slots : Rules!Return(r) => req' \in [Slots -> Rules!Request \cup {None}]
           /\ \A c \in Rules!Request : \A r \in Slots :
                Rules!Await(r, c) => req' \in [Slots -> Rules!Request \cup {None}]
           /\ \A c \in Rules!Request :
                Rules!Call(c) => req' \in [Slots -> Rules!Request \cup {None}]
BY DEF RulesTyped, Typed, Rules!Return, Rules!Await, Rules!Call

LEMMA RulesLeaves ==
    ASSUME RulesTyped
    PROVE  /\ \A c : Rules!Call(c) =>
                /\ \A s \in Slots : req[s] # None => req'[s] = req[s]
                /\ \E s \in Slots : req'[s] = c
           /\ \A r \in Slots : Rules!Return(r) =>
                \A s \in Slots \ {r} : req'[s] = req[s]
           /\ \A r \in Slots : \A c : Rules!Await(r, c) =>
                /\ req'[r] = c
                /\ \A s \in Slots \ {r} : req'[s] = req[s]
BY DEF RulesTyped, Typed, Rules!Call, Rules!Return, Rules!Await, Rules!Free

LEMMA RulesQuiet ==
    ASSUME RulesFlags, ui' \in Rules!UiType, req' = req, ui'.route = ui.route,
           ui'.loading => ui.loading, ui'.busy = ui.busy, ui'.saving => ui.saving
    PROVE  RulesFlags'
BY DEF RulesFlags, RulesTyped, Typed, RulesReads, RulesBusy, RulesSaving, RulesPlaced, Rules!Page

LEMMA RulesSends ==
    ASSUME RulesFlags, NEW c \in Rules!Request, Rules!Call(c), ui' \in Rules!UiType,
           ui'.route = ui.route, ui'.loading => ui.loading,
           ui'.busy # None => ui.busy # None \/ RulesBusy(c),
           ui'.saving => ui.saving \/ RulesSaving(c),
           RulesPlaced(c, Rules!Page(ui.route))
    PROVE  RulesFlags'
<1>1. RulesTyped
  BY DEF RulesFlags
<1>2. RulesTyped'
  BY <1>1, RulesPuts DEF RulesTyped, Typed
<1>3. PICK n \in Slots : req'[n] = c
  BY <1>1, RulesLeaves
<1>4. \A s \in Slots : req[s] # None => req'[s] = req[s]
  BY <1>1, RulesLeaves
<1>5. \A s \in Slots : req'[s] \in {req[s], c}
  BY <1>1 DEF RulesTyped, Typed, Rules!Call
<1>6. \A s \in Slots : /\ RulesReads(req[s]) => RulesReads(req'[s])
                       /\ RulesBusy(req[s]) => RulesBusy(req'[s])
                       /\ RulesSaving(req[s]) => RulesSaving(req'[s])
  BY <1>4 DEF RulesReads, RulesBusy, RulesSaving
<1>7. \A r \in Slots : RulesPlaced(req'[r], Rules!Page(ui'.route))
  BY <1>5 DEF RulesFlags, Rules!Page
<1> QED BY <1>2, <1>3, <1>6, <1>7 DEF RulesFlags, Rules!Page

LEMMA RulesReturns ==
    ASSUME RulesFlags, NEW r \in Slots, Rules!Return(r), ui' \in Rules!UiType,
           ui'.route = ui.route, ui'.loading => ui.loading /\ ~RulesReads(req[r]),
           ui'.busy # None => ui.busy # None /\ ~RulesBusy(req[r]),
           ui'.saving => ui.saving /\ ~RulesSaving(req[r])
    PROVE  RulesFlags'
<1>1. RulesTyped
  BY DEF RulesFlags
<1>2. RulesTyped'
  BY <1>1, RulesPuts DEF RulesTyped, Typed
<1>3. req'[r] = None /\ \A s \in Slots \ {r} : req'[s] = req[s]
  BY <1>1 DEF RulesTyped, Typed, Rules!Return
<1>4. \A s \in Slots : RulesPlaced(req'[s], Rules!Page(ui'.route))
  BY <1>3 DEF RulesFlags, RulesPlaced, RulesSaving, Rules!Page
<1> QED BY <1>2, <1>3, <1>4 DEF RulesFlags, Rules!Page

LEMMA RulesFirstTypes ==
    ASSUME NEW route \in Rules!Routes
    PROVE  /\ Rules!Mount(route) \in Rules!UiType /\ Rules!LoadCall(route) \in Rules!Request
           /\ RulesReads(Rules!LoadCall(route))
           /\ \A at : RulesPlaced(Rules!LoadCall(route), at)
<1>1. Rules!Mount(route) \in Rules!UiType
  BY DEF Rules!Mount, Rules!UiType, Rules!EmptyForm, Rules!defaultTimeRule, Rules!Form,
     Rules!Modes, Rules!EventTypes, Rules!Maybe
<1>2. route[2] \in Items \cup {None}
  BY DEF Rules!Routes
<1>3. Rules!LoadCall(route) \in Rules!Request /\ Rules!LoadCall(route) # None
  BY <1>2, RulesKinds DEF Rules!LoadCall
<1> QED BY <1>1, <1>3 DEF Rules!LoadCall, RulesReads, RulesPlaced, RulesSaving

(* What a component leaves, to itself under another URL or to the next.    *)
LEMMA RulesLeft ==
    ASSUME NEW same \in BOOLEAN, NEW calls \in [Slots -> Rules!Request \cup {None}]
    PROVE  /\ Rules!Kept(same, calls) \in [Slots -> Rules!Request \cup {None}]
           /\ \A s \in Slots :
                /\ ~same => ~RulesSaving(Rules!Kept(same, calls)[s])
                /\ ~same => \A at : RulesPlaced(Rules!Kept(same, calls)[s], at)
                /\ same => Rules!Kept(same, calls)[s] \in {calls[s], None}
                /\ same /\ calls[s] # None /\ calls[s].kind # "load" =>
                     Rules!Kept(same, calls)[s] = calls[s]
<1>1. ASSUME NEW s \in Slots
      PROVE  /\ Rules!Still(calls[s]) \in Rules!Request \cup {None}
             /\ ~RulesSaving(Rules!Still(calls[s]))
             /\ \A at : RulesPlaced(Rules!Still(calls[s]), at)
  <2>1. CASE calls[s] # None /\ Rules!Navigates(calls[s])
    <3>1. calls[s] \in Rules!Request /\ calls[s].kind \in {"save", "delete"}
      BY <2>1 DEF Rules!Navigates
    <3>2. PICK q \in Rules!Request : q = [calls[s] EXCEPT !.shown = FALSE] /\ ~q.shown
      BY <3>1, RulesTypes
    <3>3. Rules!Still(calls[s]) = q
      BY <2>1, <3>2 DEF Rules!Still
    <3> QED BY <3>2, <3>3 DEF RulesPlaced, RulesSaving
  <2>2. CASE ~(calls[s] # None /\ Rules!Navigates(calls[s]))
    BY <2>2 DEF Rules!Still, RulesPlaced, RulesSaving
  <2> QED BY <2>1, <2>2
<1> QED BY <1>1 DEF Rules!Kept

LEMMA RulesGoFlags ==
    ASSUME RulesFlags, NEW route \in Rules!Routes,
           NEW calls \in [Slots -> Rules!Request \cup {None}],
           \A s \in Slots : /\ calls[s] \in {req[s], None}
                            /\ RulesReads(req[s]) => calls[s] = req[s],
           Rules!Page(route) = Rules!Page(ui.route) =>
             \A s \in Slots : RulesBusy(req[s]) \/ RulesSaving(req[s]) => calls[s] = req[s],
           Rules!Go(route, calls, Rules!Mount(route))
    PROVE  RulesFlags'
<1>1. ui \in Rules!UiType
  BY DEF RulesFlags, RulesTyped, Typed
<1>2. \A s \in Slots : RulesPlaced(calls[s], Rules!Page(ui.route))
  BY DEF RulesFlags, RulesPlaced, RulesSaving
<1>3. PICK same \in BOOLEAN : same = (Rules!Page(route) = Rules!Page(ui.route))
  OBVIOUS
<1>4. CASE same /\ route[2] = Rules!id
  <2>1. ui' = [ui EXCEPT !.route = route] /\ req' = calls
    BY <1>3, <1>4 DEF Rules!Go
  <2>2. /\ ui' \in Rules!UiType /\ ui'.route = route /\ ui'.loading = ui.loading
        /\ ui'.busy = ui.busy /\ ui'.saving = ui.saving
    BY <1>1, <2>1 DEF Rules!UiType
  <2>3. RulesTyped'
    BY <2>1, <2>2 DEF RulesTyped, Typed
  <2> QED BY <1>2, <1>3, <1>4, <2>1, <2>2, <2>3 DEF RulesFlags
<1>5. CASE ~(same /\ route[2] = Rules!id)
  <2>1. PICK kept \in [Slots -> Rules!Request \cup {None}] :
          kept = Rules!Kept(same, calls)
    BY RulesLeft
  <2>2. PICK r \in Slots :
          /\ kept[r] = None
          /\ req' = [kept EXCEPT ![r] = Rules!LoadCall(route)]
          /\ ui' = IF same THEN [[ui EXCEPT !.route = route, !.applied = FALSE]
                                    EXCEPT !.loading = TRUE, !.error = FALSE]
                           ELSE Rules!Mount(route)
    BY <1>3, <1>5, <2>1 DEF Rules!Go, Rules!Mount
  <2>3. req' \in [Slots -> Rules!Request \cup {None}]
    BY <2>2, RulesFirstTypes
  <2>4. RulesReads(req'[r])
    BY <2>2, RulesFirstTypes
  <2>5. CASE same
    <3>1. /\ ui' \in Rules!UiType /\ ui'.route = route /\ ui'.busy = ui.busy
          /\ ui'.saving = ui.saving
      BY <1>1, <2>2, <2>5 DEF Rules!UiType
    <3>6. \A s \in Slots : /\ kept[s] \in {calls[s], None}
                           /\ calls[s] # None /\ calls[s].kind # "load" => kept[s] = calls[s]
      BY <2>1, <2>5, RulesLeft
    <3>7. /\ kept[r] = None /\ req'[r] = Rules!LoadCall(route)
          /\ \A s \in Slots \ {r} : req'[s] = kept[s]
      BY <2>1, <2>2
    <3>2. \A s \in Slots : calls[s] # None /\ calls[s].kind # "load" =>
            req'[s] = calls[s]
      BY <3>6, <3>7
    <3>3. \A s \in Slots : RulesPlaced(req'[s], Rules!Page(route))
      <4>1. ASSUME NEW s \in Slots PROVE RulesPlaced(req'[s], Rules!Page(route))
        <5>1. req'[s] \in {calls[s], None, Rules!LoadCall(route)}
          BY <3>6, <3>7
        <5>2. RulesPlaced(None, Rules!Page(route))
          BY DEF RulesPlaced, RulesSaving
        <5> QED BY <1>2, <1>3, <2>5, <5>1, <5>2, RulesFirstTypes
      <4> QED BY <4>1
    <3>4. \A s \in Slots : /\ RulesBusy(req[s]) => RulesBusy(req'[s])
                           /\ RulesSaving(req[s]) => RulesSaving(req'[s])
      BY <1>3, <2>5, <3>2 DEF RulesBusy, RulesSaving
    <3>5. RulesTyped'
      BY <2>3, <3>1 DEF RulesTyped, Typed
    <3> QED BY <2>4, <3>1, <3>3, <3>4, <3>5 DEF RulesFlags
  <2>6. CASE ~same
    <3>1. ui' \in Rules!UiType /\ ui'.route = route /\ ui'.busy = None /\ ~ui'.saving
      BY <2>2, <2>6, RulesFirstTypes DEF Rules!Mount
    <3>2. \A s \in Slots : RulesPlaced(req'[s], Rules!Page(route))
      BY <2>1, <2>2, <2>6, RulesLeft, RulesFirstTypes
    <3>3. RulesTyped'
      BY <2>3, <3>1 DEF RulesTyped, Typed
    <3> QED BY <2>4, <3>1, <3>2, <3>3 DEF RulesFlags
  <2> QED BY <2>5, <2>6
<1> QED BY <1>4, <1>5

LEMMA RulesVisitFlags ==
    ASSUME RulesFlags,
           \/ \E route \in Rules!Routes : Rules!Visit(route, Rules!Mount(route))
           \/ \E r \in Slots : Rules!Deleted(r) \/ Rules!Saved(r)
    PROVE  RulesFlags'
<1>0. req \in [Slots -> Rules!Request \cup {None}]
  BY DEF RulesFlags, RulesTyped, Typed
<1>1. ASSUME NEW route \in Rules!Routes, Rules!Visit(route, Rules!Mount(route))
      PROVE  RulesFlags'
  BY <1>0, <1>1, RulesGoFlags DEF Rules!Visit
<1>2. ASSUME NEW r \in Slots, req[r] # None, req[r].kind \in {"save", "delete"},
             NEW calls, calls = [req EXCEPT ![r] = None],
             NEW route \in Rules!Routes, Rules!Go(route, calls, Rules!Mount(route)),
             Rules!Page(route) = Rules!Page(ui.route) =>
               ~RulesBusy(req[r]) /\ ~RulesSaving(req[r])
      PROVE  RulesFlags'
  <2>1. calls \in [Slots -> Rules!Request \cup {None}]
    BY <1>0, <1>2
  <2>2. calls[r] = None /\ \A s \in Slots \ {r} : calls[s] = req[s]
    BY <1>0, <1>2
  <2>3. ~RulesReads(req[r])
    BY <1>2 DEF RulesReads
  <2> QED BY <1>2, <2>1, <2>2, <2>3, RulesGoFlags
<1>3. ASSUME NEW r \in Slots, Rules!Deleted(r) PROVE RulesFlags'
  <2>1. req[r] # None /\ req[r].kind = "delete" /\ req[r].leads
    BY <1>3 DEF Rules!Deleted, Rules!Has, Rules!Free
  <2>2. <<"list", None>> \in Rules!Routes /\ Rules!Page(<<"list", None>>) = "list"
    BY DEF Rules!Routes, Rules!Page
  <2>3. RulesPlaced(req[r], Rules!Page(ui.route))
    BY DEF RulesFlags
  <2>4. Rules!Page(ui.route) = "list" => ~RulesBusy(req[r]) /\ ~RulesSaving(req[r])
    BY <2>1, <2>3 DEF RulesPlaced, RulesBusy, RulesSaving
  <2> QED BY <1>2, <1>3, <2>1, <2>2, <2>4 DEF Rules!Deleted
<1>4. ASSUME NEW r \in Slots, Rules!Saved(r) PROVE RulesFlags'
  <2>1. req[r] # None /\ req[r].kind = "save" /\ req[r].of \in Items \cup {None}
    BY <1>0, <1>4, RulesTypes DEF Rules!Saved, Rules!Has, Rules!Free
  <2>2. PICK i \in Items :
          Rules!Go(<<"detail", i>>, [req EXCEPT ![r] = None], Rules!Mount(<<"detail", i>>))
    BY <1>4, <2>1 DEF Rules!Saved
  <2>3. <<"detail", i>> \in Rules!Routes /\ Rules!Page(<<"detail", i>>) = "detail"
    BY DEF Rules!Routes, Rules!Page
  <2>4. RulesPlaced(req[r], Rules!Page(ui.route))
    BY DEF RulesFlags
  <2>5. Rules!Page(ui.route) = "detail" => ~RulesBusy(req[r]) /\ ~RulesSaving(req[r])
    BY <2>1, <2>4 DEF RulesPlaced, RulesBusy, RulesSaving
  <2> QED BY <1>2, <2>1, <2>2, <2>3, <2>5
<1> QED BY <1>1, <1>3, <1>4

LEMMA RulesLoadFlags ==
    ASSUME RulesFlags, NEW r \in Slots, Rules!Loaded(r) \/ Rules!LoadFailed(r)
    PROVE  RulesFlags'
<1>1. /\ req[r] # None /\ req[r].kind = "load" /\ Rules!Return(r)
      /\ req[r].of \in Items \cup {None}
  BY RulesTypes DEF RulesFlags, RulesTyped, Typed, Rules!Loaded, Rules!LoadFailed, Rules!Has,
     Rules!Free
<1>2. ~RulesBusy(req[r]) /\ ~RulesSaving(req[r])
  BY <1>1 DEF RulesBusy, RulesSaving
<1>3. ui \in Rules!UiType /\ DOMAIN ui = RulesHooks
  BY RulesDomain DEF RulesFlags, RulesTyped, Typed
<1>4. SUFFICES /\ ui' \in Rules!UiType /\ ui'.route = ui.route /\ ~ui'.loading
               /\ ui'.busy = ui.busy /\ ui'.saving = ui.saving
  BY <1>1, <1>2, RulesReturns
<1> USE <1>3 DEF Rules!Set, Rules!UiType, RulesHooks, Rules!Maybe
<1>5. CASE Rules!LoadFailed(r)
  BY <1>5 DEF Rules!LoadFailed
<1>6. CASE Rules!Loaded(r) /\ Rules!ListLoaded
  <2>1. PICK items \in SUBSET Items : Rules!Set([items |-> items, loading |-> FALSE])
    BY <1>6 DEF Rules!ListLoaded
  <2> QED BY <2>1
<1>7. CASE Rules!Loaded(r) /\ Rules!DetailLoaded(req[r].of)
  BY <1>1, <1>7 DEF Rules!DetailLoaded
<1>8. CASE Rules!Loaded(r) /\ Rules!EditorLoaded(req[r].of)
  <2>1. CASE \E b \in BOOLEAN : Rules!Set([bindable |-> b, loading |-> FALSE])
    BY <2>1
  <2>2. ASSUME NEW b \in BOOLEAN, NEW mode \in Rules!Modes(Rules!TypeOf(req[r].of)),
               NEW binds \in BOOLEAN,
               Rules!Set([bindable |-> b, loading |-> FALSE, applied |-> TRUE,
                          form |-> Rules!applyDetail(req[r].of, mode, binds)])
        PROVE  /\ ui' \in Rules!UiType /\ ui'.route = ui.route /\ ~ui'.loading
               /\ ui'.busy = ui.busy /\ ui'.saving = ui.saving
    <3>1. PICK form \in Rules!Form : form = Rules!applyDetail(req[r].of, mode, binds)
      BY <1>1 DEF Rules!applyDetail, Rules!Form, Rules!TypeOf, Rules!Modes, Rules!EventTypes
    <3>2. Rules!Set([bindable |-> b, loading |-> FALSE, applied |-> TRUE, form |-> form])
      BY <2>2, <3>1
    <3> QED BY <3>2
  <2> HIDE DEF Rules!Set
  <2> QED BY <1>8, <2>1, <2>2 DEF Rules!EditorLoaded
<1> HIDE <1>3 DEF Rules!Set, Rules!UiType, RulesHooks, Rules!Maybe
<1> QED BY <1>5, <1>6, <1>7, <1>8 DEF Rules!Loaded

LEMMA RulesRowFlags ==
    ASSUME RulesFlags,
           \/ \E i \in Items : Rules!handleToggle(i) \/ Rules!handleDelete(i)
           \/ \E r \in Slots : Rules!Changed(r) \/ Rules!reload(r) \/ Rules!ChangeFailed(r)
    PROVE  RulesFlags'
<1>0. ui \in Rules!UiType /\ DOMAIN ui = RulesHooks
      /\ req \in [Slots -> Rules!Request \cup {None}]
  BY RulesDomain DEF RulesFlags, RulesTyped, Typed
<1> USE DEF Rules!Set, Rules!UiType, RulesHooks, Rules!Maybe
<1>1. ASSUME NEW i \in Items, Rules!handleToggle(i) PROVE RulesFlags'
  <2>1. /\ ui' \in Rules!UiType /\ ui'.route = ui.route /\ ui'.loading = ui.loading
        /\ ui'.saving = ui.saving
    BY <1>0, <1>1 DEF Rules!handleToggle
  <2>2. PICK c \in Rules!Request : c.kind = "toggle" /\ Rules!Call(c)
    BY <1>1, RulesKinds DEF Rules!handleToggle
  <2>3. RulesBusy(c) /\ RulesPlaced(c, Rules!Page(ui.route))
    BY <2>2, RulesKinds DEF RulesBusy, RulesPlaced, RulesSaving
  <2> HIDE DEF Rules!Set, Rules!UiType
  <2> QED BY <2>1, <2>2, <2>3, RulesSends
<1>2. ASSUME NEW i \in Items, Rules!handleDelete(i) PROVE RulesFlags'
  <2>1. /\ ui' \in Rules!UiType /\ ui'.route = ui.route /\ ui'.loading = ui.loading
        /\ ui'.saving = ui.saving
    BY <1>0, <1>2 DEF Rules!handleDelete
  <2>2. PICK leads \in BOOLEAN : leads = Rules!On("detail")
    BY DEF Rules!On
  <2>3. PICK c \in Rules!Request :
          c = [kind |-> "delete", of |-> i, leads |-> leads, shown |-> TRUE] /\ Rules!Call(c)
    BY <1>2, <2>2, RulesKinds DEF Rules!handleDelete
  <2>4. RulesBusy(c) /\ RulesPlaced(c, Rules!Page(ui.route))
    BY <2>2, <2>3, RulesKinds DEF RulesBusy, RulesPlaced, RulesSaving, Rules!On
  <2> HIDE DEF Rules!Set, Rules!UiType
  <2> QED BY <2>1, <2>3, <2>4, RulesSends
<1>3. ASSUME NEW r \in Slots, Rules!Changed(r) PROVE RulesFlags'
  <2>1. /\ req[r] # None /\ req[r].kind \in {"toggle", "delete"} /\ req[r].of \in Items
    BY <1>0, <1>3, RulesTypes DEF Rules!Changed, Rules!Has, Rules!Free
  <2>2. ~RulesReads(req[r]) /\ ~RulesSaving(req[r])
    BY <2>1 DEF RulesReads, RulesSaving
  <2>3. CASE Rules!Set([detail |-> req[r].of, busy |-> None]) /\ Rules!Return(r)
    <3>1. /\ ui' \in Rules!UiType /\ ui'.route = ui.route /\ ui'.loading = ui.loading
          /\ ui'.saving = ui.saving /\ ui'.busy = None
      BY <1>0, <2>1, <2>3
    <3> HIDE DEF Rules!Set, Rules!UiType
    <3> QED BY <2>2, <2>3, <3>1, RulesReturns
  <2>4. CASE Rules!Await(r, [kind |-> "reload"]) /\ UNCHANGED ui
    <3>1. /\ req' \in [Slots -> Rules!Request \cup {None}] /\ req'[r] = [kind |-> "reload"]
          /\ \A s \in Slots \ {r} : req'[s] = req[s]
      BY <1>0, <2>4, RulesKinds DEF Rules!Await
    <3>2. RulesTyped'
      BY <1>0, <2>4, <3>1 DEF RulesTyped, Typed
    <3>3. RulesBusy(req'[r]) /\ RulesPlaced(req'[r], Rules!Page(ui.route))
      BY <3>1, RulesKinds DEF RulesBusy, RulesPlaced, RulesSaving
    <3> HIDE DEF Rules!Set, Rules!UiType
    <3>4. \A s \in Slots : RulesPlaced(req'[s], Rules!Page(ui'.route))
      BY <2>4, <3>1, <3>3 DEF RulesFlags
    <3> QED BY <2>2, <2>4, <3>1, <3>2, <3>3, <3>4 DEF RulesFlags
  <2> HIDE DEF Rules!Set, Rules!UiType
  <2> QED BY <1>3, <2>3, <2>4 DEF Rules!Changed
<1>4. ASSUME NEW r \in Slots, Rules!reload(r) PROVE RulesFlags'
  <2>1. req[r] # None /\ req[r].kind = "reload" /\ Rules!Return(r)
    BY <1>4 DEF Rules!reload, Rules!Has, Rules!Free
  <2>2. ~RulesReads(req[r]) /\ ~RulesSaving(req[r])
    BY <2>1 DEF RulesReads, RulesSaving
  <2>3. PICK items \in SUBSET Items : Rules!Set([items |-> items, busy |-> None])
    BY <1>4 DEF Rules!reload
  <2>4. /\ ui' \in Rules!UiType /\ ui'.route = ui.route /\ ui'.loading = ui.loading
        /\ ui'.saving = ui.saving /\ ui'.busy = None
    BY <1>0, <2>3
  <2> HIDE DEF Rules!Set, Rules!UiType
  <2> QED BY <2>1, <2>2, <2>4, RulesReturns
<1>5. ASSUME NEW r \in Slots, Rules!ChangeFailed(r) PROVE RulesFlags'
  <2>1. /\ req[r] # None /\ req[r].kind \in {"toggle", "delete", "reload"} /\ Rules!Return(r)
    BY <1>5 DEF Rules!ChangeFailed, Rules!Free
  <2>2. ~RulesReads(req[r]) /\ ~RulesSaving(req[r])
    BY <2>1 DEF RulesReads, RulesSaving
  <2>3. CASE req[r].kind = "delete" /\ ~req[r].shown
    <3>1. ui' \in Rules!UiType /\ ui' = ui /\ ~RulesBusy(req[r])
      BY <1>0, <1>5, <2>3 DEF Rules!ChangeFailed, RulesBusy
    <3> HIDE DEF Rules!Set, Rules!UiType
    <3> QED BY <2>1, <2>2, <3>1, RulesReturns
  <2>4. CASE ~(req[r].kind = "delete" /\ ~req[r].shown)
    <3>0. Rules!Set([busy |-> None, error |-> TRUE])
      BY <1>5, <2>4 DEF Rules!ChangeFailed
    <3>1. /\ ui' \in Rules!UiType /\ ui'.route = ui.route /\ ui'.loading = ui.loading
          /\ ui'.saving = ui.saving /\ ui'.busy = None
      BY <1>0, <3>0
    <3> HIDE DEF Rules!Set, Rules!UiType
    <3> QED BY <2>1, <2>2, <3>1, RulesReturns
  <2> QED BY <2>3, <2>4
<1> QED BY <1>1, <1>2, <1>3, <1>4, <1>5

LEMMA RulesEditFlags ==
    ASSUME RulesFlags,
           \/ \E type \in Rules!EventTypes : Rules!chooseType(type)
           \/ \E mode \in Rules!Modes("normal") \cup Rules!Modes("timer") : Rules!setTimeRule(mode)
           \/ Rules!addTaskTemplate \/ Rules!removeTaskTemplate
    PROVE  RulesFlags'
<1>0. ui \in Rules!UiType /\ DOMAIN ui = RulesHooks /\ ui.form \in Rules!Form
  BY RulesDomain DEF RulesFlags, RulesTyped, Typed, Rules!UiType
<1>1. PICK form \in Rules!Form : Rules!Edit(form)
  BY <1>0 DEF Rules!chooseType, Rules!setTimeRule, Rules!addTaskTemplate,
     Rules!removeTaskTemplate, Rules!Form, Rules!EventTypes, Rules!Modes, Rules!defaultTimeRule
<1>2. /\ ui' \in Rules!UiType /\ ui'.route = ui.route /\ ui'.loading = ui.loading
      /\ ui'.busy = ui.busy /\ ui'.saving = ui.saving /\ req' = req
  BY <1>0, <1>1 DEF Rules!Edit, Rules!Set, Rules!UiType, RulesHooks
<1> QED BY <1>2, RulesQuiet

LEMMA RulesSaveFlags ==
    ASSUME RulesFlags, Rules!handleSave \/ \E r \in Slots : Rules!SaveFailed(r)
    PROVE  RulesFlags'
<1>0. ui \in Rules!UiType /\ DOMAIN ui = RulesHooks
      /\ req \in [Slots -> Rules!Request \cup {None}]
  BY RulesDomain DEF RulesFlags, RulesTyped, Typed
<1>1. CASE Rules!handleSave /\ Rules!hasStaleTaskBindings
  <2>1. /\ ui' \in Rules!UiType /\ ui'.route = ui.route /\ ui'.loading = ui.loading
        /\ ui'.busy = ui.busy /\ ui'.saving = ui.saving /\ req' = req
    BY <1>0, <1>1 DEF Rules!handleSave, Rules!Set, Rules!UiType, RulesHooks
  <2> QED BY <2>1, RulesQuiet
<1>2. CASE Rules!handleSave /\ ~Rules!hasStaleTaskBindings
  <2>1. /\ ui' \in Rules!UiType /\ ui'.route = ui.route /\ ui'.loading = ui.loading
        /\ ui'.busy = ui.busy
    BY <1>0, <1>2 DEF Rules!handleSave, Rules!Set, Rules!UiType, RulesHooks
  <2>2. Rules!id \in Items \cup {None} /\ ui.applied \in BOOLEAN
    BY <1>0 DEF Rules!id, Rules!UiType, Rules!Routes
  <2>3. Rules!buildPayload \in Rules!Form
    BY <1>0 DEF Rules!buildPayload, Rules!UiType, Rules!Form, Rules!Modes
  <2>4. PICK c \in Rules!Request :
          /\ c = [kind |-> "save", of |-> Rules!id, form |-> Rules!buildPayload,
                  applied |-> ui.applied, shown |-> TRUE]
          /\ Rules!Call(c)
    BY <1>2, <2>2, <2>3, RulesKinds DEF Rules!handleSave
  <2>5. RulesSaving(c) /\ RulesPlaced(c, Rules!Page(ui.route))
    BY <1>2, <2>4, RulesKinds DEF Rules!handleSave, Rules!EditorIsOffered, Rules!On, RulesSaving,
       RulesPlaced
  <2> QED BY <2>1, <2>4, <2>5, RulesSends
<1>3. ASSUME NEW r \in Slots, Rules!SaveFailed(r) PROVE RulesFlags'
  <2>1. req[r] # None /\ req[r].kind = "save" /\ Rules!Return(r)
    BY <1>3 DEF Rules!SaveFailed, Rules!Has, Rules!Free
  <2>2. ~RulesReads(req[r]) /\ ~RulesBusy(req[r])
    BY <2>1 DEF RulesReads, RulesBusy
  <2>3. CASE req[r].shown
    <3>1. /\ ui' \in Rules!UiType /\ ui'.route = ui.route /\ ui'.loading = ui.loading
          /\ ui'.busy = ui.busy /\ ~ui'.saving
      BY <1>0, <1>3, <2>3 DEF Rules!SaveFailed, Rules!Set, Rules!UiType, RulesHooks
    <3> QED BY <2>1, <2>2, <3>1, RulesReturns
  <2>4. CASE ~req[r].shown
    <3>1. ui' \in Rules!UiType /\ ui' = ui /\ ~RulesSaving(req[r])
      BY <1>0, <1>3, <2>4 DEF Rules!SaveFailed, RulesSaving
    <3> QED BY <2>1, <2>2, <3>1, RulesReturns
  <2> QED BY <2>3, <2>4
<1> QED BY <1>1, <1>2, <1>3

LEMMA RulesFlagStep == RulesFlags /\ Rules!Next => RulesFlags'
BY RulesVisitFlags, RulesLoadFlags, RulesRowFlags, RulesEditFlags, RulesSaveFlags DEF Rules!Next

LEMMA RulesFlagInit == Rules!Init => RulesFlags
<1> SUFFICES ASSUME Rules!Init PROVE RulesFlags
  OBVIOUS
<1>1. PICK route \in Rules!Routes :
        ui = Rules!Mount(route) /\ Rules!Mounted(Rules!LoadCall(route))
  BY DEF Rules!Init, Rules!Routes
<1>2. PICK r \in Slots :
        req = [s \in Slots |-> IF s = r THEN Rules!LoadCall(route) ELSE None]
  BY <1>1 DEF Rules!Mounted
<1>3. RulesTyped
  BY <1>1, <1>2, RulesFirstTypes DEF RulesTyped, Typed
<1>4. \A s \in Slots : RulesPlaced(req[s], Rules!Page(ui.route))
  BY <1>2, RulesFirstTypes DEF RulesPlaced, RulesSaving
<1> QED BY <1>1, <1>2, <1>3, <1>4, RulesFirstTypes DEF RulesFlags, Rules!Mount

LEMMA RulesFlagStay == RulesFlags /\ UNCHANGED <<ui, req>> => RulesFlags'
BY DEF RulesFlags, RulesTyped, Typed, RulesReads, RulesBusy, RulesSaving, RulesPlaced, Rules!Page

-----------------------------------------------------------------------------
(* The knowledge base, likewise; an editor that is opened for a new        *)
(* article loads nothing.                                                  *)
ArticlesTyped == Typed(Articles!UiType, Slots, Articles!Request)

ArticlesReads(q) == q # None /\ q.kind = "load"
ArticlesBusy(q)  == q # None /\ \/ q.kind \in {"like", "pin"}
                                \/ q.kind = "delete" /\ q.shown
ArticlesSaving(q) == q # None /\ q.kind = "save" /\ q.shown
ArticlesPlaced(q, at) ==
    /\ ArticlesSaving(q) => at = "edit"
    /\ q # None /\ q.kind = "delete" /\ q.shown => at = "detail"

ArticlesFlags ==
    /\ ArticlesTyped
    /\ ui.loading /\ ui.route[1] # "new" => \E r \in Slots : ArticlesReads(req[r])
    /\ ui.actioning # None =>
         \E r \in Slots : ArticlesBusy(req[r]) /\ req[r].kind = ui.actioning
    /\ ui.saveState = "saving" => \E r \in Slots : ArticlesSaving(req[r])
    /\ \A r \in Slots : ArticlesPlaced(req[r], Articles!Page(ui.route))

LEMMA ArticlesFlagsAreReal == ArticlesFlags => ArticlesTyped /\ Articles!FlagsAreReal
BY DEF ArticlesFlags, ArticlesReads, ArticlesBusy, ArticlesSaving, Articles!FlagsAreReal,
   Articles!InFlight,
   Articles!Has, Articles!Free

LEMMA ArticlesKinds ==
    /\ \A i \in Items \cup {None} : [kind |-> "load", of |-> i] \in Articles!Request
    /\ \A i \in Items : \A b \in BOOLEAN :
         [kind |-> "like", of |-> i, likes |-> b] \in Articles!Request
    /\ \A i \in Items : [kind |-> "pin", of |-> i] \in Articles!Request
    /\ \A i \in Items :
         [kind |-> "delete", of |-> i, leads |-> TRUE, shown |-> TRUE] \in Articles!Request
    /\ \A i, form \in Items \cup {None} : \A b \in BOOLEAN :
         [kind |-> "save", of |-> i, form |-> form, applied |-> b, shown |-> TRUE]
           \in Articles!Request
    /\ None \notin Articles!Request
BY PagesAssumption DEF NoneIsNoRequest, Articles!Request, Articles!Maybe

LEMMA ArticlesTypes ==
    ASSUME NEW q \in Articles!Request
    PROVE  /\ q.kind \in {"load", "like", "pin", "delete", "save"}
           /\ q.kind = "load" => q.of \in Items \cup {None}
           /\ q.kind = "like" => q.of \in Items /\ q.likes \in BOOLEAN
           /\ q.kind = "pin" => q.of \in Items
           /\ q.kind = "delete" => q.of \in Items /\ q.leads \in BOOLEAN /\ q.shown \in BOOLEAN
           /\ q.kind = "save" => q.of \in Items \cup {None} /\ q.shown \in BOOLEAN
           /\ q.kind \in {"save", "delete"} =>
                /\ [q EXCEPT !.shown = FALSE] \in Articles!Request
                /\ [q EXCEPT !.shown = FALSE].kind = q.kind
                /\ ~[q EXCEPT !.shown = FALSE].shown
<1>1. ASSUME q.kind = "save"
      PROVE  /\ [q EXCEPT !.shown = FALSE] \in Articles!Request
             /\ [q EXCEPT !.shown = FALSE].kind = q.kind
             /\ ~[q EXCEPT !.shown = FALSE].shown
  <2>1. q \in [kind : {"save"}, of : Articles!Maybe, form : Articles!Maybe, applied : BOOLEAN,
               shown : BOOLEAN]
    BY <1>1 DEF Articles!Request
  <2> QED BY <2>1 DEF Articles!Request
<1>2. ASSUME q.kind = "delete"
      PROVE  /\ [q EXCEPT !.shown = FALSE] \in Articles!Request
             /\ [q EXCEPT !.shown = FALSE].kind = q.kind
             /\ ~[q EXCEPT !.shown = FALSE].shown
  <2>1. q \in [kind : {"delete"}, of : Items, leads : {TRUE}, shown : BOOLEAN]
    BY <1>2 DEF Articles!Request
  <2> QED BY <2>1 DEF Articles!Request
<1> QED BY <1>1, <1>2 DEF Articles!Request, Articles!Maybe

LEMMA ArticlesDomain == ArticlesTyped => DOMAIN ui = ArticlesHooks /\ DOMAIN req = Slots
BY DEF ArticlesTyped, Typed, Articles!UiType, ArticlesHooks

LEMMA ArticlesPuts ==
    ASSUME ArticlesTyped
    PROVE  /\ UNCHANGED req => req' \in [Slots -> Articles!Request \cup {None}]
           /\ \A r \in Slots : Articles!Return(r) =>
                req' \in [Slots -> Articles!Request \cup {None}]
           /\ \A c \in Articles!Request : \A r \in Slots :
                Articles!Await(r, c) => req' \in [Slots -> Articles!Request \cup {None}]
           /\ \A c \in Articles!Request :
                Articles!Call(c) => req' \in [Slots -> Articles!Request \cup {None}]
BY DEF ArticlesTyped, Typed, Articles!Return, Articles!Await, Articles!Call

LEMMA ArticlesLeaves ==
    ASSUME ArticlesTyped
    PROVE  /\ \A c : Articles!Call(c) =>
                /\ \A s \in Slots : req[s] # None => req'[s] = req[s]
                /\ \E s \in Slots : req'[s] = c
           /\ \A r \in Slots : Articles!Return(r) =>
                \A s \in Slots \ {r} : req'[s] = req[s]
           /\ \A r \in Slots : \A c : Articles!Await(r, c) =>
                /\ req'[r] = c
                /\ \A s \in Slots \ {r} : req'[s] = req[s]
BY DEF ArticlesTyped, Typed, Articles!Call, Articles!Return, Articles!Await, Articles!Free

LEMMA ArticlesQuiet ==
    ASSUME ArticlesFlags, ui' \in Articles!UiType, req' = req, ui'.route = ui.route,
           ui'.loading => ui.loading, ui'.actioning = ui.actioning,
           ui'.saveState = ui.saveState
    PROVE  ArticlesFlags'
BY DEF ArticlesFlags, ArticlesTyped, Typed, ArticlesReads, ArticlesBusy, ArticlesSaving,
   ArticlesPlaced, Articles!Page

LEMMA ArticlesSends ==
    ASSUME ArticlesFlags, NEW c \in Articles!Request, Articles!Call(c), ui' \in Articles!UiType,
           ui'.route = ui.route, ui'.loading => ui.loading,
           \/ ui'.actioning = ui.actioning
           \/ ArticlesBusy(c) /\ ui'.actioning = c.kind,
           ui'.saveState = ui.saveState \/ ArticlesSaving(c),
           ArticlesPlaced(c, Articles!Page(ui.route))
    PROVE  ArticlesFlags'
<1>1. ArticlesTyped
  BY DEF ArticlesFlags
<1>2. ArticlesTyped'
  BY <1>1, ArticlesPuts DEF ArticlesTyped, Typed
<1>3. PICK n \in Slots : req'[n] = c
  BY <1>1, ArticlesLeaves
<1>4. \A s \in Slots : req[s] # None => req'[s] = req[s]
  BY <1>1, ArticlesLeaves
<1>5. \A s \in Slots : req'[s] \in {req[s], c}
  BY <1>1 DEF ArticlesTyped, Typed, Articles!Call
<1>6. \A s \in Slots : /\ ArticlesReads(req[s]) => ArticlesReads(req'[s])
                       /\ ArticlesBusy(req[s]) => req'[s] = req[s]
                       /\ ArticlesSaving(req[s]) => ArticlesSaving(req'[s])
  BY <1>4 DEF ArticlesReads, ArticlesBusy, ArticlesSaving
<1>7. \A r \in Slots : ArticlesPlaced(req'[r], Articles!Page(ui'.route))
  BY <1>5 DEF ArticlesFlags, Articles!Page
<1>8. ui'.actioning # None =>
        \E s \in Slots : ArticlesBusy(req'[s]) /\ req'[s].kind = ui'.actioning
  BY <1>3, <1>6 DEF ArticlesFlags
<1> QED BY <1>2, <1>3, <1>6, <1>7, <1>8 DEF ArticlesFlags, Articles!Page

LEMMA ArticlesReturns ==
    ASSUME ArticlesFlags, NEW r \in Slots, Articles!Return(r), ui' \in Articles!UiType,
           ui'.route = ui.route, ui'.loading => ui.loading /\ ~ArticlesReads(req[r]),
           \/ ui'.actioning = None
           \/ ~ArticlesBusy(req[r]) /\ ui'.actioning = ui.actioning,
           \/ ui'.saveState # "saving"
           \/ ~ArticlesSaving(req[r]) /\ ui'.saveState = ui.saveState
    PROVE  ArticlesFlags'
<1>1. ArticlesTyped
  BY DEF ArticlesFlags
<1>2. ArticlesTyped'
  BY <1>1, ArticlesPuts DEF ArticlesTyped, Typed
<1>3. req'[r] = None /\ \A s \in Slots \ {r} : req'[s] = req[s]
  BY <1>1 DEF ArticlesTyped, Typed, Articles!Return
<1>4. \A s \in Slots : ArticlesPlaced(req'[s], Articles!Page(ui'.route))
  BY <1>3 DEF ArticlesFlags, ArticlesPlaced, ArticlesSaving, Articles!Page
<1> QED BY <1>2, <1>3, <1>4 DEF ArticlesFlags, Articles!Page

LEMMA ArticlesFirstTypes ==
    ASSUME NEW route \in Articles!Routes
    PROVE  /\ Articles!Mount(route) \in Articles!UiType /\ Articles!LoadCall(route) \in Articles!Request
           /\ ArticlesReads(Articles!LoadCall(route))
           /\ \A at : ArticlesPlaced(Articles!LoadCall(route), at)
<1>1. Articles!Mount(route) \in Articles!UiType
  BY DEF Articles!Mount, Articles!UiType, Articles!Maybe, Articles!Actions
<1>2. route[2] \in Items \cup {None}
  BY DEF Articles!Routes
<1>3. Articles!LoadCall(route) \in Articles!Request /\ Articles!LoadCall(route) # None
  BY <1>2, ArticlesKinds DEF Articles!LoadCall
<1> QED BY <1>1, <1>3 DEF Articles!LoadCall, ArticlesReads, ArticlesPlaced, ArticlesSaving

(* What a component leaves, to itself under another URL or to the next.    *)
LEMMA ArticlesLeft ==
    ASSUME NEW same \in BOOLEAN, NEW calls \in [Slots -> Articles!Request \cup {None}]
    PROVE  /\ Articles!Kept(same, calls) \in [Slots -> Articles!Request \cup {None}]
           /\ \A s \in Slots :
                /\ ~same => ~ArticlesSaving(Articles!Kept(same, calls)[s])
                /\ ~same => \A at : ArticlesPlaced(Articles!Kept(same, calls)[s], at)
                /\ same => Articles!Kept(same, calls)[s] \in {calls[s], None}
                /\ same /\ calls[s] # None /\ calls[s].kind # "load" =>
                     Articles!Kept(same, calls)[s] = calls[s]
<1>1. ASSUME NEW s \in Slots
      PROVE  /\ Articles!Still(calls[s]) \in Articles!Request \cup {None}
             /\ ~ArticlesSaving(Articles!Still(calls[s]))
             /\ \A at : ArticlesPlaced(Articles!Still(calls[s]), at)
  <2>1. CASE calls[s] # None /\ Articles!Navigates(calls[s])
    <3>1. calls[s] \in Articles!Request /\ calls[s].kind \in {"save", "delete"}
      BY <2>1 DEF Articles!Navigates
    <3>2. PICK q \in Articles!Request : q = [calls[s] EXCEPT !.shown = FALSE] /\ ~q.shown
      BY <3>1, ArticlesTypes
    <3>3. Articles!Still(calls[s]) = q
      BY <2>1, <3>2 DEF Articles!Still
    <3> QED BY <3>2, <3>3 DEF ArticlesPlaced, ArticlesSaving
  <2>2. CASE ~(calls[s] # None /\ Articles!Navigates(calls[s]))
    BY <2>2 DEF Articles!Still, ArticlesPlaced, ArticlesSaving
  <2> QED BY <2>1, <2>2
<1> QED BY <1>1 DEF Articles!Kept

LEMMA ArticlesRoutes ==
    ASSUME NEW q \in Articles!Routes
    PROVE  /\ q[1] = "new" <=> Articles!Page(q) = "edit" /\ q[2] = None
           /\ q[2] \in Items \cup {None}
BY NoneIsNoRecord DEF Articles!Routes, Articles!Page

LEMMA ArticlesGoFlags ==
    ASSUME ArticlesFlags, NEW route \in Articles!Routes,
           NEW calls \in [Slots -> Articles!Request \cup {None}],
           \A s \in Slots : /\ calls[s] \in {req[s], None}
                            /\ ArticlesReads(req[s]) => calls[s] = req[s],
           Articles!Page(route) = Articles!Page(ui.route) =>
             \A s \in Slots :
               ArticlesBusy(req[s]) \/ ArticlesSaving(req[s]) => calls[s] = req[s],
           Articles!Go(route, calls, Articles!Mount(route))
    PROVE  ArticlesFlags'
<1>1. ui \in Articles!UiType
  BY DEF ArticlesFlags, ArticlesTyped, Typed
<1>2. \A s \in Slots : ArticlesPlaced(calls[s], Articles!Page(ui.route))
  BY DEF ArticlesFlags, ArticlesPlaced, ArticlesSaving
<1>3. PICK same \in BOOLEAN : same = (Articles!Page(route) = Articles!Page(ui.route))
  OBVIOUS
<1>4. CASE same /\ route[2] = Articles!id
  <2>1. ui' = [ui EXCEPT !.route = route] /\ req' = calls
    BY <1>3, <1>4 DEF Articles!Go
  <2>2. /\ ui' \in Articles!UiType /\ ui'.route = route /\ ui'.loading = ui.loading
        /\ ui'.actioning = ui.actioning /\ ui'.saveState = ui.saveState
    BY <1>1, <2>1 DEF Articles!UiType
  <2>3. route[1] = "new" <=> ui.route[1] = "new"
    <3>1. ui.route \in Articles!Routes
      BY <1>1 DEF Articles!UiType
    <3> QED BY <1>3, <1>4, <3>1, ArticlesRoutes DEF Articles!id
  <2>4. ArticlesTyped'
    BY <2>1, <2>2 DEF ArticlesTyped, Typed
  <2> QED BY <1>2, <1>3, <1>4, <2>1, <2>2, <2>3, <2>4 DEF ArticlesFlags
<1>5. CASE ~(same /\ route[2] = Articles!id)
  <2>1. PICK kept \in [Slots -> Articles!Request \cup {None}] :
          kept = Articles!Kept(same, calls)
    BY ArticlesLeft
  <2>2. PICK loads \in BOOLEAN : loads = (route[1] # "new")
    OBVIOUS
  <2>3. /\ IF same THEN /\ ui' = [[ui EXCEPT !.route = route, !.applied = FALSE]
                                    EXCEPT !.loading = TRUE, !.error = FALSE]
                        /\ loads
                   ELSE ui' = Articles!Mount(route)
        /\ \E r \in Slots : /\ kept[r] = None
                            /\ req' = [kept EXCEPT ![r] = Articles!LoadCall(route)]
     \/ /\ ~loads /\ req' = kept
        /\ ui' = IF same THEN [ui EXCEPT !.route = route, !.applied = FALSE]
                         ELSE Articles!Mount(route)
    BY <1>3, <1>5, <2>1, <2>2 DEF Articles!Go, Articles!Mount
  <2>4. /\ req' \in [Slots -> Articles!Request \cup {None}]
        /\ \A s \in Slots : \/ req'[s] = kept[s]
                            \/ kept[s] = None /\ req'[s] = Articles!LoadCall(route)
        /\ loads => \E s \in Slots : ArticlesReads(req'[s])
    BY <2>1, <2>3, ArticlesFirstTypes
  <2>5. CASE same
    <3>1. /\ ui' \in Articles!UiType /\ ui'.route = route /\ ui'.actioning = ui.actioning
          /\ ui'.saveState = ui.saveState
      <4>1. \/ ui' = [ui EXCEPT !.route = route, !.applied = FALSE]
            \/ ui' = [[ui EXCEPT !.route = route, !.applied = FALSE]
                        EXCEPT !.loading = TRUE, !.error = FALSE]
        BY <2>3, <2>5
      <4>2. CASE ui' = [ui EXCEPT !.route = route, !.applied = FALSE]
        BY <1>1, <4>2 DEF Articles!UiType
      <4>3. CASE ui' = [[ui EXCEPT !.route = route, !.applied = FALSE]
                          EXCEPT !.loading = TRUE, !.error = FALSE]
        BY <1>1, <4>3 DEF Articles!UiType
      <4> QED BY <4>1, <4>2, <4>3
    <3>2. \A s \in Slots : /\ kept[s] \in {calls[s], None}
                           /\ calls[s] # None /\ calls[s].kind # "load" => kept[s] = calls[s]
      BY <2>1, <2>5, ArticlesLeft
    <3>3. \A s \in Slots : calls[s] # None /\ calls[s].kind # "load" =>
            req'[s] = calls[s]
      BY <2>4, <3>2
    <3>4. \A s \in Slots : ArticlesPlaced(req'[s], Articles!Page(route))
      <4>1. ASSUME NEW s \in Slots PROVE ArticlesPlaced(req'[s], Articles!Page(route))
        <5>1. req'[s] \in {calls[s], None, Articles!LoadCall(route)}
          BY <2>4, <3>2
        <5>2. ArticlesPlaced(None, Articles!Page(route))
          BY DEF ArticlesPlaced, ArticlesSaving
        <5> QED BY <1>2, <1>3, <2>5, <5>1, <5>2, ArticlesFirstTypes
      <4> QED BY <4>1
    <3>5. \A s \in Slots : /\ ArticlesBusy(req[s]) => req'[s] = req[s]
                           /\ ArticlesSaving(req[s]) => req'[s] = req[s]
      BY <1>3, <2>5, <3>3 DEF ArticlesBusy, ArticlesSaving
    <3>6. ArticlesTyped'
      BY <2>4, <3>1 DEF ArticlesTyped, Typed
    <3>7. ui'.actioning # None =>
            \E s \in Slots : ArticlesBusy(req'[s]) /\ req'[s].kind = ui'.actioning
      BY <3>1, <3>5 DEF ArticlesFlags
    <3> QED BY <2>2, <2>4, <3>1, <3>4, <3>5, <3>6, <3>7 DEF ArticlesFlags
  <2>6. CASE ~same
    <3>1. /\ ui' \in Articles!UiType /\ ui'.route = route /\ ui'.actioning = None
          /\ ui'.saveState = "idle"
      BY <2>3, <2>6, ArticlesFirstTypes DEF Articles!Mount
    <3>2. \A s \in Slots : ArticlesPlaced(req'[s], Articles!Page(route))
      BY <2>1, <2>4, <2>6, ArticlesLeft, ArticlesFirstTypes
    <3>3. ArticlesTyped'
      BY <2>4, <3>1 DEF ArticlesTyped, Typed
    <3> QED BY <2>2, <2>4, <3>1, <3>2, <3>3 DEF ArticlesFlags
  <2> QED BY <2>5, <2>6
<1> QED BY <1>4, <1>5

LEMMA ArticlesVisitFlags ==
    ASSUME ArticlesFlags,
           \/ \E route \in Articles!Routes : Articles!Visit(route, Articles!Mount(route))
           \/ \E r \in Slots : /\ Articles!Has(r, "delete") /\ Articles!Acted(r)
           \/ \E r \in Slots : Articles!Saved(r)
    PROVE  ArticlesFlags'
<1>0. /\ req \in [Slots -> Articles!Request \cup {None}] /\ ui.route \in Articles!Routes
  BY DEF ArticlesFlags, ArticlesTyped, Typed, Articles!UiType
<1>1. ASSUME NEW route \in Articles!Routes, Articles!Visit(route, Articles!Mount(route))
      PROVE  ArticlesFlags'
  BY <1>0, <1>1, ArticlesGoFlags DEF Articles!Visit
<1>2. ASSUME NEW r \in Slots, req[r] # None, req[r].kind \in {"save", "delete"},
             NEW calls, calls = [req EXCEPT ![r] = None],
             NEW route \in Articles!Routes, Articles!Go(route, calls, Articles!Mount(route)),
             Articles!Page(route) = Articles!Page(ui.route) =>
               ~ArticlesBusy(req[r]) /\ ~ArticlesSaving(req[r])
      PROVE  ArticlesFlags'
  <2>1. calls \in [Slots -> Articles!Request \cup {None}]
    BY <1>0, <1>2
  <2>2. calls[r] = None /\ \A s \in Slots \ {r} : calls[s] = req[s]
    BY <1>0, <1>2
  <2>3. ~ArticlesReads(req[r])
    BY <1>2 DEF ArticlesReads
  <2> QED BY <1>2, <2>1, <2>2, <2>3, ArticlesGoFlags
<1>3. ASSUME NEW r \in Slots, Articles!Has(r, "delete"), Articles!Acted(r)
      PROVE  ArticlesFlags'
  <2>1. req[r] # None /\ req[r].kind = "delete"
    BY <1>3 DEF Articles!Has, Articles!Free
  <2>2. <<"list", None>> \in Articles!Routes /\ Articles!Page(<<"list", None>>) = "list"
    BY DEF Articles!Routes, Articles!Page
  <2>3. ArticlesPlaced(req[r], Articles!Page(ui.route))
    BY DEF ArticlesFlags
  <2>4. Articles!Page(ui.route) = "list" => ~ArticlesBusy(req[r]) /\ ~ArticlesSaving(req[r])
    BY <2>1, <2>3 DEF ArticlesPlaced, ArticlesBusy, ArticlesSaving
  <2>5. Articles!Go(<<"list", None>>, [req EXCEPT ![r] = None],
                    Articles!Mount(<<"list", None>>))
    BY <1>3, <2>1 DEF Articles!Acted, Articles!Has
  <2> QED BY <1>2, <2>1, <2>2, <2>4, <2>5
<1>4. ASSUME NEW r \in Slots, Articles!Saved(r) PROVE ArticlesFlags'
  <2>1. req[r] # None /\ req[r].kind = "save" /\ req[r].of \in Items \cup {None}
    BY <1>0, <1>4, ArticlesTypes DEF Articles!Saved, Articles!Has, Articles!Free
  <2>2. PICK i \in Items :
          Articles!Go(<<"detail", i>>, [req EXCEPT ![r] = None],
                      Articles!Mount(<<"detail", i>>))
    BY <1>4, <2>1 DEF Articles!Saved
  <2>3. <<"detail", i>> \in Articles!Routes /\ Articles!Page(<<"detail", i>>) = "detail"
    BY DEF Articles!Routes, Articles!Page
  <2>4. ArticlesPlaced(req[r], Articles!Page(ui.route))
    BY DEF ArticlesFlags
  <2>5. Articles!Page(ui.route) = "detail" => ~ArticlesBusy(req[r]) /\ ~ArticlesSaving(req[r])
    BY <2>1, <2>4 DEF ArticlesPlaced, ArticlesBusy, ArticlesSaving
  <2> QED BY <1>2, <2>1, <2>2, <2>3, <2>5
<1> QED BY <1>1, <1>3, <1>4

LEMMA ArticlesLoadFlags ==
    ASSUME ArticlesFlags, NEW r \in Slots, Articles!Loaded(r) \/ Articles!LoadFailed(r)
    PROVE  ArticlesFlags'
<1>1. /\ req[r] # None /\ req[r].kind = "load" /\ Articles!Return(r)
      /\ req[r].of \in Items \cup {None}
  BY ArticlesTypes DEF ArticlesFlags, ArticlesTyped, Typed, Articles!Loaded,
     Articles!LoadFailed, Articles!Has, Articles!Free
<1>2. ~ArticlesBusy(req[r]) /\ ~ArticlesSaving(req[r])
  BY <1>1 DEF ArticlesBusy, ArticlesSaving
<1>3. ui \in Articles!UiType /\ DOMAIN ui = ArticlesHooks
  BY ArticlesDomain DEF ArticlesFlags, ArticlesTyped, Typed
<1>4. SUFFICES /\ ui' \in Articles!UiType /\ ui'.route = ui.route /\ ~ui'.loading
               /\ ui'.actioning = ui.actioning /\ ui'.saveState = ui.saveState
  BY <1>1, <1>2, ArticlesReturns
<1> USE <1>3 DEF Articles!Set, Articles!UiType, ArticlesHooks, Articles!Maybe
<1>5. CASE Articles!LoadFailed(r)
  BY <1>5 DEF Articles!LoadFailed
<1>6. CASE Articles!Loaded(r) /\ Articles!ListLoaded
  <2>1. PICK items \in SUBSET Items : Articles!Set([items |-> items, loading |-> FALSE])
    BY <1>6 DEF Articles!ListLoaded
  <2> QED BY <2>1
<1>7. CASE Articles!Loaded(r) /\ Articles!DetailLoaded(req[r].of)
  <2>1. PICK liked \in BOOLEAN :
          Articles!Set([article |-> req[r].of, liked |-> liked, loading |-> FALSE])
    BY <1>7 DEF Articles!DetailLoaded
  <2> QED BY <1>1, <2>1
<1>8. CASE Articles!Loaded(r) /\ Articles!EditorLoaded(req[r].of)
  BY <1>1, <1>8 DEF Articles!EditorLoaded
<1> HIDE <1>3 DEF Articles!Set, Articles!UiType, ArticlesHooks, Articles!Maybe
<1> QED BY <1>5, <1>6, <1>7, <1>8 DEF Articles!Loaded

(* What the buttons of the detail page send.                               *)
LEMMA ArticlesActFlags ==
    ASSUME ArticlesFlags, Articles!handleLike \/ Articles!handlePin \/ Articles!handleDelete
    PROVE  ArticlesFlags'
<1>0. ui \in Articles!UiType /\ DOMAIN ui = ArticlesHooks
  BY ArticlesDomain DEF ArticlesFlags, ArticlesTyped, Typed
<1>1. ui.article \in Items /\ ui.liked \in BOOLEAN /\ Articles!On("detail")
  BY <1>0 DEF Articles!handleLike, Articles!handlePin, Articles!handleDelete,
     Articles!PinIsOffered, Articles!DeleteIsOffered, Articles!DetailIsOffered,
     Articles!UiType, Articles!Maybe
<1>2. PICK c \in Articles!Request :
        Articles!Act(c) /\ ArticlesBusy(c) /\ ArticlesPlaced(c, "detail")
  <2>1. CASE Articles!handleLike
    <3>1. PICK c \in Articles!Request : Articles!Act(c) /\ c.kind = "like"
      BY <1>1, <2>1, ArticlesKinds DEF Articles!handleLike
    <3> QED BY <3>1, ArticlesKinds DEF ArticlesBusy, ArticlesPlaced, ArticlesSaving
  <2>2. CASE Articles!handlePin
    <3>1. PICK c \in Articles!Request : Articles!Act(c) /\ c.kind = "pin"
      BY <1>1, <2>2, ArticlesKinds DEF Articles!handlePin
    <3> QED BY <3>1, ArticlesKinds DEF ArticlesBusy, ArticlesPlaced, ArticlesSaving
  <2>3. CASE Articles!handleDelete
    <3>1. PICK c \in Articles!Request : Articles!Act(c) /\ c.kind = "delete" /\ c.shown
      BY <1>1, <2>3, ArticlesKinds DEF Articles!handleDelete
    <3> QED BY <3>1, ArticlesKinds DEF ArticlesBusy, ArticlesPlaced, ArticlesSaving
  <2> QED BY <2>1, <2>2, <2>3
<1>3. c.kind \in Articles!Actions
  BY <1>2 DEF ArticlesBusy, Articles!Actions
<1>4. /\ ui' \in Articles!UiType /\ ui'.route = ui.route /\ ui'.loading = ui.loading
      /\ ui'.actioning = c.kind /\ ui'.saveState = ui.saveState
  BY <1>0, <1>2, <1>3 DEF Articles!Act, Articles!Set, Articles!UiType, ArticlesHooks
<1> QED BY <1>1, <1>2, <1>4, ArticlesSends DEF Articles!Act, Articles!On

LEMMA ArticlesActedFlags ==
    ASSUME ArticlesFlags, NEW r \in Slots,
           \/ ~Articles!Has(r, "delete") /\ Articles!Acted(r)
           \/ Articles!ActionFailed(r)
    PROVE  ArticlesFlags'
<1>0. ui \in Articles!UiType /\ DOMAIN ui = ArticlesHooks
      /\ req \in [Slots -> Articles!Request \cup {None}]
  BY ArticlesDomain DEF ArticlesFlags, ArticlesTyped, Typed
<1>1. /\ req[r] # None /\ req[r].kind \in Articles!Actions /\ Articles!Return(r)
      /\ req[r].kind = "like" => req[r].of \in Items /\ req[r].likes \in BOOLEAN
      /\ req[r].kind = "pin" => req[r].of \in Items
  BY <1>0, ArticlesTypes DEF Articles!Acted, Articles!ActionFailed, Articles!Has,
     Articles!Free, Articles!Actions
<1>2. ~ArticlesReads(req[r]) /\ ~ArticlesSaving(req[r])
  BY <1>1 DEF ArticlesReads, ArticlesSaving, Articles!Actions
<1>3. CASE Articles!Set([article |-> req[r].of, liked |-> req[r].likes, actioning |-> None])
           /\ req[r].kind = "like"
  <2>1. /\ ui' \in Articles!UiType /\ ui'.route = ui.route /\ ui'.loading = ui.loading
        /\ ui'.actioning = None /\ ui'.saveState = ui.saveState
    BY <1>0, <1>1, <1>3 DEF Articles!Set, Articles!UiType, ArticlesHooks, Articles!Maybe
  <2> QED BY <1>1, <1>2, <2>1, ArticlesReturns
<1>4. ASSUME NEW liked \in BOOLEAN, req[r].kind = "pin",
             Articles!Set([article |-> req[r].of, liked |-> liked, actioning |-> None])
      PROVE  ArticlesFlags'
  <2>1. /\ ui' \in Articles!UiType /\ ui'.route = ui.route /\ ui'.loading = ui.loading
        /\ ui'.actioning = None /\ ui'.saveState = ui.saveState
    BY <1>0, <1>1, <1>4 DEF Articles!Set, Articles!UiType, ArticlesHooks, Articles!Maybe
  <2> QED BY <1>1, <1>2, <2>1, ArticlesReturns
<1>5. CASE Articles!ActionFailed(r) /\ req[r].kind = "delete" /\ ~req[r].shown
  <2>1. ui' \in Articles!UiType /\ ui' = ui /\ ~ArticlesBusy(req[r])
    BY <1>0, <1>5 DEF Articles!ActionFailed, ArticlesBusy
  <2> QED BY <1>1, <1>2, <2>1, ArticlesReturns
<1>6. CASE Articles!ActionFailed(r) /\ ~(req[r].kind = "delete" /\ ~req[r].shown)
  <2>1. Articles!Set([actioning |-> None, error |-> TRUE])
    BY <1>6 DEF Articles!ActionFailed
  <2>2. /\ ui' \in Articles!UiType /\ ui'.route = ui.route /\ ui'.loading = ui.loading
        /\ ui'.actioning = None /\ ui'.saveState = ui.saveState
    BY <1>0, <2>1 DEF Articles!Set, Articles!UiType, ArticlesHooks
  <2> QED BY <1>1, <1>2, <2>2, ArticlesReturns
<1> QED BY <1>3, <1>4, <1>5, <1>6 DEF Articles!Acted, Articles!Has

LEMMA ArticlesEditFlags ==
    ASSUME ArticlesFlags,
           \/ Articles!Type \/ Articles!handleSave
           \/ \E r \in Slots : Articles!SaveFailed(r)
    PROVE  ArticlesFlags'
<1>0. ui \in Articles!UiType /\ DOMAIN ui = ArticlesHooks
      /\ req \in [Slots -> Articles!Request \cup {None}]
  BY ArticlesDomain DEF ArticlesFlags, ArticlesTyped, Typed
<1>1. CASE Articles!Type
  <2>1. /\ ui' \in Articles!UiType /\ ui'.route = ui.route /\ ui'.loading = ui.loading
        /\ ui'.actioning = ui.actioning /\ ui'.saveState = ui.saveState /\ req' = req
    BY <1>0, <1>1 DEF Articles!Type, Articles!Set, Articles!UiType, ArticlesHooks
  <2> QED BY <2>1, ArticlesQuiet
<1>2. CASE Articles!handleSave
  <2>1. /\ ui' \in Articles!UiType /\ ui'.route = ui.route /\ ui'.loading = ui.loading
        /\ ui'.actioning = ui.actioning
    BY <1>0, <1>2 DEF Articles!handleSave, Articles!Set, Articles!UiType, ArticlesHooks
  <2>2. /\ Articles!id \in Items \cup {None} /\ ui.applied \in BOOLEAN
        /\ ui.form \in Items \cup {None}
    BY <1>0, ArticlesRoutes DEF Articles!id, Articles!UiType, Articles!Maybe
  <2>3. PICK c \in Articles!Request :
          /\ c = [kind |-> "save", of |-> Articles!id, form |-> ui.form,
                  applied |-> ui.applied, shown |-> TRUE]
          /\ Articles!Call(c)
    BY <1>2, <2>2, ArticlesKinds DEF Articles!handleSave
  <2>4. ArticlesSaving(c) /\ ArticlesPlaced(c, Articles!Page(ui.route))
    BY <1>2, <2>3, ArticlesKinds DEF Articles!handleSave, Articles!EditorIsOffered,
       Articles!On, ArticlesSaving, ArticlesPlaced
  <2> QED BY <2>1, <2>3, <2>4, ArticlesSends
<1>3. ASSUME NEW r \in Slots, Articles!SaveFailed(r) PROVE ArticlesFlags'
  <2>1. req[r] # None /\ req[r].kind = "save" /\ Articles!Return(r)
    BY <1>3 DEF Articles!SaveFailed, Articles!Has, Articles!Free
  <2>2. ~ArticlesReads(req[r]) /\ ~ArticlesBusy(req[r])
    BY <2>1 DEF ArticlesReads, ArticlesBusy
  <2>3. CASE req[r].shown
    <3>1. /\ ui' \in Articles!UiType /\ ui'.route = ui.route /\ ui'.loading = ui.loading
          /\ ui'.actioning = ui.actioning /\ ui'.saveState = "idle"
      <4>1. Articles!Set([saveState |-> "idle", error |-> TRUE])
        BY <1>3, <2>3 DEF Articles!SaveFailed
      <4> QED BY <1>0, <4>1 DEF Articles!Set, Articles!UiType, ArticlesHooks
    <3> QED BY <2>1, <2>2, <3>1, ArticlesReturns
  <2>4. CASE ~req[r].shown
    <3>1. ui' \in Articles!UiType /\ ui' = ui /\ ~ArticlesSaving(req[r])
      BY <1>0, <1>3, <2>4 DEF Articles!SaveFailed, ArticlesSaving
    <3> QED BY <2>1, <2>2, <3>1, ArticlesReturns
  <2> QED BY <2>3, <2>4
<1> QED BY <1>1, <1>2, <1>3

LEMMA ArticlesFlagStep == ArticlesFlags /\ Articles!Next => ArticlesFlags'
BY ArticlesVisitFlags, ArticlesLoadFlags, ArticlesActFlags, ArticlesActedFlags,
   ArticlesEditFlags DEF Articles!Next

LEMMA ArticlesFlagInit == Articles!Init => ArticlesFlags
<1> SUFFICES ASSUME Articles!Init PROVE ArticlesFlags
  OBVIOUS
<1>1. PICK route \in Articles!Routes :
        ui = Articles!Mount(route) /\ Articles!Mounted(Articles!LoadCall(route))
  BY DEF Articles!Init, Articles!Routes
<1>2. PICK r \in Slots :
        req = [s \in Slots |-> IF s = r THEN Articles!LoadCall(route) ELSE None]
  BY <1>1 DEF Articles!Mounted
<1>3. ArticlesTyped
  BY <1>1, <1>2, ArticlesFirstTypes DEF ArticlesTyped, Typed
<1>4. \A s \in Slots : ArticlesPlaced(req[s], Articles!Page(ui.route))
  BY <1>2, ArticlesFirstTypes DEF ArticlesPlaced, ArticlesSaving
<1> QED BY <1>1, <1>2, <1>3, <1>4, ArticlesFirstTypes DEF ArticlesFlags, Articles!Mount

LEMMA ArticlesFlagStay == ArticlesFlags /\ UNCHANGED <<ui, req>> => ArticlesFlags'
BY DEF ArticlesFlags, ArticlesTyped, Typed, ArticlesReads, ArticlesBusy, ArticlesSaving,
   ArticlesPlaced, Articles!Page

-----------------------------------------------------------------------------
(* The pages together: on the page that is shown, the hooks and the        *)
(* requests keep their types, and every flag waits for a request.          *)

PageNames == {"ticket", "rendering", "users", "rules", "articles", "tasks", "taskTmpls",
              "repTmpls", "tokens", "senders", "sources", "tickets", "reports", "busy"}

PagesFlags ==
    /\ page \in PageNames /\ active \subseteq Plain
    /\ page = "ticket"    => TicketFlags
    /\ page = "rendering" => RenderingTyped /\ Rendering!FlagsAreReal
    /\ page = "users"     => UsersFlags
    /\ page = "rules"     => RulesFlags
    /\ page = "articles"  => ArticlesFlags
    /\ page = "tasks"     => TasksTyped /\ TaskList!FlagsAreReal
    /\ page = "taskTmpls" => TaskFormsTyped /\ TaskForms!FlagsAreReal
    /\ page = "repTmpls"  => TemplatesTyped /\ ReportForms!FlagsAreReal
    /\ page = "tokens"    => TokensTyped /\ TokenList!FlagsAreReal
    /\ page \in {"senders", "sources"} => PanelTyped /\ PanelFlags
    /\ page = "tickets"   => ListTyped /\ TicketList!FlagsAreReal
    /\ page = "reports"   => ReportsTyped /\ ReportList!FlagsAreReal
    /\ page = "busy"      => BusyTyped /\ ReportBusy!FlagsAreReal

LEMMA PagesFlagInit == Init => PagesFlags
<1> SUFFICES ASSUME Init PROVE PagesFlags
  OBVIOUS
<1>1. page \in PageNames
  BY DEF Init, Starts, PageNames
<1>2. CASE page = "ticket" /\ TicketView!Init /\ active = Plain
  BY <1>1, <1>2, TicketFlagInit DEF PagesFlags
<1>3. CASE page = "users" /\ Accounts!Init
  BY <1>1, <1>3, UsersFlagInit DEF PagesFlags
<1>4. CASE Starts /\ active = Plain
  <2>1. CASE page \in {"rendering", "rules", "articles", "tasks"}
    BY <1>1, <1>4, <2>1, RenderingFlagInit, RulesFlagInit, ArticlesFlagInit, TasksFlagInit
       DEF Starts, PagesFlags
  <2>2. CASE page \in {"taskTmpls", "repTmpls", "tokens", "senders", "sources"}
    BY <1>1, <1>4, <2>2, TaskFormsFlagInit, TemplatesFlagInit, TokensFlagInit,
       SendersFlagInit, SourcesDoAsSenders
       DEF Starts, PagesFlags
  <2>3. CASE page \in {"tickets", "reports", "busy"}
    BY <1>1, <1>4, <2>3, ListFlagInit, ReportsFlagInit, BusyFlagInit DEF Starts, PagesFlags
  <2> QED BY <1>4, <2>1, <2>2, <2>3 DEF Starts
<1> QED BY <1>2, <1>3, <1>4 DEF Init

LEMMA PagesFlagStep == PagesInv /\ PagesFlags /\ Next => PagesFlags'
<1> SUFFICES ASSUME PagesInv, PagesFlags, Next PROVE PagesFlags'
  OBVIOUS
<1>1. page' = page /\ page \in PageNames
  BY DEF Next, PagesFlags
<1>2. ASSUME page = "ticket", TicketView!Next, UNCHANGED active PROVE PagesFlags'
  BY <1>1, <1>2, TicketFlagStep DEF PagesFlags
<1>3. ASSUME page = "users", Accounts!Next PROVE PagesFlags'
  BY <1>1, <1>3, UsersFlagStep DEF PagesFlags
<1>4. ASSUME Moves, UNCHANGED active PROVE PagesFlags'
  <2>1. CASE page \in {"rendering", "rules", "articles", "tasks"}
    BY <1>1, <1>4, <2>1, RenderingTypeStep, RenderingFlagStep, RulesFlagStep,
       ArticlesFlagStep, TasksFlagStep
       DEF Moves, PagesFlags
  <2>2. CASE page \in {"taskTmpls", "repTmpls", "tokens"}
    BY <1>1, <1>4, <2>2, TaskFormsFlagStep, TemplatesFlagStep, TokensFlagStep
       DEF Moves, PagesFlags
  <2>3. CASE page \in {"senders", "sources"}
    <3>1. PanelInv
      BY <2>3 DEF PagesInv
    <3> QED BY <1>1, <1>4, <2>3, <3>1, SendersFlagStep, SourcesFlagStep DEF Moves, PagesFlags
  <2>4. CASE page \in {"tickets", "reports", "busy"}
    BY <1>1, <1>4, <2>4, ListFlags, ReportsFlagStep, BusyFlagStep DEF Moves, PagesFlags
  <2> QED BY <1>4, <2>1, <2>2, <2>3, <2>4 DEF Moves
<1> QED BY <1>2, <1>3, <1>4 DEF Next

LEMMA PagesFlagStay == PagesFlags /\ UNCHANGED vars => PagesFlags'
BY TicketFlagStay, RenderingFlagStay, UsersFlagStay, RulesFlagStay, ArticlesFlagStay,
   TasksFlagStay, TaskFormsFlagStay, TemplatesFlagStay, TokensFlagStay, PanelFlagStay,
   ListFlagStay, ReportsFlagStay, BusyFlagStay
   DEF PagesFlags, vars

LEMMA PagesFlagInvariant == Spec => []PagesFlags
<1>1. PagesInv /\ PagesFlags /\ [Next]_vars => PagesFlags'
  BY PagesFlagStep, PagesFlagStay
<1> QED BY PagesInvariant, PagesFlagInit, <1>1, PTL DEF Spec

(* On every page, whatever is clicked, answered, lost or done by others,   *)
(* each hook keeps to its type and each request in flight is one that the  *)
(* page sends, with what its function still needs to know (src/frontend/   *)
(* src/pages).                                                             *)
THEOREM TypeCorrect == Spec => []TypeOK
<1>1. PagesFlags => TypeOK
  <2> SUFFICES ASSUME PagesFlags PROVE TypeOK
    OBVIOUS
  <2>1. CASE page \in {"ticket", "rendering", "users", "rules", "articles"}
    BY <2>1, RulesFlagsAreReal, ArticlesFlagsAreReal
       DEF PagesFlags, TypeOK, TicketFlags, RenderingTyped, UsersFlags, UsersTyped,
           RulesTyped, ArticlesTyped
  <2>2. CASE page \in {"tasks", "taskTmpls", "repTmpls", "tokens"}
    BY <2>2 DEF PagesFlags, TypeOK, TasksTyped, TaskFormsTyped, TemplatesTyped, TokensTyped
  <2>3. CASE page \in {"senders", "sources", "tickets", "reports", "busy"}
    BY <2>3, SourcesDoAsSenders
       DEF PagesFlags, TypeOK, PanelTyped, ListTyped, ListSlots, ReportsTyped, BusyTyped
  <2> QED BY <2>1, <2>2, <2>3 DEF PagesFlags, PageNames
<1> QED BY PagesFlagInvariant, <1>1, PTL

(* Nothing stays greyed out or loading for ever: on every page, a flag     *)
(* that disables a button or shows a spinner is set only while a request   *)
(* is in flight whose end clears it.                                       *)
THEOREM FlagsOfRequests == Spec => []FlagsAreReal
<1>1. PagesFlags => FlagsAreReal
  <2> SUFFICES ASSUME PagesFlags PROVE FlagsAreReal
    OBVIOUS
  <2>1. CASE page \in {"ticket", "rendering", "users", "rules", "articles"}
    BY <2>1, RulesFlagsAreReal, ArticlesFlagsAreReal
       DEF PagesFlags, FlagsAreReal, TicketFlags, UsersFlags
  <2>2. CASE page \in {"tasks", "taskTmpls", "repTmpls", "tokens"}
    BY <2>2 DEF PagesFlags, FlagsAreReal
  <2>3. CASE page \in {"senders", "sources", "tickets", "reports", "busy"}
    BY <2>3, SourcesDoAsSenders DEF PagesFlags, FlagsAreReal, PanelFlags
  <2> QED BY <2>1, <2>2, <2>3 DEF PagesFlags, PageNames
<1> QED BY PagesFlagInvariant, <1>1, PTL
=============================================================================
