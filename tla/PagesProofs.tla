------------------------------ MODULE PagesProofs ------------------------------
(***************************************************************************)
(* Proofs about the pages for any records, slots and bounds.  Every page   *)
(* has an invariant of its own, which holds while the page is shown.       *)
(***************************************************************************)
EXTENDS Pages, TLAPS

LEMMA NoneIsNoRecord == None \notin Items /\ None \notin Special
BY PagesAssumption

-----------------------------------------------------------------------------
(* The detail page of a ticket.  Whatever detail it holds, waits for or    *)
(* has sent an edit from is a past state of its ticket, told apart by the  *)
(* version.                                                                *)

StoredRow == [version : Nat, basics : Nat, extras : Nat]
PastRow   == [of : Plain, version : Nat, basics : Nat, extrasOf : Plain, extras : Nat]
Sent      == [kind : TicketView!WriteKinds \cup {"load"}, ticket : Plain,
              version : Nat \cup {None}, from : PastRow \cup {None},
              state : {"sent", "done", "refused"}, answer : PastRow \cup {None}]

OfThePast(d, s) ==
    /\ d \in PastRow
    /\ d.version <= s[d.of].version
    /\ d.version = s[d.of].version => d.basics = s[d.of].basics

DetailSound(d, s) == d # None => OfThePast(d, s)

(* An edit carries the version of the detail that its form was made from.  *)
RequestSound(q, s) ==
    q # None =>
        /\ q \in Sent
        /\ DetailSound(q.answer, s)
        /\ q.kind = "edit" => OfThePast(q.from, s) /\ q.version = q.from.version

LiveSound(l, s, t) ==
    l # None =>
        /\ l \in [ticket : Plain, answer : PastRow \cup {None}]
        /\ l.ticket = t
        /\ DetailSound(l.answer, s)

TicketInv ==
    /\ server \in [Plain -> StoredRow]
    /\ id \in Plain
    /\ DetailSound(detail, server)
    /\ DOMAIN req = Slots
    /\ \A r \in Slots : RequestSound(req[r], server)
    /\ LiveSound(live, server, id)

LEMMA PastStaysPast ==
    ASSUME NEW s \in [Plain -> StoredRow], NEW t \in Plain, NEW row \in StoredRow,
           row.version > s[t].version, NEW d, OfThePast(d, s)
    PROVE  OfThePast(d, [s EXCEPT ![t] = row])
BY DEF OfThePast, PastRow, StoredRow

LEMMA ReadIsOfThePast ==
    ASSUME TicketInv, NEW t \in Plain
    PROVE  OfThePast(TicketView!DetailOf(t), server)
BY DEF TicketInv, TicketView!DetailOf, OfThePast, PastRow, StoredRow

(* The page sends a load, or a write of what it shows.                     *)
LEMMA CallSound ==
    ASSUME TicketInv
    PROVE  /\ \A t \in Plain : RequestSound(TicketView!LoadRequest(t), server)
           /\ \A k \in TicketView!WriteKinds : TicketView!Shown =>
                 RequestSound(TicketView!WriteRequest(k, id), server)
<1>1. \A t \in Plain : RequestSound(TicketView!LoadRequest(t), server)
  BY DEF TicketView!LoadRequest, RequestSound, DetailSound, Sent
<1>2. ASSUME NEW k \in TicketView!WriteKinds, TicketView!Shown
      PROVE  RequestSound(TicketView!WriteRequest(k, id), server)
  <2>1. OfThePast(detail, server) /\ detail \in PastRow /\ detail.version \in Nat
    BY <1>2 DEF TicketView!Shown, TicketInv, DetailSound, OfThePast, PastRow
  <2>2. id \in Plain
    BY DEF TicketInv
  <2> QED BY <1>2, <2>1, <2>2 DEF TicketView!WriteRequest, RequestSound, DetailSound, Sent
<1> QED BY <1>1, <1>2

(* A request is sent, ends, or is replaced by another one.                 *)
LEMMA RequestChange ==
    ASSUME TicketInv, NEW r \in Slots, NEW q, req' = [req EXCEPT ![r] = q],
           RequestSound(q, server)
    PROVE  DOMAIN req' = Slots /\ \A o \in Slots : RequestSound(req'[o], server)
BY DEF TicketInv

LEMMA NothingIsSound ==
    \A s, t : RequestSound(None, s) /\ DetailSound(None, s) /\ LiveSound(None, s, t)
BY DEF RequestSound, DetailSound, LiveSound

LEMMA LiveRequestSound ==
    ASSUME NEW s, NEW t \in Plain
    PROVE  LiveSound(TicketView!LiveRequest(t), s, t)
BY DEF TicketView!LiveRequest, LiveSound, DetailSound

LEMMA TicketUserStep ==
    ASSUME TicketInv, TicketView!UserStep
    PROVE  TicketInv'
<1>1. server' = server /\ detail' = detail
  BY DEF TicketView!UserStep, TicketView!Navigate, TicketView!Refresh, TicketView!SubmitAction,
     TicketView!ToggleEdit, TicketView!SubmitEdit, TicketView!SubmitComment,
     TicketView!openOwnershipAction, TicketView!CancelOwnership, TicketView!SubmitOwnership,
     TicketView!UploadReport, TicketView!content
<1>2. id' \in Plain /\ LiveSound(live', server, id')
  <2>1. CASE \E t \in Plain : TicketView!Navigate(t)
    BY <2>1, NothingIsSound, LiveRequestSound DEF TicketView!Navigate
  <2>2. CASE ~\E t \in Plain : TicketView!Navigate(t)
    <3>1. id' = id /\ live' = live
      BY <2>2 DEF TicketView!UserStep, TicketView!Refresh, TicketView!SubmitAction,
         TicketView!ToggleEdit, TicketView!SubmitEdit, TicketView!SubmitComment,
         TicketView!openOwnershipAction, TicketView!CancelOwnership, TicketView!SubmitOwnership,
         TicketView!UploadReport
    <3> QED BY <3>1 DEF TicketInv
  <2> QED BY <2>1, <2>2
<1>3. \/ UNCHANGED req
      \/ \E r \in Slots, t \in Plain : req' = [req EXCEPT ![r] = TicketView!LoadRequest(t)]
      \/ \E r \in Slots, k \in TicketView!WriteKinds :
            TicketView!Shown /\ req' = [req EXCEPT ![r] = TicketView!WriteRequest(k, id)]
  <2>1. id \in Plain
    BY DEF TicketInv
  <2>2. CASE \E t \in Plain : TicketView!Navigate(t)
    BY <2>2 DEF TicketView!Navigate, TicketView!loadDetail
  <2>3. CASE TicketView!Refresh
    BY <2>1, <2>3 DEF TicketView!Refresh, TicketView!loadDetail
  <2>4. CASE \/ TicketView!SubmitAction \/ TicketView!SubmitEdit \/ TicketView!SubmitComment
             \/ TicketView!SubmitOwnership
    <3>1. PICK k \in TicketView!WriteKinds : TicketView!Shown /\ TicketView!Send(k, id)
      BY <2>4 DEF TicketView!SubmitAction, TicketView!SubmitEdit, TicketView!SubmitComment,
         TicketView!SubmitOwnership, TicketView!ActionsEnabled, TicketView!EditEnabled,
         TicketView!CommentEnabled, TicketView!OwnershipEnabled, TicketView!WriteKinds
    <3> QED BY <3>1 DEF TicketView!Send
  <2>5. CASE TicketView!UploadReport
    BY <2>5 DEF TicketView!UploadReport, TicketView!UploadEnabled, TicketView!WriteKinds
  <2>6. CASE \/ TicketView!ToggleEdit \/ TicketView!CancelOwnership
             \/ \E m \in {"assign"} : TicketView!openOwnershipAction(m)
    BY <2>6 DEF TicketView!ToggleEdit, TicketView!CancelOwnership, TicketView!openOwnershipAction
  <2> QED BY <2>2, <2>3, <2>4, <2>5, <2>6 DEF TicketView!UserStep
<1>4. DOMAIN req' = Slots /\ \A o \in Slots : RequestSound(req'[o], server)
  BY <1>3, CallSound, RequestChange DEF TicketInv
<1> QED BY <1>1, <1>2, <1>4 DEF TicketInv

(* The server changes a ticket, whose details elsewhere are then old.      *)
LEMMA ServerChange ==
    ASSUME TicketInv, NEW t \in Plain, NEW row \in StoredRow, row.version > server[t].version,
           server' = [server EXCEPT ![t] = row]
    PROVE  /\ server' \in [Plain -> StoredRow]
           /\ \A d : DetailSound(d, server) => DetailSound(d, server')
           /\ \A q : RequestSound(q, server) => RequestSound(q, server')
           /\ \A l, u : LiveSound(l, server, u) => LiveSound(l, server', u)
<1>1. server \in [Plain -> StoredRow]
  BY DEF TicketInv
<1>2. \A d : OfThePast(d, server) => OfThePast(d, server')
  BY <1>1, PastStaysPast
<1>3. \A d : DetailSound(d, server) => DetailSound(d, server')
  BY <1>2 DEF DetailSound
<1>4. \A q : RequestSound(q, server) => RequestSound(q, server')
  BY <1>2, <1>3 DEF RequestSound
<1>5. \A l, u : LiveSound(l, server, u) => LiveSound(l, server', u)
  BY <1>3 DEF LiveSound
<1> QED BY <1>1, <1>3, <1>4, <1>5

LEMMA TicketServerStep ==
    ASSUME TicketInv, NEW r \in Slots, TicketView!ServerStep(r)
    PROVE  TicketInv'
<1>1. /\ req[r] # None /\ req[r] \in Sent /\ DOMAIN req = Slots
      /\ UNCHANGED <<id, detail, live>>
  BY DEF TicketView!ServerStep, TicketView!ServerReads, TicketView!ServerCommits,
     TicketView!ServerRefuses, TicketView!ServerStoresReport, TicketView!InState,
     TicketView!Free, TicketView!content, TicketInv, RequestSound
<1>2. RequestSound(req[r], server) /\ server \in [Plain -> StoredRow] /\ req[r].ticket \in Plain
  BY <1>1 DEF TicketInv, Sent
<1>3. ASSUME NEW state \in {"done", "refused"}, NEW answer \in PastRow \cup {None}, NEW s,
             DetailSound(answer, s), RequestSound(req[r], s)
      PROVE  RequestSound([req[r] EXCEPT !.state = state, !.answer = answer], s)
  BY <1>1, <1>3 DEF RequestSound, Sent
<1>4. ASSUME NEW state \in {"done", "refused"}, NEW s, RequestSound(req[r], s)
      PROVE  RequestSound([req[r] EXCEPT !.state = state], s)
  BY <1>1, <1>4 DEF RequestSound, Sent
<1>5. CASE TicketView!ServerReads(r)
  <2> DEFINE d == TicketView!DetailOf(req[r].ticket)
             q == [req[r] EXCEPT !.state = "done", !.answer = d]
  <2>1. OfThePast(d, server)
    BY <1>2, ReadIsOfThePast
  <2>2. server' = server /\ req' = [req EXCEPT ![r] = q]
    BY <1>1, <1>5 DEF TicketView!ServerReads
  <2> HIDE DEF d
  <2>3. RequestSound(q, server)
    BY <1>2, <1>3, <2>1 DEF OfThePast, DetailSound
  <2> HIDE DEF q
  <2> QED BY <1>1, <2>2, <2>3, RequestChange DEF TicketInv
<1>6. CASE TicketView!ServerRefuses(r) \/ TicketView!ServerStoresReport(r)
  <2>1. PICK state \in {"done", "refused"} :
          server' = server /\ req' = [req EXCEPT ![r] = [req[r] EXCEPT !.state = state]]
    BY <1>1, <1>6 DEF TicketView!ServerRefuses, TicketView!ServerStoresReport
  <2> DEFINE q == [req[r] EXCEPT !.state = state]
  <2>2. RequestSound(q, server)
    BY <1>2, <1>4
  <2>3. req' = [req EXCEPT ![r] = q]
    BY <2>1
  <2> HIDE DEF q
  <2> QED BY <1>1, <2>1, <2>2, <2>3, RequestChange DEF TicketInv
<1>7. CASE TicketView!ServerCommits(r)
  <2> DEFINE t   == req[r].ticket
             row == TicketView!Written(req[r])
             d   == [of |-> t, version |-> row.version, basics |-> row.basics,
                     extrasOf |-> t, extras |-> row.extras]
             q   == [req[r] EXCEPT !.state = "done", !.answer = d]
  <2>1. server' = [server EXCEPT ![t] = row] /\ req' = [req EXCEPT ![r] = q]
    BY <1>1, <1>7 DEF TicketView!ServerCommits
  <2>2. row \in StoredRow /\ row.version > server[t].version
    BY <1>2 DEF TicketView!Written, StoredRow
  <2> HIDE DEF row
  <2>3. OfThePast(d, server')
    BY <1>2, <2>1, <2>2 DEF OfThePast, PastRow, StoredRow
  <2>4. /\ server' \in [Plain -> StoredRow] /\ DetailSound(detail, server')
        /\ \A o \in Slots : RequestSound(req[o], server')
        /\ LiveSound(live, server', id)
    BY <1>2, <2>1, <2>2, ServerChange DEF TicketInv
  <2> HIDE DEF d
  <2>5. RequestSound(q, server')
    BY <1>3, <2>3, <2>4 DEF OfThePast, DetailSound
  <2> HIDE DEF q
  <2>6. DOMAIN req' = Slots /\ \A o \in Slots : RequestSound(req'[o], server')
    BY <1>1, <2>1, <2>4, <2>5
  <2> QED BY <1>1, <2>4, <2>6 DEF TicketInv
<1> QED BY <1>5, <1>6, <1>7 DEF TicketView!ServerStep

LEMMA OtherWritesStep ==
    ASSUME TicketInv, NEW t \in Plain, NEW parts, TicketView!OtherWrites(t, parts)
    PROVE  TicketInv'
<1> DEFINE next == server[t].version + 1
           row  == [version |-> next,
                    basics  |-> IF "basics" \in parts THEN next ELSE server[t].basics,
                    extras  |-> IF "extras" \in parts THEN next ELSE server[t].extras]
<1>1. server' = [server EXCEPT ![t] = row] /\ UNCHANGED <<id, detail, req, live>>
  BY DEF TicketView!OtherWrites, TicketView!content, TicketInv
<1>2. row \in StoredRow /\ row.version > server[t].version
  BY DEF TicketInv, StoredRow
<1> HIDE DEF row
<1> QED BY <1>1, <1>2, ServerChange DEF TicketInv

(* An answer ends its request or, after an upload, becomes a load.         *)
LEMMA TicketAnswerStep ==
    ASSUME TicketInv, NEW r \in Slots, TicketView!Answer(r) \/ TicketView!LoadFailed(r)
    PROVE  TicketInv'
<1>1. /\ req[r] # None /\ req[r] \in Sent /\ UNCHANGED <<server, id, live>>
  BY DEF TicketView!Answer, TicketView!LoadFailed, TicketView!LoadAnswered,
     TicketView!ActionOrCommentDone, TicketView!OwnershipDone, TicketView!EditDone,
     TicketView!ReportDone, TicketView!WriteFailed, TicketView!InState, TicketView!Free,
     TicketInv, RequestSound
<1>2. detail' = detail \/ detail' = req[r].answer
  BY DEF TicketView!Answer, TicketView!LoadFailed, TicketView!LoadAnswered,
     TicketView!ActionOrCommentDone, TicketView!OwnershipDone, TicketView!EditDone,
     TicketView!ReportDone, TicketView!WriteFailed, TicketView!content
<1>3. DetailSound(detail', server)
  BY <1>1, <1>2 DEF TicketInv, RequestSound
<1>4. \/ req' = [req EXCEPT ![r] = None]
      \/ req' = [req EXCEPT ![r] = TicketView!LoadRequest(req[r].ticket)]
  BY DEF TicketView!Answer, TicketView!LoadFailed, TicketView!LoadAnswered,
     TicketView!ActionOrCommentDone, TicketView!OwnershipDone, TicketView!EditDone,
     TicketView!ReportDone, TicketView!WriteFailed
<1>5. req[r].ticket \in Plain
  BY <1>1 DEF Sent
<1>6. DOMAIN req' = Slots /\ \A o \in Slots : RequestSound(req'[o], server)
  BY <1>4, <1>5, CallSound, NothingIsSound, RequestChange
<1> QED BY <1>1, <1>3, <1>6 DEF TicketInv

LEMMA TicketLiveStep ==
    ASSUME TicketInv,
           \/ TicketView!EventArrives \/ TicketView!ServerReadsLive \/ TicketView!LiveAnswered
           \/ \E gone \in BOOLEAN : TicketView!LiveFailed(gone)
    PROVE  TicketInv'
<1>1. UNCHANGED <<server, id, req>>
  BY DEF TicketView!EventArrives, TicketView!ServerReadsLive, TicketView!LiveAnswered,
     TicketView!LiveFailed
<1>2. DetailSound(detail', server) /\ LiveSound(live', server, id)
  <2>1. CASE TicketView!EventArrives
    <3>1. detail' = detail /\ (live' = None \/ live' = TicketView!LiveRequest(id))
      BY <2>1 DEF TicketView!EventArrives, TicketView!content
    <3> QED BY <3>1, NothingIsSound, LiveRequestSound DEF TicketInv
  <2>2. CASE TicketView!ServerReadsLive
    <3> DEFINE d == TicketView!DetailOf(live.ticket)
    <3>1. detail' = detail /\ live # None /\ live' = [live EXCEPT !.answer = d]
      BY <2>2 DEF TicketView!ServerReadsLive, TicketView!content
    <3>2. live.ticket = id /\ id \in Plain
      BY <3>1 DEF TicketInv, LiveSound
    <3>3. OfThePast(d, server)
      BY <3>2, ReadIsOfThePast
    <3> HIDE DEF d
    <3>4. LiveSound(live', server, id)
      BY <3>1, <3>3 DEF TicketInv, LiveSound, DetailSound, OfThePast
    <3> QED BY <3>1, <3>4 DEF TicketInv
  <2>3. CASE TicketView!LiveAnswered
    <3>1. /\ live # None /\ live.answer # None /\ live' = None
          /\ \/ detail' = detail
             \/ detail # None /\ detail' = TicketView!mergeLiveIntoDetail(detail, live.answer)
      BY <2>3 DEF TicketView!LiveAnswered
    <3>2. OfThePast(live.answer, server)
      BY <3>1 DEF TicketInv, LiveSound, DetailSound
    <3>3. detail # None =>
            OfThePast(TicketView!mergeLiveIntoDetail(detail, live.answer), server)
      BY <3>2 DEF TicketInv, DetailSound, OfThePast, PastRow, TicketView!mergeLiveIntoDetail
    <3> QED BY <3>1, <3>3, NothingIsSound DEF TicketInv, DetailSound
  <2>4. CASE \E gone \in BOOLEAN : TicketView!LiveFailed(gone)
    BY <2>4, NothingIsSound DEF TicketView!LiveFailed, TicketInv
  <2> QED BY <2>1, <2>2, <2>3, <2>4
<1> QED BY <1>1, <1>2 DEF TicketInv

LEMMA TicketInit == TicketView!Init => TicketInv
<1> SUFFICES ASSUME TicketView!Init PROVE TicketInv
  OBVIOUS
<1>1. server \in [Plain -> StoredRow] /\ id \in Plain
  BY DEF TicketView!Init, StoredRow
<1>2. DetailSound(detail, server) /\ LiveSound(live, server, id)
  BY NothingIsSound DEF TicketView!Init
<1>3. \A s : RequestSound(TicketView!LoadRequest(id), s)
  BY <1>1 DEF TicketView!LoadRequest, RequestSound, DetailSound, Sent
<1>4. DOMAIN req = Slots /\ \A r \in Slots : RequestSound(req[r], server)
  BY <1>3, NothingIsSound DEF TicketView!Init
<1> QED BY <1>1, <1>2, <1>4 DEF TicketInv

LEMMA TicketStep == TicketInv /\ TicketView!Next => TicketInv'
BY TicketUserStep, TicketServerStep, OtherWritesStep, TicketAnswerStep, TicketLiveStep
   DEF TicketView!Next

LEMMA TicketStays == TicketInv /\ UNCHANGED <<req, ticketView>> => TicketInv'
BY DEF TicketInv, ticketView

(* What the invariant says of the page.                                    *)
LEMMA TicketSafety ==
    TicketInv => TicketView!EditIsMadeOverCurrentBasics /\ TicketView!LiveRefreshIsForThePage
<1> SUFFICES ASSUME TicketInv
             PROVE  TicketView!EditIsMadeOverCurrentBasics /\ TicketView!LiveRefreshIsForThePage
  OBVIOUS
<1>1. TicketView!EditIsMadeOverCurrentBasics
  BY DEF TicketInv, RequestSound, OfThePast, TicketView!EditIsMadeOverCurrentBasics,
     TicketView!InState, TicketView!Free, TicketView!Accepts
<1>2. TicketView!LiveRefreshIsForThePage
  BY DEF TicketInv, LiveSound, TicketView!LiveRefreshIsForThePage
<1> QED BY <1>1, <1>2

-----------------------------------------------------------------------------
(* Requests end, and at most one request c is sent or sent again.          *)

Sends(c) == DOMAIN req' = Slots /\ \A o \in Slots : req'[o] \in {req[o], None, c}

-----------------------------------------------------------------------------
(* The template page: every template it holds or asks for is one, and a    *)
(* view is open only with its data.                                        *)

RenderingHooks == {"view", "sel", "detail", "draft", "listLoading", "detailLoading",
                   "detailError", "saveLoading", "previewLoading", "pending"}

RenderingCall(q) ==
    q # None =>
        /\ q.kind = "detail" => q.of \in Items /\ q.open \in Rendering!Opened
        /\ q.kind = "status" => q.of \in Items
        /\ q.kind = "save" => q.draft \in Rendering!Draft

RenderingView ==
    /\ ui.sel \in Items \cup {None} /\ ui.detail \in Items \cup {None}
    /\ ui.draft \in Rendering!Draft \cup {None}
    /\ ui.view \in Rendering!Opened => ui.detail \in Items
    /\ ui.view \in {"create", "edit"} => ui.draft \in Rendering!Draft

RenderingInv ==
    /\ DOMAIN ui = RenderingHooks /\ RenderingView
    /\ DOMAIN req = Slots /\ \A r \in Slots : RenderingCall(req[r])

LEMMA RenderingRequests ==
    ASSUME RenderingInv
    PROVE  /\ UNCHANGED req => Sends(None)
           /\ \A r \in Slots : Rendering!Return(r) => Sends(None)
           /\ \A r \in Slots : \A c : Rendering!Await(r, c) => Sends(c)
           /\ \A c : Rendering!Call(c) => Sends(c)
           /\ \A c : Rendering!Again(c) => Sends(c)
BY DEF Sends, RenderingInv, Rendering!Return, Rendering!Await, Rendering!Call,
       Rendering!Again, Rendering!Without

(* What is sent asks for a template, an edit or nothing of the kind.       *)
LEMMA RenderingSent ==
    ASSUME RenderingInv, NEW c, RenderingCall(c), Sends(c)
    PROVE  DOMAIN req' = Slots /\ \A r \in Slots : RenderingCall(req'[r])
<1>1. RenderingCall(None)
  BY DEF RenderingCall
<1> QED BY <1>1 DEF RenderingInv, Sends

LEMMA RenderingDrafts ==
    /\ \A t \in Items : Rendering!buildDraftFromDetail(t) \in Rendering!Draft
    /\ Rendering!createEmptyDraft \in Rendering!Draft
    /\ None \notin Rendering!Draft
BY PagesAssumption
   DEF Rendering!buildDraftFromDetail, Rendering!createEmptyDraft, Rendering!Draft,
       Rendering!TypeOf, Rendering!Types

LEMMA RenderingOpen ==
    ASSUME RenderingInv, NEW v \in Rendering!Opened, NEW t \in Items, Rendering!Open(v, t)
    PROVE  RenderingInv'
<1>1. DOMAIN ui' = RenderingHooks /\ RenderingView'
  BY RenderingDrafts
     DEF RenderingInv, RenderingView, RenderingHooks, Rendering!Open, Rendering!draftFor,
         Rendering!Set, Rendering!Opened
<1>2. \/ Sends(None)
      \/ Sends([kind |-> "detail", of |-> t, open |-> v])
  BY RenderingRequests DEF Rendering!Open
<1>3. RenderingCall(None) /\ RenderingCall([kind |-> "detail", of |-> t, open |-> v])
  BY DEF RenderingCall
<1> QED BY <1>1, <1>2, <1>3, RenderingSent DEF RenderingInv

LEMMA RenderingUser ==
    ASSUME RenderingInv,
           \/ Rendering!ChangeFilter \/ Rendering!openCreate \/ Rendering!handleBack
           \/ Rendering!handleSave \/ Rendering!handleRunPreview
           \/ \E y \in Rendering!Types : Rendering!handleTypeChange(y)
           \/ \E t \in Items : Rendering!handleToggleStatus(t)
    PROVE  RenderingInv'
<1> USE DEF RenderingInv, RenderingView, RenderingHooks, Rendering!Set, RenderingCall,
            Rendering!Opened
<1>1. CASE Rendering!ChangeFilter
  <2>1. Sends(Rendering!ListCall)
    BY <1>1, RenderingRequests DEF Rendering!ChangeFilter
  <2> QED BY <1>1, <2>1, RenderingSent DEF Rendering!ChangeFilter, Rendering!ListCall
<1>2. CASE Rendering!openCreate
  <2>1. Sends(None)
    BY <1>2, RenderingRequests DEF Rendering!openCreate
  <2> QED BY <1>2, <2>1, RenderingSent, RenderingDrafts DEF Rendering!openCreate
<1>3. CASE Rendering!handleBack
  <2>1. Sends(None)
    BY <1>3, RenderingRequests DEF Rendering!handleBack
  <2> QED BY <1>3, <2>1, RenderingSent DEF Rendering!handleBack, Rendering!DetailIsOffered
<1>4. CASE Rendering!handleSave
  <2>1. Sends([kind |-> "save", draft |-> ui.draft]) /\ ui.draft # None
    BY <1>4, RenderingRequests DEF Rendering!handleSave, Rendering!EditorIsOffered
  <2>2. RenderingCall([kind |-> "save", draft |-> ui.draft])
    BY <2>1
  <2> QED BY <1>4, <2>1, <2>2, RenderingSent DEF Rendering!handleSave
<1>5. CASE Rendering!handleRunPreview
  <2>1. Sends([kind |-> "preview"])
    BY <1>5, RenderingRequests DEF Rendering!handleRunPreview
  <2> QED BY <1>5, <2>1, RenderingSent DEF Rendering!handleRunPreview
<1>6. ASSUME NEW y \in Rendering!Types, Rendering!handleTypeChange(y) PROVE RenderingInv'
  <2>1. Sends(None) /\ ui.draft # None
    BY <1>6, RenderingRequests DEF Rendering!handleTypeChange, Rendering!EditorIsOffered
  <2>2. [ui.draft EXCEPT !.type = y] \in Rendering!Draft
    BY <1>6, <2>1 DEF Rendering!Draft
  <2> QED BY <1>6, <2>1, <2>2, RenderingSent DEF Rendering!handleTypeChange
<1>7. ASSUME NEW t \in Items, Rendering!handleToggleStatus(t) PROVE RenderingInv'
  <2>1. Sends([kind |-> "status", of |-> t, shown |-> ui.detail = t])
    BY <1>7, RenderingRequests DEF Rendering!handleToggleStatus
  <2>2. RenderingCall([kind |-> "status", of |-> t, shown |-> ui.detail = t])
    OBVIOUS
  <2> QED BY <1>7, <2>1, <2>2, RenderingSent DEF Rendering!handleToggleStatus
<1> QED BY <1>1, <1>2, <1>3, <1>4, <1>5, <1>6, <1>7

LEMMA RenderingAnswers ==
    ASSUME RenderingInv, NEW r \in Slots,
           \/ Rendering!ListEnds(r) \/ Rendering!Reloaded(r)
           \/ Rendering!DetailAnswered(r) \/ Rendering!DetailFailed(r)
           \/ Rendering!Saved(r) \/ Rendering!Toggled(r) \/ Rendering!WriteFailed(r)
           \/ Rendering!Previewed(r)
    PROVE  RenderingInv'
<1> USE DEF RenderingInv, RenderingView, RenderingHooks, Rendering!Set, Rendering!Opened
<1>1. CASE \/ Rendering!ListEnds(r) \/ Rendering!Reloaded(r) \/ Rendering!DetailFailed(r)
           \/ Rendering!WriteFailed(r) \/ Rendering!Previewed(r)
  <2>1. Sends(None)
    BY <1>1, RenderingRequests DEF Rendering!ListEnds, Rendering!Reloaded, Rendering!DetailFailed,
       Rendering!WriteFailed, Rendering!Previewed
  <2>2. DOMAIN ui' = RenderingHooks /\ RenderingView'
    BY <1>1 DEF Rendering!ListEnds, Rendering!Reloaded, Rendering!DetailFailed,
       Rendering!WriteFailed, Rendering!Previewed
  <2> QED BY <2>1, <2>2, RenderingSent DEF RenderingCall
<1>2. CASE Rendering!DetailAnswered(r)
  <2>1. Sends(None) /\ req[r] # None /\ req[r].kind = "detail"
    BY <1>2, RenderingRequests DEF Rendering!DetailAnswered, Rendering!Has, Rendering!Free
  <2>2. req[r].of \in Items /\ req[r].open \in Rendering!Opened
    BY <2>1 DEF RenderingCall
  <2>3. DOMAIN ui' = RenderingHooks /\ RenderingView'
    BY <1>2, <2>2, RenderingDrafts DEF Rendering!DetailAnswered, Rendering!draftFor
  <2> QED BY <2>1, <2>3, RenderingSent DEF RenderingCall
<1>3. CASE Rendering!Saved(r) \/ Rendering!Toggled(r)
  <2>1. /\ req[r] # None /\ req[r].kind \in {"save", "status"}
        /\ Sends([kind |-> "reload", after |-> req[r].kind])
    BY <1>3, RenderingRequests DEF Rendering!Saved, Rendering!Toggled, Rendering!Has,
       Rendering!Free, Rendering!loadTemplateList
  <2>2. DOMAIN ui' = RenderingHooks /\ RenderingView'
    <3>1. CASE Rendering!Saved(r)
      <4>1. req[r].draft \in Rendering!Draft
        BY <2>1, <3>1 DEF RenderingCall, Rendering!Saved, Rendering!Has
      <4>2. PICK t \in IF req[r].draft.of = None
                        THEN {t \in Items : Rendering!TypeOf(t) = req[r].draft.type}
                        ELSE {req[r].draft.of} :
              Rendering!Set([sel |-> t, detail |-> t, draft |-> Rendering!buildDraftFromDetail(t),
                             view |-> "detail", listLoading |-> TRUE])
        BY <3>1 DEF Rendering!Saved
      <4>3. t \in Items
        BY <4>1, <4>2 DEF Rendering!Draft
      <4> QED BY <4>2, <4>3, RenderingDrafts
    <3>2. CASE Rendering!Toggled(r)
      <4>1. req[r].of \in Items
        BY <2>1, <3>2 DEF RenderingCall, Rendering!Toggled, Rendering!Has
      <4> QED BY <3>2, <4>1 DEF Rendering!Toggled
    <3> QED BY <1>3, <3>1, <3>2
  <2>3. RenderingCall([kind |-> "reload", after |-> req[r].kind])
    BY DEF RenderingCall
  <2> QED BY <2>1, <2>2, <2>3, RenderingSent
<1> QED BY <1>1, <1>2, <1>3

LEMMA RenderingInit == Rendering!Init => RenderingInv
BY DEF Rendering!Init, Rendering!Mounted, Rendering!ListCall, Rendering!Opened,
       RenderingInv, RenderingView, RenderingHooks, RenderingCall

LEMMA RenderingStep == RenderingInv /\ Rendering!Next => RenderingInv'
<1> SUFFICES ASSUME RenderingInv, Rendering!Next PROVE RenderingInv'
  OBVIOUS
<1>1. ASSUME NEW v \in Rendering!Opened, NEW t \in Items, Rendering!OpenFromList(v, t)
      PROVE  RenderingInv'
  BY <1>1, RenderingOpen DEF Rendering!OpenFromList
<1>2. ASSUME NEW v \in Rendering!Opened, Rendering!OpenFromDetail(v) PROVE RenderingInv'
  <2>1. ui.sel \in Items
    BY <1>2 DEF Rendering!OpenFromDetail, RenderingInv, RenderingView
  <2> QED BY <1>2, <2>1, RenderingOpen DEF Rendering!OpenFromDetail
<1> QED BY <1>1, <1>2, RenderingUser, RenderingAnswers DEF Rendering!Next

LEMMA RenderingStays == RenderingInv /\ UNCHANGED <<ui, req>> => RenderingInv'
BY DEF RenderingInv, RenderingView

LEMMA RenderingSafety == RenderingInv => Rendering!ViewHasItsData
BY NoneIsNoRecord, RenderingDrafts
   DEF RenderingInv, RenderingView, Rendering!ViewHasItsData, Rendering!Opened

-----------------------------------------------------------------------------
(* The task page: the detail that is on its way is of the selected task.   *)

TasksHooks == {"items", "hidden", "selected", "task", "loading", "detailLoading", "action"}

TasksCall(q, s) == q # None => (q.kind = "detail" => q.of = s /\ s # None)

TasksInv ==
    /\ DOMAIN ui = TasksHooks /\ TaskList!ShownIsAskedFor
    /\ DOMAIN req = Slots /\ \A r \in Slots : TasksCall(req[r], ui.selected)

LEMMA TasksInit == TaskList!Init => TasksInv
BY DEF TaskList!Init, TaskList!Mounted, TasksInv, TasksHooks, TasksCall,
       TaskList!ShownIsAskedFor

LEMMA TasksTable ==
    ASSUME TasksInv,
           \/ TaskList!Refresh
           \/ \E hidden \in SUBSET Items : TaskList!ChangeFilter(hidden)
           \/ \E t \in Items : TaskList!handleRetry(t)
           \/ \E r \in Slots : \/ TaskList!loadTasks(r) \/ TaskList!Retried(r)
                               \/ TaskList!RetryFailed(r)
    PROVE  TasksInv'
<1> USE DEF TasksInv, TasksHooks, TasksCall, TaskList!Set, TaskList!ShownIsAskedFor,
            TaskList!Call, TaskList!Return, TaskList!Await
<1>1. CASE TaskList!Refresh
  BY <1>1 DEF TaskList!Refresh
<1>2. ASSUME NEW hidden \in SUBSET Items, TaskList!ChangeFilter(hidden) PROVE TasksInv'
  BY <1>2 DEF TaskList!ChangeFilter
<1>3. ASSUME NEW t \in Items, TaskList!handleRetry(t) PROVE TasksInv'
  BY <1>3 DEF TaskList!handleRetry
<1>4. ASSUME NEW r \in Slots, TaskList!loadTasks(r) PROVE TasksInv'
  BY <1>4 DEF TaskList!loadTasks
<1>5. ASSUME NEW r \in Slots, TaskList!Retried(r) PROVE TasksInv'
  BY <1>5 DEF TaskList!Retried
<1>6. ASSUME NEW r \in Slots, TaskList!RetryFailed(r) PROVE TasksInv'
  BY <1>6 DEF TaskList!RetryFailed
<1> QED BY <1>1, <1>2, <1>3, <1>4, <1>5, <1>6

(* A selection sends for its own task and ends the request before it.      *)
LEMMA TasksDrawer ==
    ASSUME TasksInv,
           \/ TaskList!Close
           \/ \E t \in Items : TaskList!Select(t)
           \/ \E r \in Slots : TaskList!loadTaskDetail(r) \/ TaskList!RetryShown(r)
    PROVE  TasksInv'
<1> USE DEF TasksInv, TasksHooks, TasksCall, TaskList!Set, TaskList!ShownIsAskedFor,
            TaskList!Return, TaskList!Without, TaskList!Free
<1>1. CASE TaskList!Close
  BY <1>1 DEF TaskList!Close, TaskList!Cancel
<1>2. ASSUME NEW t \in Items, TaskList!Select(t) PROVE TasksInv'
  BY <1>2, NoneIsNoRecord DEF TaskList!Select, TaskList!Again, TaskList!DetailCall
<1>3. ASSUME NEW r \in Slots, TaskList!loadTaskDetail(r) PROVE TasksInv'
  BY <1>3 DEF TaskList!loadTaskDetail, TaskList!Has
<1>4. ASSUME NEW r \in Slots, TaskList!RetryShown(r) PROVE TasksInv'
  <2>1. CASE req[r].retried = ui.selected
    BY <1>4, <2>1 DEF TaskList!RetryShown
  <2>2. CASE req[r].retried # ui.selected
    <3>1. req[r].retried # None
      BY <1>4 DEF TaskList!RetryShown
    <3>2. ui'.selected = req[r].retried /\ ui'.task = ui.task /\ ui'.detailLoading
      BY <1>4, <2>2 DEF TaskList!RetryShown
    <3>3. DOMAIN ui' = TasksHooks
      BY <1>4, <2>2 DEF TaskList!RetryShown
    <3>4. req' = [TaskList!Without({"detail"}) EXCEPT ![r] = TaskList!DetailCall(req[r].retried)]
      BY <1>4, <2>2 DEF TaskList!RetryShown
    <3>5. DOMAIN req' = Slots /\ \A s \in Slots : TasksCall(req'[s], req[r].retried)
      BY <3>1, <3>4 DEF TaskList!DetailCall
    <3> QED BY <3>1, <3>2, <3>3, <3>5
  <2> QED BY <2>1, <2>2
<1> QED BY <1>1, <1>2, <1>3, <1>4

LEMMA TasksStep == TasksInv /\ TaskList!Next => TasksInv'
BY TasksTable, TasksDrawer DEF TaskList!Next

LEMMA TasksStays == TasksInv /\ UNCHANGED <<ui, req>> => TasksInv'
BY DEF TasksInv, TaskList!ShownIsAskedFor

-----------------------------------------------------------------------------
(* The ticket list.  Only the load with the latest number counts; rows are *)
(* added for the filter that is set; and the drawer shows its row, unless  *)
(* a load is on its way or failed and left nothing to scroll for.          *)

ListHooks == {"items", "filter", "hasMore", "loading", "loadingMore", "loadError",
              "poolsLoading", "selected", "last"}
ListSlots == Slots \cup {Third}

Loads(r) == req[r] # None /\ req[r].kind = "list"
Adds(r)  == req[r] # None /\ req[r].kind = "more"
Reads(r) == req[r] # None /\ req[r].kind = "live"

ListDrawer == ui.selected = None \/ /\ ui.selected \in Plain \X TicketList!Claims
                                    /\ ui.selected[2] # None

ListRows ==
    /\ DOMAIN ui.items = Plain
    /\ \A t \in Plain : ui.items[t] \in TicketList!Claims \cup {None}
    /\ ~ui.loading => \A t \in Plain : ui.items[t] \in ui.filter \cup {None}
    /\ ui.filter \in TicketList!Filters /\ ui.last \in Plain \cup {None}

ListLoads ==
    /\ DOMAIN req = ListSlots
    /\ \A r \in ListSlots : Loads(r) => ui.loading
    /\ \A r, s \in ListSlots : Loads(r) /\ Loads(s) => r = s
    /\ \A r \in ListSlots : Adds(r) => ~ui.loading /\ req[r].filter = ui.filter
    /\ \A r \in ListSlots : Reads(r) => req[r].of \in Plain

ListSynced ==
    \/ ui.selected = None \/ ui.loading
    \/ ui.items[ui.selected[1]] = ui.selected[2]
    \/ ui.loadError /\ ~ui.hasMore /\ \A r \in ListSlots : ~Adds(r)

ListInv ==
    /\ DOMAIN ui = ListHooks /\ ListDrawer /\ ListRows
    /\ ListLoads /\ ListSynced

LEMMA ListInit == TicketList!Init => ListInv
<1> SUFFICES ASSUME TicketList!Init PROVE ListInv
  OBVIOUS
<1>1. /\ DOMAIN ui = ListHooks /\ ui.items = [t \in Plain |-> None]
      /\ ui.filter \in TicketList!Filters /\ ui.loading /\ ui.selected = None
      /\ ui.last = None
  BY DEF TicketList!Init, TicketList!NoRows, ListHooks
<1>2. PICK r \in ListSlots, p \in ListSlots :
        req = [s \in ListSlots |-> IF s = r THEN [kind |-> "list"]
                                   ELSE IF s = p THEN [kind |-> "pools"] ELSE None]
  BY DEF TicketList!Init, ListSlots
<1>3. DOMAIN req = ListSlots /\ \A s \in ListSlots : ~Adds(s) /\ ~Reads(s) /\ (Loads(s) => s = r)
  BY <1>2 DEF Adds, Loads, Reads
<1> QED BY <1>1, <1>3 DEF ListInv, ListDrawer, ListRows, ListLoads, ListSynced

(* A change of the filter leaves the new load and none of the old ones.    *)
LEMMA ListFilter ==
    ASSUME ListInv, NEW f \in TicketList!Filters, TicketList!ChangeFilter(f)
    PROVE  ListInv'
<1>1. DOMAIN ui' = ListHooks /\ ListDrawer' /\ ListRows' /\ ui'.loading /\ ListSynced'
  BY DEF TicketList!ChangeFilter, TicketList!Set, ListInv, ListHooks, ListDrawer, ListRows,
         ListSynced
<1>2. PICK r \in ListSlots : \E l \in ListSlots \ {r} :
        req' = [s \in ListSlots |->
                  IF s = r THEN [kind |-> "list"]
                  ELSE IF s = l /\ ui.last # None THEN [kind |-> "live", of |-> ui.last]
                  ELSE TicketList!Without({"list", "more", "live"})[s]]
  BY DEF TicketList!ChangeFilter, ListSlots
<1>3. DOMAIN req' = ListSlots /\ \A s \in ListSlots : ~Adds(s)' /\ (Loads(s)' => s = r)
  BY <1>2 DEF Adds, Loads, TicketList!Without, TicketList!Free, ListSlots
<1>4. \A s \in ListSlots : Reads(s)' => req'[s].of \in Plain
  BY <1>2 DEF Reads, TicketList!Without, TicketList!Free, ListSlots, ListInv, ListLoads, ListRows
<1>5. ListLoads'
  BY <1>1, <1>3, <1>4 DEF ListLoads
<1> QED BY <1>1, <1>5 DEF ListInv

(* A load ends: its rows are of the filter, and the drawer follows them.   *)
LEMMA ListLoaded ==
    ASSUME ListInv, NEW r \in ListSlots, TicketList!ListAnswered(r) \/ TicketList!ListFailed(r)
    PROVE  ListInv'
<1>1. /\ DOMAIN req' = ListSlots /\ req'[r] = None
      /\ \A s \in ListSlots \ {r} : req'[s] = req[s]
      /\ req[r] # None /\ Loads(r)
  BY DEF TicketList!ListAnswered, TicketList!ListFailed, TicketList!Return, TicketList!Has,
         TicketList!Free, ListInv, ListLoads, Loads, ListSlots
<1>2. \A s \in ListSlots : ~Loads(s)' /\ ~Adds(s)'
  BY <1>1 DEF ListInv, ListLoads, Loads, Adds
<1>3. ListLoads'
  BY <1>1, <1>2 DEF ListInv, ListLoads, Reads
<1>4. CASE TicketList!ListAnswered(r)
  <2>1. PICK rows \in [Plain -> ui.filter \cup {None}], more \in BOOLEAN :
          TicketList!Set([items |-> rows, hasMore |-> more, loading |-> FALSE,
                 selected |-> IF ui.selected = None \/ rows[ui.selected[1]] = None THEN None
                              ELSE <<ui.selected[1], rows[ui.selected[1]]>>])
    BY <1>4 DEF TicketList!ListAnswered, TicketList!listQuery
  <2>2. /\ DOMAIN ui' = ListHooks /\ ui'.items = rows /\ ui'.filter = ui.filter
        /\ ui'.last = ui.last
        /\ ui'.selected = IF ui.selected = None \/ rows[ui.selected[1]] = None THEN None
                          ELSE <<ui.selected[1], rows[ui.selected[1]]>>
    BY <2>1 DEF TicketList!Set, ListInv, ListHooks
  <2>3. ListRows'
    BY <2>2 DEF ListInv, ListRows, TicketList!Filters, TicketList!Claims
  <2>4. ListDrawer' /\ ListSynced'
    BY <2>2, <2>3 DEF ListInv, ListDrawer, ListRows, ListSynced
  <2> QED BY <1>3, <2>2, <2>3, <2>4 DEF ListInv
<1>5. CASE TicketList!ListFailed(r)
  BY <1>2, <1>3, <1>5 DEF TicketList!ListFailed, TicketList!Set, TicketList!NoRows, ListInv,
     ListHooks, ListDrawer, ListRows, ListSynced
<1> QED BY <1>4, <1>5

(* The rows after those that are there are asked for and answered.         *)
LEMMA ListMore ==
    ASSUME ListInv,
           \/ TicketList!loadMoreTickets
           \/ \E r \in ListSlots : TicketList!MoreAnswered(r) \/ TicketList!MoreFailed(r)
    PROVE  ListInv'
<1>1. CASE TicketList!loadMoreTickets
  <2>1. /\ ~ui.loading /\ ui.hasMore /\ DOMAIN ui' = ListHooks
        /\ ui'.items = ui.items /\ ui'.filter = ui.filter /\ ui'.selected = ui.selected
        /\ ui'.loading = ui.loading /\ ui'.hasMore = ui.hasMore /\ ui'.last = ui.last
    BY <1>1 DEF TicketList!loadMoreTickets, TicketList!handleTableScroll, TicketList!Set,
       ListInv, ListHooks
  <2>2. ListDrawer' /\ ListRows'
    BY <2>1 DEF ListInv, ListDrawer, ListRows
  <2>3. ListLoads'
    BY <1>1, <2>1 DEF TicketList!loadMoreTickets, TicketList!Call, TicketList!Free,
       TicketList!listQuery, ListInv, ListLoads, Loads, Adds, Reads, ListSlots
  <2>4. ListSynced'
    BY <2>1 DEF ListInv, ListSynced
  <2> QED BY <2>1, <2>2, <2>3, <2>4 DEF ListInv
<1>2. ASSUME NEW r \in ListSlots, TicketList!MoreAnswered(r) \/ TicketList!MoreFailed(r)
      PROVE  ListInv'
  <2>1. /\ DOMAIN req' = ListSlots /\ req'[r] = None
        /\ \A s \in ListSlots \ {r} : req'[s] = req[s]
        /\ req[r] # None /\ Adds(r)
    BY <1>2 DEF TicketList!MoreAnswered, TicketList!MoreFailed, TicketList!Return,
       TicketList!Has, TicketList!Free, ListInv, ListLoads, Adds, ListSlots
  <2>2. ~ui.loading /\ req[r].filter = ui.filter
    BY <2>1 DEF ListInv, ListLoads
  <2>3. /\ DOMAIN ui' = ListHooks /\ ui'.filter = ui.filter
        /\ ui'.selected = ui.selected /\ ui'.loading = ui.loading /\ ui'.last = ui.last
    BY <1>2 DEF TicketList!MoreAnswered, TicketList!MoreFailed, TicketList!Set, ListInv,
       ListHooks
  <2>4. /\ DOMAIN ui'.items = Plain
        /\ \A t \in Plain : /\ ui.items[t] # None => ui'.items[t] = ui.items[t]
                            /\ ui'.items[t] \in {ui.items[t]} \cup ui.filter \cup {None}
    <3>1. CASE TicketList!MoreAnswered(r)
      <4>1. PICK rows \in [Plain -> ui.filter \cup {None}], more \in BOOLEAN :
              TicketList!Set([items |-> [t \in Plain |-> IF TicketList!Listed(t)
                                                           THEN ui.items[t] ELSE rows[t]],
                              hasMore |-> more, loadingMore |-> FALSE])
        BY <2>2, <3>1 DEF TicketList!MoreAnswered
      <4>2. ui'.items = [t \in Plain |-> IF ui.items[t] # None THEN ui.items[t] ELSE rows[t]]
        BY <4>1 DEF TicketList!Set, TicketList!Listed, ListInv, ListHooks
      <4> QED BY <4>2
    <3>2. CASE TicketList!MoreFailed(r)
      BY <3>2 DEF TicketList!MoreFailed, TicketList!Set, ListInv, ListHooks, ListRows
    <3> QED BY <1>2, <3>1, <3>2
  <2>5. ListDrawer' /\ ListRows'
    BY <2>2, <2>3, <2>4
       DEF ListInv, ListDrawer, ListRows, TicketList!Filters, TicketList!Claims
  <2>6. ListLoads'
    BY <2>1, <2>3 DEF ListInv, ListLoads, Loads, Adds, Reads
  <2>7. ListSynced'
    <3>1. ui.selected = None \/ ui.items[ui.selected[1]] = ui.selected[2]
      BY <2>1, <2>2 DEF ListInv, ListSynced
    <3> QED BY <2>3, <2>4, <3>1 DEF ListInv, ListDrawer, ListSynced
  <2> QED BY <2>3, <2>5, <2>6, <2>7 DEF ListInv
<1> QED BY <1>1, <1>2

(* What a step that neither loads nor adds leaves to show.                 *)
LEMMA ListElse ==
    ASSUME ListInv, DOMAIN req' = ListSlots,
           \A s \in ListSlots : Loads(s)' \/ Adds(s)' => req'[s] = req[s],
           \A s \in ListSlots : Reads(s)' => req'[s].of \in Plain,
           DOMAIN ui' = ListHooks, ui'.loading = ui.loading, ui'.filter = ui.filter,
           ui'.hasMore = ui.hasMore, ui'.loadError = ui.loadError
    PROVE  /\ ListLoads'
           /\ (/\ ui'.items = ui.items /\ ui'.selected = ui.selected
               /\ ui'.last \in Plain \cup {None}) => ListInv'
<1>1. \A s \in ListSlots : (Loads(s)' => Loads(s)) /\ (Adds(s)' => Adds(s))
  BY DEF Loads, Adds
<1>2. ListLoads'
  BY <1>1 DEF ListInv, ListLoads, Loads, Adds
<1>3. ASSUME ui'.items = ui.items, ui'.selected = ui.selected,
             ui'.last \in Plain \cup {None}
      PROVE  ListInv'
  BY <1>1, <1>2, <1>3 DEF ListInv, ListDrawer, ListRows, ListSynced
<1> QED BY <1>2, <1>3

LEMMA ListReplaced ==
    ASSUME ListInv, NEW t \in Plain,
           NEW claim \in (TicketList!Claims \cap ui.filter) \cup {None},
           TicketList!Replace(t, claim),
           \A s \in ListSlots : Adds(s)' => Adds(s)
    PROVE  DOMAIN ui' = ListHooks /\ ListDrawer' /\ ListRows' /\ ListSynced'
<1>1. /\ DOMAIN ui' = ListHooks /\ ui'.loading = ui.loading /\ ui'.filter = ui.filter
      /\ ui'.hasMore = ui.hasMore /\ ui'.loadError = ui.loadError
      /\ ui'.last = ui.last
  BY DEF TicketList!Replace, TicketList!Set, ListInv, ListHooks
<1>2. ui'.items = IF ui.items[t] # None THEN [ui.items EXCEPT ![t] = claim] ELSE ui.items
  BY DEF TicketList!Replace, TicketList!Set, TicketList!Listed, ListInv, ListHooks
<1>3. ui'.selected = IF ui.selected = None THEN None
                     ELSE IF ui.selected[1] # t THEN ui.selected
                     ELSE IF claim = None THEN None ELSE <<t, claim>>
  BY DEF TicketList!Replace, TicketList!Set, ListInv, ListHooks
<1>4. ListRows'
  BY <1>1, <1>2 DEF ListInv, ListRows
<1>5. ListDrawer'
  BY <1>3 DEF ListInv, ListDrawer
<1>6. ListSynced'
  <2>1. CASE ui.selected # None /\ ui.selected[1] = t /\ claim # None
             /\ ui.items[t] = ui.selected[2]
    BY <1>2, <1>3, <2>1 DEF ListInv, ListDrawer, ListRows, ListSynced
  <2>2. CASE ui.selected # None /\ ui.selected[1] # t
             /\ ui.items[ui.selected[1]] = ui.selected[2]
    BY <1>2, <1>3, <2>2 DEF ListInv, ListDrawer, ListRows, ListSynced
  <2> QED BY <1>1, <1>3, <2>1, <2>2 DEF ListInv, ListSynced
<1> QED BY <1>1, <1>4, <1>5, <1>6

(* Live changes, the pool totals and the drawer.                           *)
LEMMA ListLive ==
    ASSUME ListInv, NEW r \in ListSlots,
           \/ TicketList!LiveAnswered(r) \/ TicketList!LiveRefused(r)
           \/ TicketList!loadPoolTotals(r)
    PROVE  ListInv'
<1>1. DOMAIN req' = ListSlots /\ \A s \in ListSlots : req'[s] \in {req[s], None}
  BY DEF TicketList!LiveAnswered, TicketList!LiveRefused, TicketList!loadPoolTotals,
         TicketList!Return, ListInv, ListLoads, ListSlots
<1>2. \A s \in ListSlots : Loads(s)' \/ Adds(s)' => req'[s] = req[s]
  BY <1>1 DEF Loads, Adds
<1>3. \A s \in ListSlots : Adds(s)' => Adds(s)
  BY <1>1 DEF Adds
<1>4. \A s \in ListSlots : Reads(s)' => req'[s].of \in Plain
  BY <1>1 DEF Reads, ListInv, ListLoads
<1>5. ASSUME NEW claim \in (TicketList!Claims \cap ui.filter) \cup {None},
             Reads(r), TicketList!Replace(req[r].of, claim)
      PROVE  ListInv'
  <2>1. DOMAIN ui' = ListHooks /\ ListDrawer' /\ ListRows' /\ ListSynced'
    BY <1>3, <1>5, ListReplaced DEF ListInv, ListLoads
  <2>2. /\ ui'.loading = ui.loading /\ ui'.filter = ui.filter
        /\ ui'.hasMore = ui.hasMore /\ ui'.loadError = ui.loadError
    BY <1>5 DEF TicketList!Replace, TicketList!Set, ListInv, ListHooks
  <2>3. ListLoads'
    BY <1>1, <1>2, <1>4, <2>1, <2>2, ListElse
  <2> QED BY <2>1, <2>3 DEF ListInv
<1>6. CASE TicketList!LiveAnswered(r)
  <2>1. Reads(r)
    BY <1>6 DEF TicketList!LiveAnswered, TicketList!Has, TicketList!Free, Reads
  <2> QED BY <1>5, <1>6, <2>1 DEF TicketList!LiveAnswered, TicketList!ticketMatchesFilters
<1>7. CASE TicketList!LiveRefused(r) /\ TicketList!Replace(req[r].of, None)
  <2>1. Reads(r)
    BY <1>7 DEF TicketList!LiveRefused, TicketList!Has, TicketList!Free, Reads
  <2> QED BY <1>5, <1>7, <2>1
<1>8. CASE TicketList!loadPoolTotals(r) \/ UNCHANGED ui
  <2>1. /\ DOMAIN ui' = ListHooks /\ ui'.loading = ui.loading /\ ui'.filter = ui.filter
        /\ ui'.hasMore = ui.hasMore /\ ui'.loadError = ui.loadError
        /\ ui'.items = ui.items /\ ui'.selected = ui.selected /\ ui'.last = ui.last
    BY <1>8 DEF TicketList!loadPoolTotals, TicketList!Set, ListInv, ListHooks
  <2> QED BY <1>1, <1>2, <1>4, <2>1, ListElse DEF ListInv, ListRows
<1> QED BY <1>6, <1>7, <1>8 DEF TicketList!LiveRefused

LEMMA ListEvent ==
    ASSUME ListInv, NEW t \in Plain, TicketList!EventArrives(t)
    PROVE  ListInv'
<1>1. PICK l \in ListSlots, p \in ListSlots :
        req' = [TicketList!Without({"live"}) EXCEPT ![l] = [kind |-> "live", of |-> t],
                                                    ![p] = [kind |-> "pools"]]
  BY DEF TicketList!EventArrives, ListSlots
<1>2. DOMAIN req' = ListSlots
  BY <1>1 DEF TicketList!Without, ListSlots
<1>3. \A s \in ListSlots : req'[s] \in {req[s], None, [kind |-> "live", of |-> t],
                                        [kind |-> "pools"]}
  BY <1>1 DEF TicketList!Without, ListSlots
<1>4. \A s \in ListSlots : Loads(s)' \/ Adds(s)' => req'[s] = req[s]
  BY <1>3 DEF Loads, Adds
<1>5. \A s \in ListSlots : Reads(s)' => req'[s].of \in Plain
  BY <1>3 DEF Reads, ListInv, ListLoads
<1>6. /\ DOMAIN ui' = ListHooks /\ ui'.loading = ui.loading /\ ui'.filter = ui.filter
      /\ ui'.hasMore = ui.hasMore /\ ui'.loadError = ui.loadError
      /\ ui'.items = ui.items /\ ui'.selected = ui.selected /\ ui'.last = t
  BY DEF TicketList!EventArrives, TicketList!Set, ListInv, ListHooks
<1> QED BY <1>2, <1>4, <1>5, <1>6, ListElse

LEMMA ListOpen ==
    ASSUME ListInv, TicketList!Close \/ \E t \in Plain : TicketList!Open(t)
    PROVE  ListInv'
<1>1. /\ DOMAIN ui' = ListHooks /\ ui'.loading = ui.loading /\ ui'.filter = ui.filter
      /\ ui'.hasMore = ui.hasMore /\ ui'.loadError = ui.loadError
      /\ ui'.items = ui.items /\ ui'.last = ui.last /\ req' = req
  BY DEF TicketList!Close, TicketList!Open, TicketList!Set, ListInv, ListHooks
<1>2. ListLoads' /\ ListRows'
  BY <1>1 DEF ListInv, ListLoads, ListRows, Loads, Adds, Reads
<1>3. CASE TicketList!Close
  <2>1. ui'.selected = None
    BY <1>3 DEF TicketList!Close, TicketList!Set, ListInv, ListHooks
  <2> QED BY <1>1, <1>2, <2>1 DEF ListInv, ListDrawer, ListSynced
<1>4. ASSUME NEW t \in Plain, TicketList!Open(t) PROVE ListInv'
  <2>1. ui'.selected = <<t, ui.items[t]>> /\ ui.items[t] # None
    BY <1>4 DEF TicketList!Open, TicketList!RowIsOffered, TicketList!Listed, TicketList!Row,
       TicketList!Set, ListInv, ListHooks
  <2>2. ListDrawer' /\ ListSynced'
    BY <1>1, <2>1 DEF ListInv, ListRows, ListDrawer, ListSynced
  <2> QED BY <1>1, <1>2, <2>2 DEF ListInv
<1> QED BY <1>3, <1>4

LEMMA ListStep == ListInv /\ TicketList!Next => ListInv'
BY ListFilter, ListLoaded, ListMore, ListLive, ListEvent, ListOpen
   DEF TicketList!Next, ListSlots

LEMMA ListStays == ListInv /\ UNCHANGED <<ui, req>> => ListInv'
BY DEF ListInv, ListDrawer, ListRows, ListLoads, ListSynced, Loads, Adds, Reads

LEMMA ListSafety ==
    ListInv => TicketList!ShownIsAskedFor /\ TicketList!DrawerShowsTheRow
<1> SUFFICES ASSUME ListInv
             PROVE  TicketList!ShownIsAskedFor /\ TicketList!DrawerShowsTheRow
  OBVIOUS
<1>1. TicketList!ShownIsAskedFor
  BY DEF ListInv, ListRows, TicketList!ShownIsAskedFor, TicketList!Listed
<1>2. TicketList!DrawerShowsTheRow
  BY DEF ListInv, ListDrawer, ListSynced, TicketList!DrawerShowsTheRow, TicketList!Row
<1> QED BY <1>1, <1>2

-----------------------------------------------------------------------------
(* The reports page, for several reports and for several requests.  What a *)
(* lookup is about is the report that is selected, unless the effects that *)
(* look it up again are still due.                                         *)

ReportHooks == {"items", "hidden", "sel", "mode", "url", "nav", "due", "loading", "saving",
                "ticket", "upload", "uploadAsks", "context", "contextAsks"}

Chosen == IF ui.sel \in ui.items THEN ui.sel ELSE None

ContextSettled ==
    /\ ui.contextAsks \in {None, Chosen}
    /\ ui.contextAsks = None /\ ui.context # None => ui.context = Chosen

UploadSettled == ui.mode = "create" /\ ui.upload # None /\ ~ui.uploadAsks => ui.upload = "its"

ReportsInv ==
    /\ DOMAIN ui = ReportHooks
    /\ ui.due \cap {"items", "sel"} # {} \/ ContextSettled
    /\ ui.due \cap {"ticket", "mode"} # {} \/ UploadSettled

(* An event that comes when no effect is due makes one due, or leaves what *)
(* the effect depends on and brings at most the answer of its lookup.      *)
KeepsContext ==
    \/ ui'.due \cap {"items", "sel"} # {}
    \/ /\ ui'.sel = ui.sel /\ ui'.items = ui.items
       /\ \/ ui'.contextAsks = ui.contextAsks /\ ui'.context = ui.context
          \/ ui'.contextAsks = None /\ ui'.context \in {ui.contextAsks, None}

KeepsUpload ==
    \/ ui'.due \cap {"ticket", "mode"} # {}
    \/ /\ ui'.mode = ui.mode
       /\ \/ ui'.upload = ui.upload /\ ui'.uploadAsks = ui.uploadAsks
          \/ ui'.upload \in {"its", None}

ReportEvent == ui.due = {} /\ DOMAIN ui' = ReportHooks /\ KeepsContext /\ KeepsUpload

LEMMA ReportEvents == ReportsInv /\ ReportEvent => ReportsInv'
<1> SUFFICES ASSUME ReportsInv, ReportEvent PROVE ReportsInv'
  OBVIOUS
<1>1. ContextSettled /\ UploadSettled
  BY DEF ReportsInv, ReportEvent
<1>2. ui'.due \cap {"items", "sel"} # {} \/ ContextSettled'
  BY <1>1 DEF ReportEvent, KeepsContext, ContextSettled, Chosen
<1>3. ui'.due \cap {"ticket", "mode"} # {} \/ UploadSettled'
  BY <1>1 DEF ReportEvent, KeepsUpload, UploadSettled
<1> QED BY <1>2, <1>3 DEF ReportsInv, ReportEvent

LEMMA ReportListEffects == ReportsInv /\ ReportList!Effects => ReportsInv'
<1> SUFFICES ASSUME ReportsInv, ReportList!Effects PROVE ReportsInv'
  OBVIOUS
<1>1. /\ DOMAIN ui' = ReportHooks /\ ui'.items = ui.items /\ ui'.ticket = ui.ticket
      /\ ui'.sel = ReportList!Selected.sel /\ ui'.mode = ReportList!Selected.mode
      /\ ui'.due = ReportList!Selected.due
      /\ ui'.contextAsks = ReportList!Lookup[1] /\ ui'.context = ReportList!Lookup[2]
      /\ ui'.uploadAsks = ReportList!UploadLookup[1] /\ ui'.upload = ReportList!UploadLookup[2]
  BY DEF ReportList!Effects, ReportList!Set, ReportsInv, ReportHooks
<1>2. /\ ui'.sel # ui.sel => ui'.due \cap {"items", "sel"} # {}
      /\ ui'.mode # ui.mode => ui'.due \cap {"ticket", "mode"} # {}
  BY <1>1 DEF ReportList!Selected
<1>3. ui'.due \cap {"items", "sel"} # {} \/ ContextSettled'
  <2>1. CASE ReportList!Due({"items", "sel"})
    BY <1>1, <1>2, <2>1 DEF ReportList!Lookup, ReportList!selectedReport, ContextSettled, Chosen
  <2>2. CASE ~ReportList!Due({"items", "sel"})
    BY <1>1, <1>2, <2>2
       DEF ReportList!Lookup, ReportList!Due, ContextSettled, Chosen, ReportsInv
  <2> QED BY <2>1, <2>2
<1>4. ui'.due \cap {"ticket", "mode"} # {} \/ UploadSettled'
  <2>1. CASE ReportList!Due({"ticket", "mode"})
    BY <1>1, <1>2, <2>1 DEF ReportList!UploadLookup, UploadSettled
  <2>2. CASE ~ReportList!Due({"ticket", "mode"})
    BY <1>1, <1>2, <2>2 DEF ReportList!UploadLookup, ReportList!Due, UploadSettled, ReportsInv
  <2> QED BY <2>1, <2>2
<1> QED BY <1>1, <1>3, <1>4 DEF ReportsInv

LEMMA ReportListEvents == ReportsInv /\ ReportList!Next => ReportList!Effects \/ ReportEvent
<1> SUFFICES ASSUME ReportsInv, ReportList!Next PROVE ReportList!Effects \/ ReportEvent
  OBVIOUS
<1> USE DEF ReportsInv, ReportHooks, ReportEvent, KeepsContext, KeepsUpload, ReportList!Settled,
            ReportList!Set
<1>1. CASE \/ ReportList!Routed \/ ReportList!Refresh \/ ReportList!ChangeFilter
           \/ ReportList!handleOpenCreateDrawer \/ ReportList!CloseDrawer
           \/ ReportList!ContextAnswered \/ ReportList!UploadAnswered
  BY <1>1 DEF ReportList!Routed, ReportList!Refresh, ReportList!ChangeFilter, ReportList!handleOpenCreateDrawer,
     ReportList!CloseDrawer, ReportList!ContextAnswered, ReportList!UploadAnswered
<1>2. ASSUME NEW i \in Plain, ReportList!handleOpenDetailDrawer(i) PROVE ReportEvent
  BY <1>2 DEF ReportList!handleOpenDetailDrawer
<1>3. ASSUME NEW given \in BOOLEAN, ReportList!TypeTicket(given) PROVE ReportEvent
  BY <1>3 DEF ReportList!TypeTicket
<1>4. CASE \/ ReportList!handleCreate \/ ReportList!handleUpdate \/ ReportList!handleReplaceFile
           \/ ReportList!handleDelete
  BY <1>4 DEF ReportList!handleCreate, ReportList!handleUpdate, ReportList!handleReplaceFile,
     ReportList!handleDelete, ReportList!Write
<1>5. ASSUME NEW r \in {Third},
             \/ ReportList!ListAnswered(r) \/ ReportList!ListFailed(r) \/ ReportList!WriteFailed(r)
      PROVE  ReportEvent
  <2>1. CASE ReportList!ListAnswered(r)
    <3>1. PICK items \in SUBSET Plain :
            \E sel \in IF (IF req[r].prefers # None THEN req[r].prefers ELSE ui.sel) \in items
                         THEN {IF req[r].prefers # None THEN req[r].prefers ELSE ui.sel}
                         ELSE IF items = {} THEN {None} ELSE items :
              ReportList!Set([items |-> items, sel |-> sel, loading |-> FALSE, saving |-> ReportList!Ends(r),
                     mode |-> IF req[r].op = "create" THEN "detail" ELSE ui.mode,
                     due |-> {"items", "sel"} \cup (IF req[r].op = "create" THEN {"mode"}
                                                                            ELSE {})])
      BY <2>1 DEF ReportList!ListAnswered
    <3>2. /\ DOMAIN ui' = ReportHooks /\ ui'.upload = ui.upload
          /\ ui'.uploadAsks = ui.uploadAsks
          /\ ui'.mode = IF req[r].op = "create" THEN "detail" ELSE ui.mode
          /\ ui'.due = {"items", "sel"} \cup IF req[r].op = "create" THEN {"mode"} ELSE {}
      BY <3>1
    <3> QED BY <2>1, <3>2 DEF ReportList!ListAnswered
  <2>2. CASE ReportList!ListFailed(r)
    BY <2>2 DEF ReportList!ListFailed
  <2>3. CASE ReportList!WriteFailed(r)
    BY <2>3 DEF ReportList!WriteFailed
  <2> QED BY <1>5, <2>1, <2>2, <2>3
<1>6. ASSUME NEW r \in {Third}, ReportList!Written(r) PROVE ReportEvent
  <2>1. CASE req[r].op = "create"
    BY <1>6, <2>1 DEF ReportList!Written
  <2>2. CASE req[r].op = "delete"
    BY <1>6, <2>2 DEF ReportList!Written
  <2>3. CASE req[r].op \notin {"create", "delete"}
    BY <1>6, <2>3 DEF ReportList!Written
  <2> QED BY <2>1, <2>2, <2>3
<1> QED BY <1>1, <1>2, <1>3, <1>4, <1>5, <1>6 DEF ReportList!Next

LEMMA ReportListSafe ==
    /\ ReportList!Init => ReportsInv
    /\ ReportsInv /\ ReportList!Next => ReportsInv'
    /\ ReportsInv => ReportList!ShownIsAskedFor
<1>1. ReportList!Init => ReportsInv
  BY DEF ReportList!Init, ReportList!InitialUi, ReportsInv, ReportHooks, ContextSettled, UploadSettled
<1>2. ReportsInv /\ ReportList!Next => ReportsInv'
  BY ReportEvents, ReportListEffects, ReportListEvents
<1>3. ReportsInv => ReportList!ShownIsAskedFor
  BY DEF ReportList!ShownIsAskedFor, ReportList!Settled, ReportList!selectedReport, Chosen, ContextSettled,
     UploadSettled, ReportsInv
<1> QED BY <1>1, <1>2, <1>3

(* The same with several requests in flight.                               *)
LEMMA ReportBusyEffects == ReportsInv /\ ReportBusy!Effects => ReportsInv'
<1> SUFFICES ASSUME ReportsInv, ReportBusy!Effects PROVE ReportsInv'
  OBVIOUS
<1>1. /\ DOMAIN ui' = ReportHooks /\ ui'.items = ui.items /\ ui'.ticket = ui.ticket
      /\ ui'.sel = ReportBusy!Selected.sel /\ ui'.mode = ReportBusy!Selected.mode
      /\ ui'.due = ReportBusy!Selected.due
      /\ ui'.contextAsks = ReportBusy!Lookup[1] /\ ui'.context = ReportBusy!Lookup[2]
      /\ ui'.uploadAsks = ReportBusy!UploadLookup[1] /\ ui'.upload = ReportBusy!UploadLookup[2]
  BY DEF ReportBusy!Effects, ReportBusy!Set, ReportsInv, ReportHooks
<1>2. /\ ui'.sel # ui.sel => ui'.due \cap {"items", "sel"} # {}
      /\ ui'.mode # ui.mode => ui'.due \cap {"ticket", "mode"} # {}
  BY <1>1 DEF ReportBusy!Selected
<1>3. ui'.due \cap {"items", "sel"} # {} \/ ContextSettled'
  <2>1. CASE ReportBusy!Due({"items", "sel"})
    BY <1>1, <1>2, <2>1 DEF ReportBusy!Lookup, ReportBusy!selectedReport, ContextSettled, Chosen
  <2>2. CASE ~ReportBusy!Due({"items", "sel"})
    BY <1>1, <1>2, <2>2
       DEF ReportBusy!Lookup, ReportBusy!Due, ContextSettled, Chosen, ReportsInv
  <2> QED BY <2>1, <2>2
<1>4. ui'.due \cap {"ticket", "mode"} # {} \/ UploadSettled'
  <2>1. CASE ReportBusy!Due({"ticket", "mode"})
    BY <1>1, <1>2, <2>1 DEF ReportBusy!UploadLookup, UploadSettled
  <2>2. CASE ~ReportBusy!Due({"ticket", "mode"})
    BY <1>1, <1>2, <2>2 DEF ReportBusy!UploadLookup, ReportBusy!Due, UploadSettled, ReportsInv
  <2> QED BY <2>1, <2>2
<1> QED BY <1>1, <1>3, <1>4 DEF ReportsInv

LEMMA ReportBusyEvents == ReportsInv /\ ReportBusy!Next => ReportBusy!Effects \/ ReportEvent
<1> SUFFICES ASSUME ReportsInv, ReportBusy!Next PROVE ReportBusy!Effects \/ ReportEvent
  OBVIOUS
<1> USE DEF ReportsInv, ReportHooks, ReportEvent, KeepsContext, KeepsUpload, ReportBusy!Settled,
            ReportBusy!Set
<1>1. CASE \/ ReportBusy!Routed \/ ReportBusy!Refresh \/ ReportBusy!ChangeFilter
           \/ ReportBusy!handleOpenCreateDrawer \/ ReportBusy!CloseDrawer
           \/ ReportBusy!ContextAnswered \/ ReportBusy!UploadAnswered
  BY <1>1 DEF ReportBusy!Routed, ReportBusy!Refresh, ReportBusy!ChangeFilter, ReportBusy!handleOpenCreateDrawer,
     ReportBusy!CloseDrawer, ReportBusy!ContextAnswered, ReportBusy!UploadAnswered
<1>2. ASSUME NEW i \in Special, ReportBusy!handleOpenDetailDrawer(i) PROVE ReportEvent
  BY <1>2 DEF ReportBusy!handleOpenDetailDrawer
<1>3. ASSUME NEW given \in BOOLEAN, ReportBusy!TypeTicket(given) PROVE ReportEvent
  BY <1>3 DEF ReportBusy!TypeTicket
<1>4. CASE \/ ReportBusy!handleCreate \/ ReportBusy!handleUpdate \/ ReportBusy!handleReplaceFile
           \/ ReportBusy!handleDelete
  BY <1>4 DEF ReportBusy!handleCreate, ReportBusy!handleUpdate, ReportBusy!handleReplaceFile,
     ReportBusy!handleDelete, ReportBusy!Write
<1>5. ASSUME NEW r \in Slots,
             \/ ReportBusy!ListAnswered(r) \/ ReportBusy!ListFailed(r) \/ ReportBusy!WriteFailed(r)
      PROVE  ReportEvent
  <2>1. CASE ReportBusy!ListAnswered(r)
    <3>1. PICK items \in SUBSET Special :
            \E sel \in IF (IF req[r].prefers # None THEN req[r].prefers ELSE ui.sel) \in items
                         THEN {IF req[r].prefers # None THEN req[r].prefers ELSE ui.sel}
                         ELSE IF items = {} THEN {None} ELSE items :
              ReportBusy!Set([items |-> items, sel |-> sel, loading |-> FALSE, saving |-> ReportBusy!Ends(r),
                     mode |-> IF req[r].op = "create" THEN "detail" ELSE ui.mode,
                     due |-> {"items", "sel"} \cup (IF req[r].op = "create" THEN {"mode"}
                                                                            ELSE {})])
      BY <2>1 DEF ReportBusy!ListAnswered
    <3>2. /\ DOMAIN ui' = ReportHooks /\ ui'.upload = ui.upload
          /\ ui'.uploadAsks = ui.uploadAsks
          /\ ui'.mode = IF req[r].op = "create" THEN "detail" ELSE ui.mode
          /\ ui'.due = {"items", "sel"} \cup IF req[r].op = "create" THEN {"mode"} ELSE {}
      BY <3>1
    <3> QED BY <2>1, <3>2 DEF ReportBusy!ListAnswered
  <2>2. CASE ReportBusy!ListFailed(r)
    BY <2>2 DEF ReportBusy!ListFailed
  <2>3. CASE ReportBusy!WriteFailed(r)
    BY <2>3 DEF ReportBusy!WriteFailed
  <2> QED BY <1>5, <2>1, <2>2, <2>3
<1>6. ASSUME NEW r \in Slots, ReportBusy!Written(r) PROVE ReportEvent
  <2>1. CASE req[r].op = "create"
    BY <1>6, <2>1 DEF ReportBusy!Written
  <2>2. CASE req[r].op = "delete"
    BY <1>6, <2>2 DEF ReportBusy!Written
  <2>3. CASE req[r].op \notin {"create", "delete"}
    BY <1>6, <2>3 DEF ReportBusy!Written
  <2> QED BY <2>1, <2>2, <2>3
<1> QED BY <1>1, <1>2, <1>3, <1>4, <1>5, <1>6 DEF ReportBusy!Next

LEMMA ReportBusySafe ==
    /\ ReportBusy!Init => ReportsInv
    /\ ReportsInv /\ ReportBusy!Next => ReportsInv'
    /\ ReportsInv => ReportBusy!ShownIsAskedFor
<1>1. ReportBusy!Init => ReportsInv
  BY DEF ReportBusy!Init, ReportBusy!InitialUi, ReportsInv, ReportHooks, ContextSettled, UploadSettled
<1>2. ReportsInv /\ ReportBusy!Next => ReportsInv'
  BY ReportEvents, ReportBusyEffects, ReportBusyEvents
<1>3. ReportsInv => ReportBusy!ShownIsAskedFor
  BY DEF ReportBusy!ShownIsAskedFor, ReportBusy!Settled, ReportBusy!selectedReport, Chosen, ContextSettled,
     UploadSettled, ReportsInv
<1> QED BY <1>1, <1>2, <1>3

LEMMA ReportsStay == ReportsInv /\ UNCHANGED ui => ReportsInv'
BY DEF ReportsInv, ContextSettled, UploadSettled, Chosen

-----------------------------------------------------------------------------
(* The pages of the event rules.  A load in flight is of the rule in the   *)
(* URL, so what it brings is; and the form, on the page or in a save, has  *)
(* a time rule of its type.                                                *)

RulesHooks == {"route", "loading", "error", "items", "busy", "detail", "form", "bindable",
               "saving", "applied"}

RulesForm(form) ==
    /\ DOMAIN form = {"of", "type", "mode", "binds"}
    /\ form.type \in Rules!EventTypes /\ form.mode \in Rules!Modes(form.type)

RulesPage(u) ==
    /\ DOMAIN u = RulesHooks /\ u.route \in Rules!Routes /\ RulesForm(u.form)
    /\ Rules!Page(u.route) = "edit" /\ u.applied => u.form.of = u.route[2]

RulesSave(q) ==
    /\ DOMAIN q = {"kind", "of", "form", "applied", "shown"}
    /\ q.of \in Items \cup {None} /\ RulesForm(q.form) /\ (q.applied => q.form.of = q.of)

RulesCall(q, i) ==
    q # None => /\ "kind" \in DOMAIN q
                /\ q.kind = "load" => q.of = i
                /\ q.kind = "save" => RulesSave(q)

RulesCalls(calls, i) == DOMAIN calls = Slots /\ \A r \in Slots : RulesCall(calls[r], i)

RulesInv == RulesPage(ui) /\ RulesCalls(req, Rules!id)

LEMMA RulesFirst ==
    ASSUME NEW route \in Rules!Routes
    PROVE  RulesPage(Rules!Mount(route)) /\ Rules!Mount(route).route = route
BY DEF RulesPage, RulesHooks, RulesForm, Rules!Mount, Rules!EmptyForm, Rules!EventTypes,
       Rules!defaultTimeRule, Rules!Modes

(* A step to another URL: the component that stays forgets its load, the   *)
(* one that goes leaves only what still navigates.                         *)
LEMMA RulesGo ==
    ASSUME RulesInv, NEW route \in Rules!Routes, NEW calls,
           DOMAIN calls = Slots, \A s \in Slots : calls[s] \in {req[s], None},
           Rules!Go(route, calls, Rules!Mount(route))
    PROVE  RulesInv'
<1>1. RulesPage(Rules!Mount(route)) /\ Rules!Mount(route).route = route
  BY RulesFirst
<1>2. \A s \in Slots : RulesCall(calls[s], Rules!id)
  BY DEF RulesInv, RulesCalls, RulesCall
<1> DEFINE same == Rules!Page(route) = Rules!Page(ui.route)
           kept == Rules!Kept(same, calls)
<1>3. CASE same /\ route[2] = Rules!id
  <2>1. ui' = [ui EXCEPT !.route = route] /\ req' = calls
    BY <1>3 DEF Rules!Go
  <2>2. ui'.route = route /\ RulesPage(ui')
    BY <1>3, <2>1 DEF RulesInv, RulesPage, RulesHooks, Rules!id
  <2>3. RulesCalls(req', route[2])
    BY <1>2, <1>3, <2>1 DEF RulesCalls
  <2> QED BY <2>2, <2>3 DEF RulesInv, Rules!id
<1>4. \A i : RulesCalls(kept, i)
  <2>1. ASSUME NEW s \in Slots, NEW i PROVE RulesCall(kept[s], i)
    <3>1. RulesCall(Rules!Still(calls[s]), i)
      BY <1>2 DEF Rules!Still, Rules!Navigates, RulesCall, RulesSave
    <3>2. calls[s] # None /\ calls[s].kind # "load" => RulesCall(calls[s], i)
      BY <1>2 DEF RulesCall
    <3>3. RulesCall(None, i)
      BY DEF RulesCall
    <3>4. kept[s] = IF ~same THEN Rules!Still(calls[s])
                    ELSE IF calls[s] # None /\ calls[s].kind = "load" THEN None ELSE calls[s]
      BY DEF Rules!Kept
    <3> QED BY <3>1, <3>2, <3>3, <3>4
  <2>2. DOMAIN kept = Slots
    BY DEF Rules!Kept
  <2> QED BY <2>1, <2>2 DEF RulesCalls
<1>5. CASE ~(same /\ route[2] = Rules!id)
  <2>1. RulesPage(ui') /\ ui'.route = route
    <3>1. \/ ui' = Rules!Mount(route)
          \/ ui' = [ui EXCEPT !.route = route, !.applied = FALSE]
          \/ ui' = [[ui EXCEPT !.route = route, !.applied = FALSE]
                       EXCEPT !.loading = TRUE, !.error = FALSE]
      BY <1>5 DEF Rules!Go
    <3>2. CASE ui' = Rules!Mount(route)
      BY <1>1, <3>2
    <3>3. CASE ui' # Rules!Mount(route)
      BY <3>1, <3>3 DEF RulesInv, RulesPage, RulesHooks
    <3> QED BY <3>2, <3>3
  <2>2. \/ req' = kept
        \/ \E r \in Slots : req' = [kept EXCEPT ![r] = Rules!LoadCall(route)]
    BY <1>5 DEF Rules!Go
  <2>3. RulesCall(Rules!LoadCall(route), route[2])
    BY DEF RulesCall, Rules!LoadCall
  <2>4. RulesCalls(kept, route[2])
    BY <1>4
  <2> HIDE DEF kept
  <2>5. RulesCalls(req', route[2])
    BY <2>2, <2>3, <2>4 DEF RulesCalls
  <2> QED BY <2>1, <2>5 DEF RulesInv, Rules!id
<1> QED BY <1>3, <1>5

(* A step that stays at its URL: a request may be sent or end.             *)
LEMMA RulesSent ==
    ASSUME RulesInv, ui'.route = ui.route, NEW c, RulesCall(c, Rules!id)
    PROVE  /\ UNCHANGED req => RulesCalls(req', Rules!id')
           /\ Rules!Call(c) => RulesCalls(req', Rules!id')
           /\ \A r \in Slots : Rules!Return(r) \/ Rules!Await(r, c) => RulesCalls(req', Rules!id')
<1>1. RulesCall(None, Rules!id) /\ Rules!id' = Rules!id
  BY DEF RulesCall, Rules!id
<1> QED BY <1>1 DEF RulesInv, RulesCalls, Rules!Call, Rules!Return, Rules!Await

LEMMA RulesEnded ==
    ASSUME RulesInv, NEW r \in Slots, Rules!Return(r), ui'.route = ui.route
    PROVE  RulesCalls(req', Rules!id')
BY RulesSent DEF RulesCall

LEMMA RulesLess ==
    ASSUME RulesInv, NEW r \in Slots
    PROVE  /\ DOMAIN [req EXCEPT ![r] = None] = Slots
           /\ \A s \in Slots : [req EXCEPT ![r] = None][s] \in {req[s], None}
BY DEF RulesInv, RulesCalls

LEMMA RulesVisits ==
    ASSUME RulesInv,
           \/ \E route \in Rules!Routes : Rules!Visit(route, Rules!Mount(route))
           \/ \E r \in Slots : Rules!Deleted(r) \/ Rules!Saved(r)
    PROVE  RulesInv'
<1>1. ASSUME NEW route \in Rules!Routes, Rules!Visit(route, Rules!Mount(route))
      PROVE  RulesInv'
  BY <1>1, RulesGo DEF Rules!Visit, RulesInv, RulesCalls
<1>2. ASSUME NEW r \in Slots, Rules!Deleted(r) PROVE RulesInv'
  <2>1. <<"list", None>> \in Rules!Routes
    BY DEF Rules!Routes
  <2>2. Rules!Go(<<"list", None>>, [req EXCEPT ![r] = None], Rules!Mount(<<"list", None>>))
    BY <1>2 DEF Rules!Deleted
  <2> QED BY <2>1, <2>2, RulesLess, RulesGo
<1>3. ASSUME NEW r \in Slots, Rules!Saved(r) PROVE RulesInv'
  <2>1. PICK i \in IF req[r].of = None THEN Items ELSE {req[r].of} :
          Rules!Go(<<"detail", i>>, [req EXCEPT ![r] = None], Rules!Mount(<<"detail", i>>))
    BY <1>3 DEF Rules!Saved
  <2>2. i \in Items
    BY <1>3, <2>1 DEF Rules!Saved, Rules!Has, Rules!Free, RulesInv, RulesCalls, RulesCall,
       RulesSave
  <2>3. <<"detail", i>> \in Rules!Routes
    BY <2>2 DEF Rules!Routes
  <2> QED BY <2>1, <2>3, RulesLess, RulesGo
<1> QED BY <1>1, <1>2, <1>3

(* The loads: what comes is the rule of the URL.                           *)
LEMMA RulesLoads ==
    ASSUME RulesInv, NEW r \in Slots, Rules!Loaded(r) \/ Rules!LoadFailed(r)
    PROVE  RulesInv'
<1> USE DEF Rules!Set, RulesHooks
<1>1. CASE Rules!LoadFailed(r)
  <2>1. RulesPage(ui') /\ ui'.route = ui.route
    BY <1>1 DEF Rules!LoadFailed, RulesInv, RulesPage
  <2> QED BY <1>1, <2>1, RulesEnded DEF Rules!LoadFailed, RulesInv
<1>2. CASE Rules!Loaded(r)
  <2>1. req[r].of = Rules!id
    BY <1>2 DEF Rules!Loaded, Rules!Has, Rules!Free, RulesInv, RulesCalls, RulesCall
  <2>2. RulesPage(ui) /\ Rules!id = ui.route[2]
    BY DEF RulesInv, Rules!id
  <2>3. CASE Rules!ListLoaded
    <3>1. RulesPage(ui') /\ ui'.route = ui.route
      BY <2>2, <2>3 DEF Rules!ListLoaded, RulesPage
    <3> QED BY <1>2, <3>1, RulesEnded DEF Rules!Loaded, RulesInv
  <2>4. CASE Rules!DetailLoaded(req[r].of)
    <3>1. RulesPage(ui') /\ ui'.route = ui.route
      BY <2>2, <2>4 DEF Rules!DetailLoaded, RulesPage
    <3> QED BY <1>2, <3>1, RulesEnded DEF Rules!Loaded, RulesInv
  <2>5. CASE Rules!EditorLoaded(req[r].of) /\ Rules!id = None
    <3>1. RulesPage(ui') /\ ui'.route = ui.route
      BY <2>2, <2>5 DEF Rules!EditorLoaded, RulesPage
    <3> QED BY <1>2, <3>1, RulesEnded DEF Rules!Loaded, RulesInv
  <2>6. CASE Rules!EditorLoaded(req[r].of) /\ Rules!id # None
    <3>1. PICK bindable \in BOOLEAN, mode \in Rules!Modes(Rules!TypeOf(req[r].of)),
               binds \in BOOLEAN :
            Rules!Set([bindable |-> bindable, loading |-> FALSE, applied |-> TRUE,
                       form |-> Rules!applyDetail(req[r].of, mode, binds)])
      BY <2>6 DEF Rules!EditorLoaded
    <3>2. /\ RulesForm(Rules!applyDetail(req[r].of, mode, binds))
          /\ Rules!applyDetail(req[r].of, mode, binds).of = req[r].of
      BY DEF RulesForm, Rules!applyDetail, Rules!EventTypes, Rules!TypeOf
    <3>3. /\ DOMAIN ui' = RulesHooks /\ ui'.route = ui.route
          /\ ui'.form = Rules!applyDetail(req[r].of, mode, binds)
      BY <2>2, <3>1 DEF RulesPage
    <3>4. RulesPage(ui')
      BY <2>1, <2>2, <3>2, <3>3 DEF RulesPage
    <3> QED BY <1>2, <3>3, <3>4, RulesEnded DEF Rules!Loaded, RulesInv
  <2> QED BY <1>2, <2>3, <2>4, <2>5, <2>6 DEF Rules!Loaded
<1> QED BY <1>1, <1>2

(* Changes from the list or a detail, which leave the editor alone.        *)
LEMMA RulesChanges ==
    ASSUME RulesInv,
           \/ \E i \in Items : Rules!handleToggle(i) \/ Rules!handleDelete(i)
           \/ \E r \in Slots : \/ Rules!Changed(r) \/ Rules!reload(r)
                               \/ Rules!ChangeFailed(r) \/ Rules!SaveFailed(r)
    PROVE  RulesInv'
<1>1. /\ DOMAIN ui' = RulesHooks /\ ui'.route = ui.route
      /\ ui'.form = ui.form /\ ui'.applied = ui.applied
  <2> USE DEF Rules!Set, RulesInv, RulesPage, RulesHooks
  <2>1. ASSUME NEW i \in Items, Rules!handleToggle(i) \/ Rules!handleDelete(i)
        PROVE  <1>1!:
    BY <2>1 DEF Rules!handleToggle, Rules!handleDelete
  <2>2. ASSUME NEW r \in Slots, Rules!Changed(r) \/ Rules!reload(r) PROVE <1>1!:
    BY <2>2 DEF Rules!Changed, Rules!reload
  <2>3. ASSUME NEW r \in Slots, Rules!ChangeFailed(r) \/ Rules!SaveFailed(r) PROVE <1>1!:
    BY <2>3 DEF Rules!ChangeFailed, Rules!SaveFailed
  <2> QED BY <2>1, <2>2, <2>3
<1>2. RulesPage(ui') /\ ui'.route = ui.route
  BY <1>1 DEF RulesInv, RulesPage
<1>3. RulesCalls(req', Rules!id')
  <2>1. ASSUME NEW i \in Items, Rules!handleToggle(i) PROVE RulesCalls(req', Rules!id')
    BY <1>2, <2>1, RulesSent DEF Rules!handleToggle, RulesCall
  <2>2. ASSUME NEW i \in Items, Rules!handleDelete(i) PROVE RulesCalls(req', Rules!id')
    BY <1>2, <2>2, RulesSent DEF Rules!handleDelete, RulesCall
  <2>3. ASSUME NEW r \in Slots, Rules!Changed(r) PROVE RulesCalls(req', Rules!id')
    BY <1>2, <2>3, RulesSent, RulesEnded DEF Rules!Changed, RulesCall
  <2>4. ASSUME NEW r \in Slots,
               Rules!reload(r) \/ Rules!ChangeFailed(r) \/ Rules!SaveFailed(r)
        PROVE  RulesCalls(req', Rules!id')
    BY <1>2, <2>4, RulesEnded DEF Rules!reload, Rules!ChangeFailed, Rules!SaveFailed
  <2> QED BY <2>1, <2>2, <2>3, <2>4
<1> QED BY <1>2, <1>3 DEF RulesInv

(* The editor keeps the rule of its form, and the time rule follows the    *)
(* type.                                                                   *)
LEMMA RulesEditor ==
    ASSUME RulesInv,
           \/ \E type \in Rules!EventTypes : Rules!chooseType(type)
           \/ \E mode \in Rules!Modes("normal") \cup Rules!Modes("timer") :
                Rules!setTimeRule(mode)
           \/ Rules!addTaskTemplate \/ Rules!removeTaskTemplate
    PROVE  RulesInv'
<1>1. ASSUME NEW form, Rules!Edit(form), RulesForm(form), form.of = ui.form.of
      PROVE  RulesInv'
  <2>1. /\ DOMAIN ui' = RulesHooks /\ ui'.form = form /\ ui'.route = ui.route
        /\ ui'.applied = ui.applied
    BY <1>1 DEF Rules!Edit, Rules!Set, RulesInv, RulesPage, RulesHooks
  <2>2. RulesPage(ui')
    BY <1>1, <2>1 DEF RulesInv, RulesPage
  <2>3. RulesCalls(req', Rules!id')
    BY <1>1, <2>1, RulesSent DEF Rules!Edit, RulesCall
  <2> QED BY <2>2, <2>3 DEF RulesInv
<1>2. RulesForm(ui.form)
  BY DEF RulesInv, RulesPage
<1>3. ASSUME NEW type \in Rules!EventTypes, Rules!chooseType(type) PROVE RulesInv'
  <2>1. RulesForm([ui.form EXCEPT !.type = type, !.mode = Rules!defaultTimeRule(type)])
    BY <1>2 DEF RulesForm, Rules!defaultTimeRule, Rules!Modes, Rules!EventTypes
  <2>2. [ui.form EXCEPT !.type = type, !.mode = Rules!defaultTimeRule(type)].of = ui.form.of
    BY <1>2 DEF RulesForm
  <2> QED BY <1>1, <1>3, <2>1, <2>2 DEF Rules!chooseType
<1>4. ASSUME NEW mode \in Rules!Modes("normal") \cup Rules!Modes("timer"),
             Rules!setTimeRule(mode)
      PROVE  RulesInv'
  <2>1. RulesForm([ui.form EXCEPT !.mode = mode])
    BY <1>2, <1>4 DEF RulesForm, Rules!setTimeRule, Rules!NormalRuleIsOffered,
       Rules!TimerRuleIsOffered, Rules!Modes
  <2>2. [ui.form EXCEPT !.mode = mode].of = ui.form.of
    BY <1>2 DEF RulesForm
  <2> QED BY <1>1, <1>4, <2>1, <2>2 DEF Rules!setTimeRule
<1>5. CASE Rules!addTaskTemplate \/ Rules!removeTaskTemplate
  <2>1. ASSUME NEW b
        PROVE  RulesForm([ui.form EXCEPT !.binds = b]) /\ [ui.form EXCEPT !.binds = b].of = ui.form.of
    BY <1>2 DEF RulesForm
  <2> QED BY <1>1, <1>5, <2>1 DEF Rules!addTaskTemplate, Rules!removeTaskTemplate
<1> QED BY <1>3, <1>4, <1>5

LEMMA RulesSaves == RulesInv /\ Rules!handleSave => RulesInv'
<1> SUFFICES ASSUME RulesInv, Rules!handleSave PROVE RulesInv'
  OBVIOUS
<1>1. RulesPage(ui') /\ ui'.route = ui.route
  <2>1. Rules!Set([error |-> TRUE]) \/ Rules!Set([saving |-> TRUE, error |-> FALSE])
    BY DEF Rules!handleSave
  <2> QED BY <2>1 DEF Rules!Set, RulesInv, RulesPage, RulesHooks
<1>2. CASE Rules!hasStaleTaskBindings
  BY <1>1, <1>2, RulesSent DEF Rules!handleSave, RulesInv, RulesCall
<1>3. CASE ~Rules!hasStaleTaskBindings
  <2>1. /\ Rules!EditorIsOffered
        /\ Rules!Call([kind |-> "save", of |-> Rules!id, form |-> Rules!buildPayload,
                       applied |-> ui.applied, shown |-> TRUE])
    BY <1>3 DEF Rules!handleSave
  <2>2. RulesForm(Rules!buildPayload) /\ Rules!buildPayload.of = ui.form.of
    BY DEF Rules!buildPayload, RulesForm, RulesInv, RulesPage, Rules!EventTypes, Rules!Modes
  <2>3. Rules!id \in Items \cup {None} /\ (ui.applied => ui.form.of = Rules!id)
    BY <2>1 DEF RulesInv, RulesPage, Rules!id, Rules!Routes, Rules!EditorIsOffered, Rules!On
  <2>4. RulesCall([kind |-> "save", of |-> Rules!id, form |-> Rules!buildPayload,
                   applied |-> ui.applied, shown |-> TRUE], Rules!id)
    BY <2>2, <2>3 DEF RulesCall, RulesSave
  <2>5. RulesCalls(req', Rules!id')
    BY <1>1, <2>1, <2>4, RulesSent
  <2> QED BY <1>1, <2>5 DEF RulesInv
<1> QED BY <1>2, <1>3

LEMMA RulesForms ==
    /\ Rules!Init => RulesInv
    /\ RulesInv /\ Rules!Next => RulesInv'
    /\ RulesInv => Rules!FormIsOfTheRecord /\ Rules!TimeRuleFitsType
<1>1. Rules!Init => RulesInv
  <2> SUFFICES ASSUME Rules!Init PROVE RulesInv
    OBVIOUS
  <2>1. RulesPage(ui) /\ ui.route = <<"list", None>>
    <3>1. <<"list", None>> \in Rules!Routes
      BY DEF Rules!Routes
    <3> QED BY <3>1, RulesFirst DEF Rules!Init
  <2>2. RulesCalls(req, None)
    BY DEF Rules!Init, Rules!Mounted, Rules!LoadCall, RulesCalls, RulesCall
  <2> QED BY <2>1, <2>2 DEF RulesInv, Rules!id
<1>2. RulesInv /\ Rules!Next => RulesInv'
  BY RulesVisits, RulesLoads, RulesChanges, RulesEditor, RulesSaves DEF Rules!Next
<1>3. RulesInv => Rules!FormIsOfTheRecord /\ Rules!TimeRuleFitsType
  BY DEF RulesInv, RulesPage, RulesForm, RulesCalls, RulesCall, RulesSave,
         Rules!FormIsOfTheRecord, Rules!TimeRuleFitsType, Rules!OfKind, Rules!Free, Rules!On,
         Rules!id
<1> QED BY <1>1, <1>2, <1>3

LEMMA RulesStay == RulesInv /\ UNCHANGED <<ui, req>> => RulesInv'
BY DEF RulesInv, Rules!id

-----------------------------------------------------------------------------
(* The pages of the knowledge base, likewise.                              *)

ArticlesHooks == {"route", "loading", "error", "items", "article", "liked", "actioning",
                  "existing", "form", "filled", "saveState", "applied"}

ArticlesPage(u) ==
    /\ DOMAIN u = ArticlesHooks /\ u.route \in Articles!Routes
    /\ Articles!Page(u.route) = "edit" /\ u.applied => u.form = u.route[2]

ArticlesSave(q) ==
    /\ DOMAIN q = {"kind", "of", "form", "applied", "shown"}
    /\ q.of \in Items \cup {None} /\ (q.applied => q.form = q.of)

ArticlesCall(q, i) ==
    q # None => /\ "kind" \in DOMAIN q
                /\ q.kind = "load" => q.of = i
                /\ q.kind = "save" => ArticlesSave(q)

ArticlesCalls(calls, i) == DOMAIN calls = Slots /\ \A r \in Slots : ArticlesCall(calls[r], i)

ArticlesInv == ArticlesPage(ui) /\ ArticlesCalls(req, Articles!id)

LEMMA ArticlesFirst ==
    ASSUME NEW route \in Articles!Routes
    PROVE  ArticlesPage(Articles!Mount(route)) /\ Articles!Mount(route).route = route
BY DEF ArticlesPage, ArticlesHooks, Articles!Mount

(* A step to another URL: the component that stays forgets its load, the   *)
(* one that goes leaves only what still navigates.                         *)
LEMMA ArticlesGo ==
    ASSUME ArticlesInv, NEW route \in Articles!Routes, NEW calls,
           DOMAIN calls = Slots, \A s \in Slots : calls[s] \in {req[s], None},
           Articles!Go(route, calls, Articles!Mount(route))
    PROVE  ArticlesInv'
<1>1. ArticlesPage(Articles!Mount(route)) /\ Articles!Mount(route).route = route
  BY ArticlesFirst
<1>2. \A s \in Slots : ArticlesCall(calls[s], Articles!id)
  BY DEF ArticlesInv, ArticlesCalls, ArticlesCall
<1> DEFINE same == Articles!Page(route) = Articles!Page(ui.route)
           kept == Articles!Kept(same, calls)
<1>3. CASE same /\ route[2] = Articles!id
  <2>1. ui' = [ui EXCEPT !.route = route] /\ req' = calls
    BY <1>3 DEF Articles!Go
  <2>2. ui'.route = route /\ ArticlesPage(ui')
    BY <1>3, <2>1 DEF ArticlesInv, ArticlesPage, ArticlesHooks, Articles!id
  <2>3. ArticlesCalls(req', route[2])
    BY <1>2, <1>3, <2>1 DEF ArticlesCalls
  <2> QED BY <2>2, <2>3 DEF ArticlesInv, Articles!id
<1>4. \A i : ArticlesCalls(kept, i)
  <2>1. ASSUME NEW s \in Slots, NEW i PROVE ArticlesCall(kept[s], i)
    <3>1. ArticlesCall(Articles!Still(calls[s]), i)
      BY <1>2 DEF Articles!Still, Articles!Navigates, ArticlesCall, ArticlesSave
    <3>2. calls[s] # None /\ calls[s].kind # "load" => ArticlesCall(calls[s], i)
      BY <1>2 DEF ArticlesCall
    <3>3. ArticlesCall(None, i)
      BY DEF ArticlesCall
    <3>4. kept[s] = IF ~same THEN Articles!Still(calls[s])
                    ELSE IF calls[s] # None /\ calls[s].kind = "load" THEN None ELSE calls[s]
      BY DEF Articles!Kept
    <3> QED BY <3>1, <3>2, <3>3, <3>4
  <2>2. DOMAIN kept = Slots
    BY DEF Articles!Kept
  <2> QED BY <2>1, <2>2 DEF ArticlesCalls
<1>5. CASE ~(same /\ route[2] = Articles!id)
  <2>1. ArticlesPage(ui') /\ ui'.route = route
    <3>1. \/ ui' = Articles!Mount(route)
          \/ ui' = [ui EXCEPT !.route = route, !.applied = FALSE]
          \/ ui' = [[ui EXCEPT !.route = route, !.applied = FALSE]
                       EXCEPT !.loading = TRUE, !.error = FALSE]
      BY <1>5 DEF Articles!Go
    <3>2. CASE ui' = Articles!Mount(route)
      BY <1>1, <3>2
    <3>3. CASE ui' # Articles!Mount(route)
      BY <3>1, <3>3 DEF ArticlesInv, ArticlesPage, ArticlesHooks
    <3> QED BY <3>2, <3>3
  <2>2. \/ req' = kept
        \/ \E r \in Slots : req' = [kept EXCEPT ![r] = Articles!LoadCall(route)]
    BY <1>5 DEF Articles!Go
  <2>3. ArticlesCall(Articles!LoadCall(route), route[2])
    BY DEF ArticlesCall, Articles!LoadCall
  <2>4. ArticlesCalls(kept, route[2])
    BY <1>4
  <2> HIDE DEF kept
  <2>5. ArticlesCalls(req', route[2])
    BY <2>2, <2>3, <2>4 DEF ArticlesCalls
  <2> QED BY <2>1, <2>5 DEF ArticlesInv, Articles!id
<1> QED BY <1>3, <1>5

(* A step that stays at its URL: a request may be sent or end.             *)
LEMMA ArticlesSent ==
    ASSUME ArticlesInv, ui'.route = ui.route, NEW c, ArticlesCall(c, Articles!id)
    PROVE  /\ UNCHANGED req => ArticlesCalls(req', Articles!id')
           /\ Articles!Call(c) => ArticlesCalls(req', Articles!id')
           /\ \A r \in Slots : Articles!Return(r) \/ Articles!Await(r, c) => ArticlesCalls(req', Articles!id')
<1>1. ArticlesCall(None, Articles!id) /\ Articles!id' = Articles!id
  BY DEF ArticlesCall, Articles!id
<1> QED BY <1>1 DEF ArticlesInv, ArticlesCalls, Articles!Call, Articles!Return, Articles!Await

LEMMA ArticlesEnded ==
    ASSUME ArticlesInv, NEW r \in Slots, Articles!Return(r), ui'.route = ui.route
    PROVE  ArticlesCalls(req', Articles!id')
BY ArticlesSent DEF ArticlesCall

LEMMA ArticlesLess ==
    ASSUME ArticlesInv, NEW r \in Slots
    PROVE  /\ DOMAIN [req EXCEPT ![r] = None] = Slots
           /\ \A s \in Slots : [req EXCEPT ![r] = None][s] \in {req[s], None}
BY DEF ArticlesInv, ArticlesCalls

LEMMA ArticlesVisits ==
    ASSUME ArticlesInv,
           \/ \E route \in Articles!Routes : Articles!Visit(route, Articles!Mount(route))
           \/ \E r \in Slots : Articles!Saved(r)
    PROVE  ArticlesInv'
<1>1. ASSUME NEW route \in Articles!Routes, Articles!Visit(route, Articles!Mount(route))
      PROVE  ArticlesInv'
  BY <1>1, ArticlesGo DEF Articles!Visit, ArticlesInv, ArticlesCalls
<1>2. ASSUME NEW r \in Slots, Articles!Saved(r) PROVE ArticlesInv'
  <2>1. PICK i \in IF req[r].of = None THEN Items ELSE {req[r].of} :
          Articles!Go(<<"detail", i>>, [req EXCEPT ![r] = None],
                      Articles!Mount(<<"detail", i>>))
    BY <1>2 DEF Articles!Saved
  <2>2. i \in Items
    BY <1>2, <2>1 DEF Articles!Saved, Articles!Has, Articles!Free, ArticlesInv, ArticlesCalls,
       ArticlesCall, ArticlesSave
  <2>3. <<"detail", i>> \in Articles!Routes
    BY <2>2 DEF Articles!Routes
  <2> QED BY <2>1, <2>3, ArticlesLess, ArticlesGo
<1> QED BY <1>1, <1>2

LEMMA ArticlesLoads ==
    ASSUME ArticlesInv, NEW r \in Slots, Articles!Loaded(r) \/ Articles!LoadFailed(r)
    PROVE  ArticlesInv'
<1> USE DEF Articles!Set, ArticlesHooks
<1>1. ArticlesPage(ui) /\ Articles!id = ui.route[2]
  BY DEF ArticlesInv, Articles!id
<1>2. CASE Articles!LoadFailed(r)
  <2>1. ArticlesPage(ui') /\ ui'.route = ui.route
    BY <1>1, <1>2 DEF Articles!LoadFailed, ArticlesPage
  <2> QED BY <1>2, <2>1, ArticlesEnded DEF Articles!LoadFailed, ArticlesInv
<1>3. CASE Articles!Loaded(r)
  <2>1. req[r].of = Articles!id
    BY <1>3 DEF Articles!Loaded, Articles!Has, Articles!Free, ArticlesInv, ArticlesCalls,
       ArticlesCall
  <2>2. CASE Articles!ListLoaded
    <3>1. ArticlesPage(ui') /\ ui'.route = ui.route
      BY <1>1, <2>2 DEF Articles!ListLoaded, ArticlesPage
    <3> QED BY <1>3, <3>1, ArticlesEnded DEF Articles!Loaded, ArticlesInv
  <2>3. CASE Articles!DetailLoaded(req[r].of)
    <3>1. ArticlesPage(ui') /\ ui'.route = ui.route
      BY <1>1, <2>3 DEF Articles!DetailLoaded, ArticlesPage
    <3> QED BY <1>3, <3>1, ArticlesEnded DEF Articles!Loaded, ArticlesInv
  <2>4. CASE Articles!EditorLoaded(req[r].of)
    <3>1. ArticlesPage(ui') /\ ui'.route = ui.route
      BY <1>1, <2>1, <2>4 DEF Articles!EditorLoaded, ArticlesPage
    <3> QED BY <1>3, <3>1, ArticlesEnded DEF Articles!Loaded, ArticlesInv
  <2> QED BY <1>3, <2>2, <2>3, <2>4 DEF Articles!Loaded
<1> QED BY <1>2, <1>3

LEMMA ArticlesUser ==
    ASSUME ArticlesInv,
           \/ Articles!handleLike \/ Articles!handlePin \/ Articles!handleDelete
           \/ Articles!Type \/ Articles!handleSave
    PROVE  ArticlesInv'
<1>1. ArticlesPage(ui) /\ Articles!id = ui.route[2]
  BY DEF ArticlesInv, Articles!id
<1>2. ArticlesPage(ui') /\ ui'.route = ui.route
  <2>1. \E changes : Articles!Set(changes)
                     /\ DOMAIN changes \cap {"route", "form", "applied"} = {}
    <3>1. CASE Articles!handleLike \/ Articles!handlePin \/ Articles!handleDelete
      <4>1. PICK c : Articles!Set([actioning |-> c, error |-> FALSE])
        BY <3>1 DEF Articles!handleLike, Articles!handlePin, Articles!handleDelete,
           Articles!Act
      <4> QED BY <4>1
    <3>2. CASE Articles!Type
      BY <3>2 DEF Articles!Type
    <3>3. CASE Articles!handleSave
      BY <3>3 DEF Articles!handleSave
    <3> QED BY <3>1, <3>2, <3>3
  <2>2. DOMAIN ui' = ArticlesHooks /\ \A h \in {"route", "form", "applied"} : ui'[h] = ui[h]
    BY <1>1, <2>1 DEF Articles!Set, ArticlesPage, ArticlesHooks
  <2>3. ui'.route = ui.route /\ ui'.form = ui.form /\ ui'.applied = ui.applied
    BY <2>2
  <2> QED BY <1>1, <2>2, <2>3 DEF ArticlesPage
<1>3. ASSUME Articles!handleLike \/ Articles!handlePin \/ Articles!handleDelete
      PROVE  ArticlesCalls(req', Articles!id')
  <2>1. ArticlesCall([kind |-> "like", of |-> ui.article, likes |-> ~ui.liked], Articles!id)
    BY DEF ArticlesCall
  <2>2. ArticlesCall([kind |-> "pin", of |-> ui.article], Articles!id)
    BY DEF ArticlesCall
  <2>3. ArticlesCall([kind |-> "delete", of |-> ui.article, leads |-> TRUE, shown |-> TRUE],
                     Articles!id)
    BY DEF ArticlesCall
  <2> QED BY <1>2, <1>3, <2>1, <2>2, <2>3, ArticlesSent
          DEF Articles!handleLike, Articles!handlePin, Articles!handleDelete, Articles!Act
<1>4. ASSUME Articles!Type PROVE ArticlesCalls(req', Articles!id')
  BY <1>2, <1>4, ArticlesSent DEF Articles!Type, ArticlesCall
<1>5. ASSUME Articles!handleSave PROVE ArticlesCalls(req', Articles!id')
  <2>1. Articles!id \in Items \cup {None} /\ (ui.applied => ui.form = Articles!id)
    BY <1>1, <1>5 DEF ArticlesPage, Articles!Routes, Articles!handleSave,
       Articles!EditorIsOffered, Articles!On
  <2>2. ArticlesCall([kind |-> "save", of |-> Articles!id, form |-> ui.form,
                      applied |-> ui.applied, shown |-> TRUE], Articles!id)
    BY <2>1 DEF ArticlesCall, ArticlesSave
  <2> QED BY <1>2, <1>5, <2>2, ArticlesSent DEF Articles!handleSave
<1> QED BY <1>2, <1>3, <1>4, <1>5 DEF ArticlesInv

LEMMA ArticlesActed ==
    ASSUME ArticlesInv, NEW r \in Slots,
           Articles!Acted(r) \/ Articles!ActionFailed(r) \/ Articles!SaveFailed(r)
    PROVE  ArticlesInv'
<1>1. CASE Articles!Go(<<"list", None>>, [req EXCEPT ![r] = None],
                       Articles!Mount(<<"list", None>>))
  <2>1. <<"list", None>> \in Articles!Routes
    BY DEF Articles!Routes
  <2> QED BY <1>1, <2>1, ArticlesLess, ArticlesGo
<1>2. ASSUME Articles!Return(r), DOMAIN ui' = ArticlesHooks, ui'.route = ui.route,
             ui'.form = ui.form, ui'.applied = ui.applied
      PROVE  ArticlesInv'
  <2>1. ArticlesPage(ui')
    BY <1>2 DEF ArticlesInv, ArticlesPage
  <2> QED BY <1>2, <2>1, ArticlesEnded DEF ArticlesInv
<1> USE DEF Articles!Set, ArticlesHooks
<1>3. ASSUME Articles!ActionFailed(r) \/ Articles!SaveFailed(r) PROVE ArticlesInv'
  BY <1>2, <1>3
     DEF Articles!ActionFailed, Articles!SaveFailed, ArticlesInv, ArticlesPage
<1>4. ASSUME Articles!Acted(r) PROVE ArticlesInv'
  BY <1>1, <1>2, <1>4 DEF Articles!Acted, ArticlesInv, ArticlesPage
<1> QED BY <1>3, <1>4

LEMMA ArticlesForms ==
    /\ Articles!Init => ArticlesInv
    /\ ArticlesInv /\ Articles!Next => ArticlesInv'
    /\ ArticlesInv => Articles!FormIsOfTheRecord
<1>1. Articles!Init => ArticlesInv
  <2> SUFFICES ASSUME Articles!Init PROVE ArticlesInv
    OBVIOUS
  <2>1. ArticlesPage(ui) /\ ui.route = <<"list", None>>
    <3>1. <<"list", None>> \in Articles!Routes
      BY DEF Articles!Routes
    <3> QED BY <3>1, ArticlesFirst DEF Articles!Init
  <2>2. ArticlesCalls(req, None)
    BY DEF Articles!Init, Articles!Mounted, Articles!LoadCall, ArticlesCalls, ArticlesCall
  <2> QED BY <2>1, <2>2 DEF ArticlesInv, Articles!id
<1>2. ArticlesInv /\ Articles!Next => ArticlesInv'
  BY ArticlesVisits, ArticlesLoads, ArticlesUser, ArticlesActed DEF Articles!Next
<1>3. ArticlesInv => Articles!FormIsOfTheRecord
  BY DEF ArticlesInv, ArticlesPage, ArticlesCalls, ArticlesCall, ArticlesSave,
         Articles!FormIsOfTheRecord, Articles!OfKind, Articles!Free, Articles!On, Articles!id
<1> QED BY <1>1, <1>2, <1>3

LEMMA ArticlesStay == ArticlesInv /\ UNCHANGED <<ui, req>> => ArticlesInv'
BY DEF ArticlesInv, Articles!id

-----------------------------------------------------------------------------
(* The report templates: the form that edits is the selected template's.   *)

TemplateHooks == {"items", "loading", "saving", "selected", "file", "form"}

TemplateCall(q) ==
    q # None => (q.kind = "write" /\ q.op[1] = "update" => q.form.of = q.op[2])

TemplatesInv ==
    /\ DOMAIN ui = TemplateHooks /\ DOMAIN ui.form = {"of", "typed"}
    /\ ui.selected \in ui.items => ui.form.of = ui.selected
    /\ DOMAIN req = Slots /\ \A r \in Slots : TemplateCall(req[r])

LEMMA TemplatesUser ==
    ASSUME TemplatesInv,
           \/ ReportForms!Refresh \/ ReportForms!Type \/ ReportForms!ChooseFile
           \/ \E t \in Items : ReportForms!Select(t)
           \/ ReportForms!handleCreate \/ ReportForms!handleUpdate
           \/ ReportForms!handleReplaceFile
    PROVE  TemplatesInv'
<1> USE DEF TemplatesInv, TemplateHooks, TemplateCall, ReportForms!Set, ReportForms!Call
<1>1. CASE ReportForms!Refresh \/ ReportForms!Type \/ ReportForms!ChooseFile
  BY <1>1 DEF ReportForms!Refresh, ReportForms!Type, ReportForms!ChooseFile
<1>2. ASSUME NEW t \in Items, ReportForms!Select(t) PROVE TemplatesInv'
  BY <1>2 DEF ReportForms!Select, ReportForms!Editing
<1>3. CASE ReportForms!handleCreate
  BY <1>3 DEF ReportForms!handleCreate, ReportForms!Write
<1>4. CASE ReportForms!handleUpdate \/ ReportForms!handleReplaceFile
  <2>1. /\ ui.selected \in ui.items
        /\ \/ ReportForms!Write(<<"update", ui.selected>>)
           \/ ReportForms!Write(<<"replace", ui.selected>>)
    BY <1>4 DEF ReportForms!handleUpdate, ReportForms!handleReplaceFile,
       ReportForms!DetailIsOffered, ReportForms!selectedTemplate
  <2> QED BY <2>1 DEF ReportForms!Write
<1> QED BY <1>1, <1>2, <1>3, <1>4

LEMMA TemplatesAnswers ==
    ASSUME TemplatesInv, NEW r \in Slots,
           \/ ReportForms!loadTemplates(r) \/ ReportForms!LoadFailed(r)
           \/ ReportForms!Written(r) \/ ReportForms!WriteFailed(r)
    PROVE  TemplatesInv'
<1> USE DEF TemplatesInv, TemplateHooks, TemplateCall, ReportForms!Set, ReportForms!Return,
            ReportForms!Await
<1>1. CASE ReportForms!loadTemplates(r)
  BY <1>1 DEF ReportForms!loadTemplates, ReportForms!Editing
<1>2. CASE ReportForms!LoadFailed(r)
  BY <1>2 DEF ReportForms!LoadFailed
<1>3. CASE ReportForms!Written(r) \/ ReportForms!WriteFailed(r)
  BY <1>3 DEF ReportForms!Written, ReportForms!WriteFailed
<1> QED BY <1>1, <1>2, <1>3

LEMMA TemplatesForms ==
    /\ ReportForms!Init => TemplatesInv
    /\ TemplatesInv /\ ReportForms!Next => TemplatesInv'
    /\ TemplatesInv => ReportForms!FormIsOfTheRecord
<1>1. ReportForms!Init => TemplatesInv
  BY DEF ReportForms!Init, ReportForms!Mounted, TemplatesInv, TemplateHooks, TemplateCall
<1>2. TemplatesInv /\ ReportForms!Next => TemplatesInv'
  BY TemplatesUser, TemplatesAnswers DEF ReportForms!Next
<1>3. TemplatesInv => ReportForms!FormIsOfTheRecord
  BY DEF TemplatesInv, TemplateCall, ReportForms!FormIsOfTheRecord, ReportForms!OfKind,
         ReportForms!Free, ReportForms!DetailIsOffered, ReportForms!selectedTemplate
<1> QED BY <1>1, <1>2, <1>3

LEMMA TemplatesStay == TemplatesInv /\ UNCHANGED <<ui, req>> => TemplatesInv'
BY DEF TemplatesInv, TemplateCall

-----------------------------------------------------------------------------
(* The task templates: a form, in the panel, in a save or waiting to be    *)
(* shown, is one template's and has what its type has.                     *)

TaskFormHooks == {"items", "loading", "saving", "selected", "panelMode", "action", "form"}

TaskForm(form) ==
    /\ DOMAIN form = {"of", "type", "status", "rules", "sender"}
    /\ form.type = "WEBHOOK" => ~form.rules /\ ~form.sender
    /\ form.of # None => form.type = TaskForms!Type(form.of)

TaskSave(q) ==
    /\ DOMAIN q = {"kind", "of", "form", "rules", "setsStatus"}
    /\ TaskForm(q.form) /\ q.form.of = q.of
    /\ q.form.type = "WEBHOOK" => ~q.rules

TaskShown(s) == TaskForm(s.form) /\ s.form.of = s.selected /\ s.selected # None

TaskCall(q) ==
    q # None => /\ q.kind = "save" => TaskSave(q)
                /\ q.kind = "page" /\ q.saved # None => TaskShown(q.saved)

TaskPanel ==
    /\ DOMAIN ui = TaskFormHooks /\ TaskForm(ui.form)
    /\ ui.form.of = ui.selected /\ (ui.panelMode = "edit" <=> ui.selected # None)

TaskCalls == DOMAIN req = Slots /\ \A r \in Slots : TaskCall(req[r])

TaskFormsInv == TaskPanel /\ TaskCalls

LEMMA TaskFormsOf ==
    \A t, status, sender :
        /\ TaskForm(TaskForms!fromTaskTemplate(t, status, sender))
        /\ TaskForms!fromTaskTemplate(t, status, sender).of = t
<1> SUFFICES ASSUME NEW t, NEW status, NEW sender
             PROVE  /\ TaskForm(TaskForms!fromTaskTemplate(t, status, sender))
                    /\ TaskForms!fromTaskTemplate(t, status, sender).of = t
  OBVIOUS
<1>1. PICK form : form = TaskForms!fromTaskTemplate(t, status, sender)
  OBVIOUS
<1>2. /\ DOMAIN form = {"of", "type", "status", "rules", "sender"}
      /\ form.of = t /\ form.type = TaskForms!Type(t)
      /\ form.rules = (TaskForms!Type(t) = "EMAIL")
      /\ form.sender = (sender /\ TaskForms!Type(t) = "EMAIL")
  BY <1>1 DEF TaskForms!fromTaskTemplate
<1> HIDE DEF TaskForms!fromTaskTemplate
<1>3. TaskForm(form)
  BY <1>2 DEF TaskForm
<1> QED BY <1>1, <1>2, <1>3

(* A request of the given record, or of none that carries a form.          *)
LEMMA TaskFormsSent ==
    ASSUME TaskCalls, NEW c, TaskCall(c)
    PROVE  /\ UNCHANGED req => TaskCalls'
           /\ TaskForms!Call(c) => TaskCalls'
           /\ \A r \in Slots : TaskForms!Return(r) \/ TaskForms!Await(r, c) => TaskCalls'
<1>1. TaskCall(None)
  BY DEF TaskCall
<1> QED BY <1>1 DEF TaskCalls, TaskForms!Call, TaskForms!Return, TaskForms!Await

(* The panel stays as it is, or its form changes and keeps its template.   *)
LEMMA TaskFormsEdit ==
    ASSUME TaskPanel, DOMAIN ui' = TaskFormHooks, ui'.selected = ui.selected,
           ui'.panelMode = ui.panelMode, TaskForm(ui'.form), ui'.form.of = ui.form.of
    PROVE  TaskPanel'
BY DEF TaskPanel

LEMMA TaskFormsPanel ==
    ASSUME TaskFormsInv,
           \/ TaskForms!Refresh \/ TaskForms!openCreatePanel
           \/ \E t \in Items : TaskForms!openEditPanel(t) \/ TaskForms!handleToggleStatus(t)
    PROVE  TaskFormsInv'
<1> USE DEF TaskFormsInv, TaskForms!Set, TaskFormHooks
<1>1. CASE TaskForms!Refresh
  <2>1. TaskCalls'
    BY <1>1, TaskFormsSent DEF TaskForms!Refresh, TaskCall
  <2> QED BY <1>1, <2>1 DEF TaskForms!Refresh, TaskPanel
<1>2. CASE TaskForms!openCreatePanel
  <2>1. TaskCalls' /\ TaskForm(TaskForms!defaultFormState)
    BY <1>2 DEF TaskForms!openCreatePanel, TaskCalls, TaskForm, TaskForms!defaultFormState
  <2>2. TaskForms!defaultFormState.of = None
    BY DEF TaskForms!defaultFormState
  <2> QED BY <1>2, <2>1, <2>2 DEF TaskForms!openCreatePanel, TaskPanel
<1>3. ASSUME NEW t \in Items, TaskForms!openEditPanel(t) PROVE TaskFormsInv'
  <2>1. PICK sender \in BOOLEAN : TaskForms!Set(TaskForms!Opened(t, ui.items[t], sender))
    BY <1>3 DEF TaskForms!openEditPanel
  <2>2. /\ DOMAIN ui' = TaskFormHooks /\ ui'.panelMode = "edit" /\ ui'.selected = t
        /\ ui'.form = TaskForms!fromTaskTemplate(t, ui.items[t], sender)
    BY <2>1 DEF TaskForms!Opened, TaskPanel
  <2>3. TaskCalls'
    BY <1>3 DEF TaskForms!openEditPanel, TaskCalls
  <2> QED BY <2>2, <2>3, TaskFormsOf, NoneIsNoRecord DEF TaskPanel
<1>4. ASSUME NEW t \in Items, TaskForms!handleToggleStatus(t) PROVE TaskFormsInv'
  <2>1. TaskCall([kind |-> "toggle", of |-> t, selected |-> ui.selected,
                  to |-> IF ui.items[t] = "ACTIVE" THEN "INACTIVE" ELSE "ACTIVE"])
    BY DEF TaskCall
  <2>2. TaskCalls'
    BY <1>4, <2>1, TaskFormsSent DEF TaskForms!handleToggleStatus
  <2> QED BY <1>4, <2>2 DEF TaskForms!handleToggleStatus, TaskPanel
<1> QED BY <1>1, <1>2, <1>3, <1>4

LEMMA TaskFormsChoice ==
    ASSUME TaskFormsInv,
           \/ \E type \in TaskForms!Types : TaskForms!ChooseType(type)
           \/ \E status \in TaskForms!Statuses : TaskForms!ChooseStatus(status)
           \/ \E b \in BOOLEAN : TaskForms!ChooseSender(b) \/ TaskForms!ChooseRules(b)
    PROVE  TaskFormsInv'
<1>1. \A form : TaskForms!SetForm(form) =>
            /\ DOMAIN ui' = TaskFormHooks /\ ui'.selected = ui.selected
            /\ ui'.panelMode = ui.panelMode /\ ui'.form = form /\ TaskCalls'
  BY DEF TaskForms!SetForm, TaskForms!Set, TaskFormsInv, TaskPanel, TaskFormHooks, TaskCalls
<1>2. TaskForm(ui'.form) /\ ui'.form.of = ui.form.of
  <2>1. TaskForm(ui.form)
    BY DEF TaskFormsInv, TaskPanel
  <2>2. ASSUME NEW type \in TaskForms!Types, TaskForms!ChooseType(type)
        PROVE  TaskForm(ui'.form) /\ ui'.form.of = ui.form.of
    <3>1. ui'.form = [ui.form EXCEPT !.type = type, !.rules = type = "EMAIL", !.sender = FALSE]
      BY <1>1, <2>2 DEF TaskForms!ChooseType
    <3>2. ui.form.of = None
      BY <2>2 DEF TaskForms!ChooseType, TaskFormsInv, TaskPanel
    <3> QED BY <2>1, <2>2, <3>1, <3>2 DEF TaskForm, TaskForms!Types
  <2>3. ASSUME NEW status, TaskForms!ChooseStatus(status)
        PROVE  TaskForm(ui'.form) /\ ui'.form.of = ui.form.of
    <3>1. ui'.form = [ui.form EXCEPT !.status = status]
      BY <1>1, <2>3 DEF TaskForms!ChooseStatus
    <3> QED BY <2>1, <3>1 DEF TaskForm
  <2>4. ASSUME NEW b \in BOOLEAN, TaskForms!ChooseSender(b)
        PROVE  TaskForm(ui'.form) /\ ui'.form.of = ui.form.of
    <3>1. ui'.form = [ui.form EXCEPT !.sender = b] /\ ui.form.type = "EMAIL"
      BY <1>1, <2>4 DEF TaskForms!ChooseSender
    <3> QED BY <2>1, <3>1 DEF TaskForm
  <2>5. ASSUME NEW b \in BOOLEAN, TaskForms!ChooseRules(b)
        PROVE  TaskForm(ui'.form) /\ ui'.form.of = ui.form.of
    <3>1. ui'.form = [ui.form EXCEPT !.rules = b] /\ ui.form.type = "EMAIL"
      BY <1>1, <2>5 DEF TaskForms!ChooseRules
    <3> QED BY <2>1, <3>1 DEF TaskForm
  <2> QED BY <2>2, <2>3, <2>4, <2>5
<1>3. /\ DOMAIN ui' = TaskFormHooks /\ ui'.selected = ui.selected
      /\ ui'.panelMode = ui.panelMode /\ TaskCalls'
  BY <1>1 DEF TaskForms!ChooseType, TaskForms!ChooseStatus, TaskForms!ChooseSender,
     TaskForms!ChooseRules
<1> QED BY <1>2, <1>3, TaskFormsEdit DEF TaskFormsInv

LEMMA TaskFormsSave ==
    ASSUME TaskFormsInv, TaskForms!handleSave
    PROVE  TaskFormsInv'
<1>1. CASE ui.panelMode = "edit" /\ ui.items[ui.selected] = None
  BY <1>1 DEF TaskForms!handleSave, TaskFormsInv, TaskPanel, TaskCalls
<1>2. CASE ~(ui.panelMode = "edit" /\ ui.items[ui.selected] = None)
  <2>1. TaskForms!Set([saving |-> TRUE])
        /\ TaskForms!Call([kind |-> "save", of |-> ui.selected, form |-> ui.form,
                           rules |-> TaskForms!buildRecipientConfig,
                           setsStatus |-> /\ ui.panelMode = "edit"
                                          /\ ui.items[ui.selected] # ui.form.status])
    BY <1>2 DEF TaskForms!handleSave
  <2>2. ASSUME NEW b
        PROVE  TaskCall([kind |-> "save", of |-> ui.selected, form |-> ui.form,
                         rules |-> TaskForms!buildRecipientConfig, setsStatus |-> b])
    <3>1. TaskForm(ui.form) /\ ui.form.of = ui.selected
      BY DEF TaskFormsInv, TaskPanel
    <3>2. ui.form.type = "WEBHOOK" => ~TaskForms!buildRecipientConfig
      BY DEF TaskForms!buildRecipientConfig
    <3> QED BY <3>1, <3>2 DEF TaskCall, TaskSave
  <2>3. TaskCalls'
    BY <2>1, <2>2, TaskFormsSent DEF TaskFormsInv
  <2> QED BY <2>1, <2>3 DEF TaskFormsInv, TaskPanel, TaskForms!Set, TaskFormHooks
<1> QED BY <1>1, <1>2

LEMMA TaskFormsAnswers ==
    ASSUME TaskFormsInv, NEW r \in Slots,
           \/ TaskForms!loadPage(r) \/ TaskForms!Saved(r) \/ TaskForms!SaveFailed(r)
           \/ TaskForms!SaveShown(r) \/ TaskForms!Toggled(r) \/ TaskForms!ToggleFailed(r)
    PROVE  TaskFormsInv'
<1> USE DEF TaskForms!Set, TaskFormHooks
<1>1. TaskPanel /\ TaskCalls /\ TaskCall(req[r])
  BY DEF TaskFormsInv, TaskCalls
<1>2. TaskForms!Return(r) => TaskCalls'
  BY <1>1, TaskFormsSent DEF TaskCall
<1>3. CASE TaskForms!loadPage(r) \/ TaskForms!SaveFailed(r) \/ TaskForms!ToggleFailed(r)
  <2>1. TaskCalls'
    BY <1>2, <1>3 DEF TaskForms!loadPage, TaskForms!SaveFailed, TaskForms!ToggleFailed
  <2>2. TaskPanel'
    BY <1>1, <1>3 DEF TaskForms!loadPage, TaskForms!SaveFailed, TaskForms!ToggleFailed,
       TaskPanel
  <2> QED BY <2>1, <2>2 DEF TaskFormsInv
<1>4. CASE TaskForms!Saved(r)
  <2>1. TaskSave(req[r])
    BY <1>1, <1>4 DEF TaskForms!Saved, TaskForms!Has, TaskForms!Free, TaskCall
  <2>2. CASE req[r].setsStatus
    <3>1. TaskCall([req[r] EXCEPT !.setsStatus = FALSE])
      BY <2>1, <1>4 DEF TaskCall, TaskSave, TaskForms!Saved, TaskForms!Has
    <3>2. TaskCalls' /\ ui' = ui
      BY <1>1, <1>4, <2>2, <3>1, TaskFormsSent DEF TaskForms!Saved
    <3> QED BY <1>1, <3>2 DEF TaskFormsInv, TaskPanel
  <2>3. CASE ~req[r].setsStatus
    <3>1. PICK t \in Items :
            /\ TaskForms!Set([loading |-> TRUE])
            /\ TaskForms!Await(r, [kind |-> "page",
                 saved |-> TaskForms!Opened(t, req[r].form.status, req[r].form.sender)])
      BY <1>4, <2>3 DEF TaskForms!Saved
    <3>2. TaskShown(TaskForms!Opened(t, req[r].form.status, req[r].form.sender))
      BY TaskFormsOf, NoneIsNoRecord DEF TaskShown, TaskForms!Opened
    <3>3. TaskCalls'
      BY <1>1, <3>1, <3>2, TaskFormsSent DEF TaskCall
    <3> QED BY <1>1, <3>1, <3>3 DEF TaskFormsInv, TaskPanel
  <2> QED BY <2>2, <2>3
<1>5. CASE TaskForms!SaveShown(r)
  <2>1. TaskShown(req[r].saved)
    BY <1>1, <1>5 DEF TaskForms!SaveShown, TaskForms!Has, TaskForms!Free, TaskCall
  <2>2. TaskCalls'
    BY <1>2, <1>5 DEF TaskForms!SaveShown
  <2>3. /\ DOMAIN ui' = TaskFormHooks /\ ui'.panelMode = "edit"
        /\ ui'.selected = req[r].saved.selected /\ ui'.form = req[r].saved.form
    BY <1>1, <1>5 DEF TaskForms!SaveShown, TaskPanel
  <2> QED BY <2>1, <2>2, <2>3 DEF TaskFormsInv, TaskPanel, TaskShown
<1>6. CASE TaskForms!Toggled(r)
  <2>1. /\ DOMAIN ui' = TaskFormHooks /\ ui'.selected = ui.selected
        /\ ui'.panelMode = ui.panelMode
        /\ ui'.form \in {ui.form, [ui.form EXCEPT !.status = req[r].to]}
    BY <1>1, <1>6 DEF TaskForms!Toggled, TaskPanel
  <2>2. TaskForm(ui'.form) /\ ui'.form.of = ui.form.of
    BY <1>1, <2>1 DEF TaskPanel, TaskForm
  <2>3. TaskCalls'
    BY <1>2, <1>6 DEF TaskForms!Toggled
  <2> QED BY <1>1, <2>1, <2>2, <2>3, TaskFormsEdit DEF TaskFormsInv
<1> QED BY <1>3, <1>4, <1>5, <1>6

LEMMA TaskFormsForms ==
    /\ TaskForms!Init => TaskFormsInv
    /\ TaskFormsInv /\ TaskForms!Next => TaskFormsInv'
    /\ TaskFormsInv => TaskForms!FormIsOfTheRecord /\ TaskForms!FormFitsType
<1>1. TaskForms!Init => TaskFormsInv
  BY DEF TaskForms!Init, TaskForms!Mounted, TaskForms!defaultFormState, TaskFormsInv,
         TaskPanel, TaskFormHooks, TaskForm, TaskCalls, TaskCall
<1>2. TaskFormsInv /\ TaskForms!Next => TaskFormsInv'
  BY TaskFormsPanel, TaskFormsChoice, TaskFormsSave, TaskFormsAnswers DEF TaskForms!Next
<1>3. TaskFormsInv => TaskForms!FormIsOfTheRecord
  BY DEF TaskFormsInv, TaskPanel, TaskCalls, TaskCall, TaskSave, TaskForms!FormIsOfTheRecord,
         TaskForms!OfKind, TaskForms!Free
<1>4. TaskFormsInv => TaskForms!FormFitsType
  BY DEF TaskFormsInv, TaskPanel, TaskForm, TaskCalls, TaskCall, TaskSave,
         TaskForms!FormFitsType, TaskForms!OfKind, TaskForms!Free
<1> QED BY <1>1, <1>2, <1>3, <1>4

LEMMA TaskFormsStay == TaskFormsInv /\ UNCHANGED <<ui, req>> => TaskFormsInv'
BY DEF TaskFormsInv, TaskPanel, TaskCalls

-----------------------------------------------------------------------------
(* The pages of saved connections, the mail senders and the alert sources: *)
(* the panel moves with its form, and what is sent or awaited to be shown  *)
(* carries the connection of its form.                                     *)

PanelHooks == {"items", "loading", "saving", "testing", "querying", "selected", "panelMode",
               "action", "test", "found", "form"}

PanelCall(q) ==
    q # None =>
        /\ q.kind = "save" => q.form.of = q.of
        /\ q.kind = "page" /\ q.after = "save" =>
             DOMAIN q.form = {"of", "value"} /\ q.form.of # None

PanelInv ==
    /\ DOMAIN ui = PanelHooks /\ DOMAIN ui.form = {"of", "value"}
    /\ ui.form.of = ui.selected /\ (ui.panelMode = "edit" <=> ui.selected # None)
    /\ DOMAIN req = Slots /\ \A r \in Slots : PanelCall(req[r])

LEMMA SendersPanel ==
    ASSUME PanelInv,
           \/ Senders!Refresh \/ Senders!openCreatePanel \/ Senders!handleSave \/ Senders!handleTest
           \/ \E c \in Special : Senders!openEditPanel(c) \/ Senders!handleToggleStatus(c)
           \/ \E value \in Senders!Saves : Senders!Edit(value)
    PROVE  PanelInv'
<1> USE DEF PanelInv, PanelHooks, PanelCall, Senders!Set, Senders!Call
<1>1. CASE Senders!Refresh \/ Senders!handleSave \/ Senders!handleTest
  BY <1>1 DEF Senders!Refresh, Senders!handleSave, Senders!handleTest
<1>2. CASE Senders!openCreatePanel
  BY <1>2 DEF Senders!openCreatePanel, Senders!Panel, Senders!defaultForm
<1>3. ASSUME NEW c \in Special, Senders!openEditPanel(c) PROVE PanelInv'
  BY <1>3 DEF Senders!openEditPanel, Senders!Panel
<1>4. ASSUME NEW c \in Special, Senders!handleToggleStatus(c) PROVE PanelInv'
  BY <1>4 DEF Senders!handleToggleStatus
<1>5. ASSUME NEW value \in Senders!Saves, Senders!Edit(value) PROVE PanelInv'
  BY <1>5 DEF Senders!Edit
<1> QED BY <1>1, <1>2, <1>3, <1>4, <1>5

LEMMA ToggledSets ==
    ASSUME NEW r \in Slots, Senders!Toggled(r)
    PROVE  \E items, form :
             /\ Senders!Set([action |-> None, items |-> items, form |-> form])
             /\ form = ui.form \/ \E s : form = [ui.form EXCEPT !.value[2] = s]
<1>1. PICK s, items :
        Senders!Set([action |-> None, items |-> items,
                     form |-> IF req[r].selected # req[r].of THEN ui.form
                              ELSE [ui.form EXCEPT !.value[2] = (<<s, req[r].to[2]>>)[2]]])
  BY DEF Senders!Toggled
<1>2. CASE req[r].selected # req[r].of
  BY <1>1, <1>2
<1>3. CASE req[r].selected = req[r].of
  BY <1>1, <1>3
<1> QED BY <1>2, <1>3

LEMMA SendersAnswers ==
    ASSUME PanelInv, NEW r \in Slots,
           \/ Senders!loadPage(r) \/ Senders!Saved(r) \/ Senders!SaveFailed(r)
           \/ Senders!SaveShown(r) \/ Senders!Toggled(r) \/ Senders!ToggleFailed(r)
           \/ Senders!Tested(r) \/ Senders!TestFailed(r) \/ Senders!TestShown(r)
    PROVE  PanelInv'
<1> USE DEF PanelInv, PanelHooks, PanelCall, Senders!Set, Senders!Return, Senders!Await, Senders!Has,
            Senders!Free
<1>1. CASE Senders!loadPage(r) \/ Senders!SaveFailed(r) \/ Senders!ToggleFailed(r)
  <2>1. CASE Senders!loadPage(r)
    BY <2>1 DEF Senders!loadPage
  <2>2. CASE Senders!SaveFailed(r) \/ Senders!ToggleFailed(r)
    BY <2>2 DEF Senders!SaveFailed, Senders!ToggleFailed
  <2> QED BY <1>1, <2>1, <2>2
<1>2. CASE Senders!Saved(r)
  BY <1>2, NoneIsNoRecord DEF Senders!Saved
<1>3. CASE Senders!SaveShown(r)
  <2>1. DOMAIN req[r].form = {"of", "value"} /\ req[r].form.of # None
    BY <1>3 DEF Senders!SaveShown
  <2>2. /\ DOMAIN ui' = PanelHooks /\ ui'.form = req[r].form
        /\ ui'.selected = req[r].form.of /\ ui'.panelMode = "edit"
    BY <1>3 DEF Senders!SaveShown
  <2>3. DOMAIN req' = Slots /\ \A s \in Slots : PanelCall(req'[s])
    BY <1>3 DEF Senders!SaveShown
  <2> QED BY <2>1, <2>2, <2>3
<1>4. CASE Senders!Toggled(r)
  <2>1. PICK items, form :
          /\ Senders!Set([action |-> None, items |-> items, form |-> form])
          /\ form = ui.form \/ \E s : form = [ui.form EXCEPT !.value[2] = s]
    BY <1>4, ToggledSets
  <2>2. /\ DOMAIN ui' = PanelHooks /\ ui'.selected = ui.selected
        /\ ui'.panelMode = ui.panelMode /\ ui'.form = form
    BY <2>1
  <2>3. DOMAIN ui'.form = {"of", "value"} /\ ui'.form.of = ui.form.of
    BY <2>1, <2>2
  <2>4. DOMAIN req' = Slots /\ \A s \in Slots : PanelCall(req'[s])
    BY <1>4 DEF Senders!Toggled
  <2> QED BY <2>2, <2>3, <2>4
<1>5. CASE Senders!Tested(r) \/ Senders!TestFailed(r) \/ Senders!TestShown(r)
  <2>1. CASE Senders!Tested(r)
    BY <2>1 DEF Senders!Tested
  <2>2. CASE Senders!TestFailed(r)
    BY <2>2 DEF Senders!TestFailed
  <2>3. CASE Senders!TestShown(r)
    BY <2>3 DEF Senders!TestShown
  <2> QED BY <1>5, <2>1, <2>2, <2>3
<1> QED BY <1>1, <1>2, <1>3, <1>4, <1>5

LEMMA SendersForms ==
    /\ Senders!Init => PanelInv
    /\ PanelInv /\ Senders!Next => PanelInv'
    /\ PanelInv => Senders!FormIsOfTheRecord
<1>1. Senders!Init => PanelInv
  BY DEF Senders!Init, Senders!InitialUi, Senders!defaultForm, Senders!Mounted, PanelInv, PanelHooks,
         PanelCall
<1>2. PanelInv /\ Senders!Next => PanelInv'
  BY SendersPanel, SendersAnswers DEF Senders!Next
<1>3. PanelInv => Senders!FormIsOfTheRecord
  BY DEF PanelInv, PanelCall, Senders!FormIsOfTheRecord, Senders!OfKind, Senders!Free
<1> QED BY <1>1, <1>2, <1>3

(* Both are pages of connections: what they share is the same operator.    *)
LEMMA SourcesDoAsSenders ==
    /\ Sources!Init = Senders!Init /\ Sources!Next = Senders!Next
    /\ Sources!UiType = Senders!UiType /\ Sources!Request = Senders!Request
    /\ Sources!FlagsAreReal = Senders!FlagsAreReal
    /\ Sources!FormIsOfTheRecord = Senders!FormIsOfTheRecord
<1>1. Sources!Init = Senders!Init
  BY DEF Sources!Init, Senders!Init, Sources!InitialUi, Senders!InitialUi, Sources!defaultForm,
     Senders!defaultForm, Sources!Mounted, Senders!Mounted
<1>2. /\ Sources!UiType = Senders!UiType /\ Sources!Request = Senders!Request
  BY DEF Sources!UiType, Senders!UiType, Sources!Request, Senders!Request, Sources!Contents,
     Senders!Contents, Sources!Saves, Senders!Saves, Sources!Maybe, Senders!Maybe, Sources!Forms,
     Senders!Forms, Sources!Statuses, Senders!Statuses
<1>3. Sources!FlagsAreReal = Senders!FlagsAreReal
  BY DEF Sources!FlagsAreReal, Senders!FlagsAreReal, Sources!InFlight, Senders!InFlight,
     Sources!After, Senders!After, Sources!Has, Senders!Has, Sources!Free, Senders!Free
<1>4. Sources!Next = Senders!Next
  BY DEF Sources!Next, Senders!Next, Sources!Refresh, Senders!Refresh, Sources!openCreatePanel,
     Senders!openCreatePanel, Sources!handleSave, Senders!handleSave, Sources!handleTest,
     Senders!handleTest, Sources!openEditPanel, Senders!openEditPanel,
     Sources!handleToggleStatus, Senders!handleToggleStatus, Sources!Edit, Senders!Edit,
     Sources!loadPage, Senders!loadPage, Sources!Saved, Senders!Saved, Sources!SaveFailed,
     Senders!SaveFailed, Sources!SaveShown, Senders!SaveShown, Sources!Toggled, Senders!Toggled,
     Sources!ToggleFailed, Senders!ToggleFailed, Sources!Tested, Senders!Tested,
     Sources!TestFailed, Senders!TestFailed, Sources!TestShown, Senders!TestShown,
     Sources!Set, Senders!Set, Sources!Call, Senders!Call, Sources!Return, Senders!Return,
     Sources!Await, Senders!Await, Sources!Has, Senders!Has, Sources!Free, Senders!Free,
     Sources!Panel, Senders!Panel, Sources!defaultForm, Senders!defaultForm,
     Sources!RowIsOffered, Senders!RowIsOffered, Sources!TestIsOffered, Senders!TestIsOffered,
     Sources!hasUnsavedChanges, Senders!hasUnsavedChanges, Sources!Contents, Senders!Contents,
     Sources!Saves, Senders!Saves, Sources!Statuses, Senders!Statuses
<1>5. Sources!FormIsOfTheRecord = Senders!FormIsOfTheRecord
  BY DEF Sources!FormIsOfTheRecord, Senders!FormIsOfTheRecord, Sources!OfKind,
     Senders!OfKind, Sources!Free, Senders!Free
<1> QED BY <1>1, <1>2, <1>3, <1>4, <1>5

LEMMA SourcesForms ==
    /\ Sources!Init => PanelInv
    /\ PanelInv /\ Sources!Next => PanelInv'
    /\ PanelInv => Sources!FormIsOfTheRecord
BY SendersForms, SourcesDoAsSenders

(* The queries of an alert source leave its panel alone.                   *)
LEMMA SourcesQueries == PanelInv /\ Sources!SourcesNext => PanelInv'
<1> SUFFICES ASSUME PanelInv, Sources!SourcesNext PROVE PanelInv'
  OBVIOUS
<1> USE DEF PanelInv, PanelHooks, PanelCall, Sources!Set
<1>1. CASE Sources!handleRunQuery
  BY <1>1 DEF Sources!handleRunQuery, Sources!Call
<1>2. ASSUME NEW r \in Slots, Sources!Queried(r) \/ Sources!QueryFailed(r) PROVE PanelInv'
  BY <1>2 DEF Sources!Queried, Sources!QueryFailed, Sources!Return
<1> QED BY <1>1, <1>2, SourcesForms DEF Sources!SourcesNext

LEMMA PanelStays == PanelInv /\ UNCHANGED <<ui, req>> => PanelInv'
BY DEF PanelInv, PanelCall

-----------------------------------------------------------------------------
(* The pages together: what holds on the page that is shown.               *)

PagesInv ==
    /\ page = "ticket"    => TicketInv
    /\ page = "rendering" => RenderingInv
    /\ page = "rules"     => RulesInv
    /\ page = "articles"  => ArticlesInv
    /\ page = "tasks"     => TasksInv
    /\ page = "taskTmpls" => TaskFormsInv
    /\ page = "repTmpls"  => TemplatesInv
    /\ page \in {"senders", "sources"} => PanelInv
    /\ page = "tickets"   => ListInv
    /\ page \in {"reports", "busy"} => ReportsInv

LEMMA PagesInit == Init => PagesInv
BY TicketInit, RenderingInit, RulesForms, ArticlesForms, TasksInit, TaskFormsForms,
   TemplatesForms, SendersForms, SourcesForms, ListInit, ReportListSafe, ReportBusySafe
   DEF Init, Starts, PagesInv

LEMMA PagesStep == PagesInv /\ Next => PagesInv'
<1> SUFFICES ASSUME PagesInv, Next PROVE PagesInv'
  OBVIOUS
<1>1. page' = page
  BY DEF Next
<1>2. ASSUME page = "ticket", TicketView!Next PROVE PagesInv'
  BY <1>1, <1>2, TicketStep DEF PagesInv
<1>3. ASSUME page = "users" PROVE PagesInv'
  BY <1>1, <1>3 DEF PagesInv
<1>4. ASSUME Moves PROVE PagesInv'
  <2>1. CASE page \in {"rendering", "rules", "articles", "tasks"}
    BY <1>1, <1>4, <2>1, RenderingStep, RulesForms, ArticlesForms, TasksStep
       DEF Moves, PagesInv
  <2>2. CASE page \in {"taskTmpls", "repTmpls", "senders", "sources"}
    BY <1>1, <1>4, <2>2, TaskFormsForms, TemplatesForms, SendersForms, SourcesQueries
       DEF Moves, PagesInv
  <2>3. CASE page \in {"tokens", "tickets", "reports", "busy"}
    BY <1>1, <1>4, <2>3, ListStep, ReportListSafe, ReportBusySafe DEF Moves, PagesInv
  <2>4. page \in {"rendering", "rules", "articles", "tasks", "taskTmpls", "repTmpls",
                  "senders", "sources", "tokens", "tickets", "reports", "busy"}
    BY <1>4 DEF Moves
  <2> QED BY <2>1, <2>2, <2>3, <2>4
<1> QED BY <1>2, <1>3, <1>4 DEF Next

LEMMA PagesStay == PagesInv /\ UNCHANGED vars => PagesInv'
BY TicketStays, RenderingStays, RulesStay, ArticlesStay, TasksStays, TaskFormsStay,
   TemplatesStay, PanelStays, ListStays, ReportsStay
   DEF PagesInv, vars

(* On the pages that PagesInv names, what the answers, forms and drawers   *)
(* are about is what the requests in flight will bring.                    *)
THEOREM PagesInvariant == Spec => []PagesInv
<1>1. PagesInv /\ [Next]_vars => PagesInv'
  BY PagesStep, PagesStay
<1> QED BY PagesInit, <1>1, PTL DEF Spec

(* However live refreshes, saves and the changes of other people interleave *)
(* on the detail page of a ticket, an edit that its server would accept was *)
(* made over the basics the server holds (pages/TicketDetailPage.tsx).      *)
THEOREM CurrentBasics == Spec => []EditIsMadeOverCurrentBasics
<1>1. PagesInv => EditIsMadeOverCurrentBasics
  BY TicketSafety DEF PagesInv, EditIsMadeOverCurrentBasics
<1> QED BY PagesInvariant, <1>1, PTL

(* No late answer to an earlier question is shown where the code tells it  *)
(* apart: the task drawer, the rows and the drawer of the ticket list, the *)
(* templates that a report's drawer offers, a live refresh of the ticket   *)
(* in the URL; and a view of the template page has a template.  Of the     *)
(* users page and of whatever else Pages excepts, nothing is said.         *)
THEOREM AskedFor == Spec => []ShownIsAskedFor
<1>1. PagesInv => ShownIsAskedFor
  BY TicketSafety, RenderingSafety, ListSafety, ReportListSafe, ReportBusySafe
     DEF PagesInv, ShownIsAskedFor, TasksInv
<1> QED BY PagesInvariant, <1>1, PTL

(* No late answer puts one record's fields under another one's identity in *)
(* the forms of event rules, articles, task and report templates and       *)
(* connections: such a form, once loaded, and such a save in flight are of *)
(* the record that is named, and in the shape of the record's type.  Of    *)
(* the forms of users, groups and reports nothing is said.                 *)
THEOREM FormsOfRecords == Spec => []FormIsOfTheRecord
<1>1. PagesInv => FormIsOfTheRecord
  BY RulesForms, ArticlesForms, TaskFormsForms, TemplatesForms, SendersForms, SourcesForms
     DEF PagesInv, FormIsOfTheRecord
<1> QED BY PagesInvariant, <1>1, PTL
=============================================================================
