---------------------------- MODULE Notifications ----------------------------
(***************************************************************************)
(* The notifications of one user, in the database, on the socket and in    *)
(* the tabs of the browser.  HTTP handlers run in threads, the handlers of *)
(* the socket in the event loop of the one API process:                    *)
(* backend/app/modules/realtime/service.py and socket_server.py, and       *)
(* frontend/src/contexts/RealtimeContext.tsx.                              *)
(***************************************************************************)
EXTENDS Naturals, Sequences

CONSTANTS
    Notes,          \* identities of UserNotification rows
    Actionable,     \* those that ask for the answer to an escalation
    Tabs,           \* tabs of the browser
    NoNote,         \* no notification
    MaxRequests,    \* bound on the requests of all tabs
    MaxDrops,       \* bound on lost connections
    MaxFailures     \* bound on crashes and failed emissions

ASSUME NotificationsAssumption ==
    /\ Actionable \subseteq Notes /\ NoNote \notin Notes
    /\ MaxRequests \in Nat /\ MaxDrops \in Nat /\ MaxFailures \in Nat

VARIABLES
    row,          \* the rows
    answered,     \* the notes whose escalation has been answered
    acknowledged, \* how often an acknowledgement changed a row
    deliverer,    \* the handler that delivers each note
    loop,         \* the acknowledgement handled in the event loop
    echoes,       \* emissions the event loop still owes
    replay,       \* what the connect handler of each tab still has to emit
    tab, view,    \* the connection of each tab and what it shows
    http,         \* the request of each tab
    fetched,      \* the list in its response
    channel,      \* messages on the way to each tab
    acks,         \* notification.ack on the way to the server
    requests, drops, failures

server  == <<deliverer, loop, echoes, replay>>
client  == <<tab, view, http, fetched>>
network == <<channel, acks>>
bounds  == <<requests, drops, failures>>
vars    == <<row, answered, acknowledged, server, client, network, bounds>>

(* What a message or a list says of a notification. *)
Face    == [status: {"absent", "pending", "delivered", "read"},
            action: {"none", "pending", "completed"}]
Row     == [status: {"absent", "pending", "delivered", "read"},
            action: {"none", "pending", "completed"}, read_at: BOOLEAN]
Message == [kind: {"created", "updated"}, note: Notes, face: Face]
Loop    == [pc: {"idle", "loaded", "committed"}, note: Notes \cup {NoNote}, face: Face]
Http    == [op: {"none", "list", "read", "answer"}, note: Notes \cup {NoNote}, face: Face,
            pc: {"request", "answered", "loaded", "committed", "emitted", "fetched"}]

Nothing == [status |-> "absent", action |-> "none"]
FaceOf(r) == [status |-> r.status, action |-> r.action]
Unseen(n) == [status |-> "pending", action |-> IF n \in Actionable THEN "pending" ELSE "none"]

Idle       == [pc |-> "idle", note |-> NoNote, face |-> Nothing]
NoRequest  == [op |-> "none", pc |-> "request", note |-> NoNote, face |-> Nothing]
Request(op, n) == [NoRequest EXCEPT !.op = op, !.note = n]

TypeOK ==
    /\ row \in [Notes -> Row]
    /\ answered \subseteq Actionable
    /\ acknowledged \in [Notes -> Nat]
    /\ deliverer \in [Notes -> {"idle", "stored", "done"}]
    /\ loop \in Loop
    /\ echoes \subseteq Message
    /\ replay \in [Tabs -> SUBSET Notes]
    /\ tab \in [Tabs -> {"closed", "booting", "connecting", "joined", "replaying", "online"}]
    /\ view \in [Tabs -> [Notes -> Face]]
    /\ http \in [Tabs -> Http]
    /\ fetched \in [Tabs -> [Notes -> Face]]
    /\ channel \in [Tabs -> Seq(Message)]
    /\ acks \subseteq Tabs \X Notes
    /\ requests \in Nat /\ drops \in Nat /\ failures \in Nat

EmptyView == [n \in Notes |-> Nothing]

Init ==
    /\ row = [n \in Notes |-> [status |-> "absent", action |-> "none", read_at |-> FALSE]]
    /\ answered = {}
    /\ acknowledged = [n \in Notes |-> 0]
    /\ deliverer = [n \in Notes |-> "idle"]
    /\ loop = Idle
    /\ echoes = {}
    /\ replay = [t \in Tabs |-> {}]
    /\ tab = [t \in Tabs |-> "closed"]
    /\ view = [t \in Tabs |-> EmptyView]
    /\ http = [t \in Tabs |-> NoRequest]
    /\ fetched = [t \in Tabs |-> EmptyView]
    /\ channel = [t \in Tabs |-> <<>>]
    /\ acks = {}
    /\ requests = 0 /\ drops = 0 /\ failures = 0

-----------------------------------------------------------------------------
(* The room of the user.                                                   *)

\* Faulty: the socket enters the room after the pending notes were read.
InRoomOnline(t) == tab[t] = "online"

InRoom(t) == tab[t] \in {"joined", "replaying", "online"}

About(kind, n, face) == [kind |-> kind, note |-> n, face |-> face]

Emit(message) ==
    channel' = [t \in Tabs |-> IF InRoom(t) THEN Append(channel[t], message) ELSE channel[t]]

Fails == failures < MaxFailures /\ failures' = failures + 1

(* A message reaches the room or is lost with Redis, unnoticed. *)
Broadcast(message) ==
    \/ Emit(message) /\ UNCHANGED failures
    \/ Fails /\ UNCHANGED channel

-----------------------------------------------------------------------------
(* _persist_notification: stored and read back, then emitted.              *)

Store(n) ==
    /\ deliverer[n] = "idle"
    /\ row' = [row EXCEPT ![n].status = Unseen(n).status, ![n].action = Unseen(n).action]
    /\ deliverer' = [deliverer EXCEPT ![n] = "stored"]
    /\ UNCHANGED <<answered, acknowledged, loop, echoes, replay, client, network, bounds>>

EmitCreated(n) ==
    /\ deliverer[n] = "stored"
    /\ Broadcast(About("created", n, Unseen(n)))
    /\ deliverer' = [deliverer EXCEPT ![n] = "done"]
    /\ UNCHANGED <<row, answered, acknowledged, loop, echoes, replay, client, acks, requests, drops>>

Deliver(n) == Store(n) \/ EmitCreated(n)

-----------------------------------------------------------------------------
(* The event loop: acknowledge_notification runs in it without a pause, so *)
(* acknowledgements do not interleave with each other, only with threads.  *)

LoopIsFree == loop.pc = "idle"

\* Faulty: a note that was acknowledged before is acknowledged again.
AckLoadAny(t, n) ==
    /\ LoopIsFree /\ <<t, n>> \in acks
    /\ acks' = acks \ {<<t, n>>}
    /\ loop' = [Idle EXCEPT !.pc = "loaded", !.note = n]
    /\ UNCHANGED <<row, answered, acknowledged, deliverer, echoes, replay, client, channel, bounds>>

AckLoad(t, n) ==
    /\ LoopIsFree /\ <<t, n>> \in acks
    /\ acks' = acks \ {<<t, n>>}
    /\ loop' = IF row[n].status = "pending" THEN [Idle EXCEPT !.pc = "loaded", !.note = n] ELSE loop
    /\ UNCHANGED <<row, answered, acknowledged, deliverer, echoes, replay, client, channel, bounds>>

AckCommit ==
    /\ loop.pc = "loaded"
    /\ row' = [row EXCEPT ![loop.note].status = "delivered"]
    /\ acknowledged' = [acknowledged EXCEPT ![loop.note] = @ + 1]
    /\ loop' = [loop EXCEPT !.pc = "committed", !.face = FaceOf(row'[loop.note])]
    /\ UNCHANGED <<answered, deliverer, echoes, replay, client, network, bounds>>

(* The service schedules an emission and the socket handler makes another. *)
AckEmit ==
    LET message == About("updated", loop.note, loop.face)
    IN  /\ loop.pc = "committed"
        /\ Broadcast(message)
        /\ echoes' = echoes \cup {message}
        /\ loop' = Idle
        /\ UNCHANGED <<row, answered, acknowledged, deliverer, replay, client, acks, requests, drops>>

Echo ==
    /\ LoopIsFree
    /\ \E message \in echoes : Broadcast(message) /\ echoes' = echoes \ {message}
    /\ UNCHANGED <<row, answered, acknowledged, deliverer, loop, replay, client, acks, requests, drops>>

Acknowledge == AckCommit \/ AckEmit

(* The connect handler: the room first, then the pending notes.            *)

Join(t) ==
    /\ LoopIsFree
    /\ tab[t] = "connecting" /\ replay[t] = {}
    /\ tab' = [tab EXCEPT ![t] = "joined"]
    /\ UNCHANGED <<row, answered, acknowledged, server, view, http, fetched, network, bounds>>

\* Faulty: nothing is delivered later.
QueryNothing(t) ==
    /\ LoopIsFree
    /\ tab[t] = "joined"
    /\ tab' = [tab EXCEPT ![t] = "replaying"]
    /\ UNCHANGED <<row, answered, acknowledged, server, view, http, fetched, network, bounds>>

QueryPending(t) ==
    /\ LoopIsFree
    /\ tab[t] = "joined"
    /\ tab' = [tab EXCEPT ![t] = "replaying"]
    /\ replay' = [replay EXCEPT ![t] = {n \in Notes : row[n].status = "pending"}]
    /\ UNCHANGED <<row, answered, acknowledged, deliverer, loop, echoes, view, http, fetched, network, bounds>>

Replay(t) ==
    /\ LoopIsFree
    /\ \E n \in replay[t] :
        /\ Broadcast(About("created", n, Unseen(n)))
        /\ replay' = [replay EXCEPT ![t] = @ \ {n}]
    /\ UNCHANGED <<row, answered, acknowledged, deliverer, loop, echoes, client, acks, requests, drops>>

Accept(t) ==
    /\ LoopIsFree
    /\ tab[t] = "replaying" /\ replay[t] = {}
    /\ tab' = [tab EXCEPT ![t] = "online"]
    /\ UNCHANGED <<row, answered, acknowledged, server, view, http, fetched, network, bounds>>

Connect(t) == QueryPending(t) \/ Replay(t) \/ Accept(t)

-----------------------------------------------------------------------------
(* HTTP handlers, each in a thread: list_notifications, ...                *)

At(t, op, pc) == http[t].op = op /\ http[t].pc = pc

Query(t) ==
    /\ At(t, "list", "request")
    /\ fetched' = [fetched EXCEPT ![t] = [n \in Notes |-> FaceOf(row[n])]]
    /\ http' = [http EXCEPT ![t].pc = "fetched"]
    /\ UNCHANGED <<row, answered, acknowledged, server, tab, view, network, bounds>>

(* ... mark_notification_read, which writes only if it read another status,*)
ReadLoad(t) ==
    /\ At(t, "read", "request")
    /\ http' = [http EXCEPT ![t].pc = IF row[http[t].note].status = "read" THEN "committed" ELSE "loaded",
                            ![t].face = FaceOf(row[http[t].note])]
    /\ UNCHANGED <<row, answered, acknowledged, server, tab, view, fetched, network, bounds>>

\* Faulty: a note that is read counts as dealt with.
ReadCommitCompletes(t) ==
    /\ At(t, "read", "loaded")
    /\ row' = [row EXCEPT ![http[t].note] = [status |-> "read", action |-> "completed", read_at |-> TRUE]]
    /\ http' = [http EXCEPT ![t].pc = "committed", ![t].face = FaceOf(row'[http[t].note])]
    /\ UNCHANGED <<answered, acknowledged, server, tab, view, fetched, network, bounds>>

ReadCommit(t) ==
    /\ At(t, "read", "loaded")
    /\ row' = [row EXCEPT ![http[t].note].status = "read", ![http[t].note].read_at = TRUE]
    /\ http' = [http EXCEPT ![t].pc = "committed", ![t].face = FaceOf(row'[http[t].note])]
    /\ UNCHANGED <<answered, acknowledged, server, tab, view, fetched, network, bounds>>

(* ... and the answer to an escalation, then resolve_notification_action,  *)
(* whose UPDATE leaves out a status it need not change.                    *)
AnswerCommit(t) ==
    /\ At(t, "answer", "request")
    /\ IF http[t].note \in answered
       THEN http' = [http EXCEPT ![t] = NoRequest] /\ UNCHANGED answered
       ELSE /\ answered' = answered \cup {http[t].note}
            /\ http' = [http EXCEPT ![t].pc = "answered"]
    /\ UNCHANGED <<row, acknowledged, server, tab, view, fetched, network, bounds>>

\* Faulty: a note that is read already is taken for resolved.
ResolveLoadUnread(t) ==
    /\ At(t, "answer", "answered")
    /\ http' = [http EXCEPT ![t].face = FaceOf(row[http[t].note]),
                            ![t].pc = IF row[http[t].note].status = "read" THEN "emitted" ELSE "loaded"]
    /\ UNCHANGED <<row, answered, acknowledged, server, tab, view, fetched, network, bounds>>

ResolveLoad(t) ==
    /\ At(t, "answer", "answered")
    /\ http' = [http EXCEPT ![t].pc = "loaded", ![t].face = FaceOf(row[http[t].note])]
    /\ UNCHANGED <<row, answered, acknowledged, server, tab, view, fetched, network, bounds>>

ResolveCommit(t) ==
    /\ At(t, "answer", "loaded")
    /\ row' = [row EXCEPT ![http[t].note] =
                  [status  |-> IF http[t].face.status = "read" THEN @.status ELSE "read",
                   action  |-> "completed",
                   read_at |-> TRUE]]
    /\ http' = [http EXCEPT ![t].pc = "committed", ![t].face = FaceOf(row'[http[t].note])]
    /\ UNCHANGED <<answered, acknowledged, server, tab, view, fetched, network, bounds>>

EmitUpdated(t) ==
    /\ http[t].pc = "committed"
    /\ Broadcast(About("updated", http[t].note, http[t].face))
    /\ http' = [http EXCEPT ![t].pc = "emitted"]
    /\ UNCHANGED <<row, answered, acknowledged, server, tab, view, fetched, acks, requests, drops>>

-----------------------------------------------------------------------------
(* The client.                                                             *)

Shown(t, n) == view[t][n].status # "absent"

(* setNotifications(payload.items); a new tab opens its socket then.       *)
ApplyList(t) ==
    /\ At(t, "list", "fetched")
    /\ view' = [view EXCEPT ![t] = fetched[t]]
    /\ fetched' = [fetched EXCEPT ![t] = EmptyView]
    /\ tab' = [tab EXCEPT ![t] = IF @ = "booting" THEN "connecting" ELSE @]
    /\ http' = [http EXCEPT ![t] = NoRequest]
    /\ UNCHANGED <<row, answered, acknowledged, server, network, bounds>>

(* The response of markAsRead replaces the item, that of an answer is      *)
(* followed by refreshNotifications.                                       *)
Respond(t) ==
    /\ http[t].pc = "emitted"
    /\ IF http[t].op = "read"
       THEN /\ view' = [view EXCEPT ![t][http[t].note] = IF Shown(t, http[t].note) THEN http[t].face ELSE @]
            /\ http' = [http EXCEPT ![t] = NoRequest]
       ELSE http' = [http EXCEPT ![t] = Request("list", NoNote)] /\ UNCHANGED view
    /\ UNCHANGED <<row, answered, acknowledged, server, tab, fetched, network, bounds>>

Serve(t) ==
    \/ Query(t) \/ ApplyList(t)
    \/ ReadLoad(t) \/ ReadCommit(t)
    \/ AnswerCommit(t) \/ ResolveLoad(t) \/ ResolveCommit(t)
    \/ EmitUpdated(t) \/ Respond(t)

Ask(t, op, n) ==
    /\ tab[t] \notin {"closed", "booting"}
    /\ http[t] = NoRequest
    /\ requests < MaxRequests
    /\ requests' = requests + 1
    /\ http' = [http EXCEPT ![t] = Request(op, n)]
    /\ UNCHANGED <<row, answered, acknowledged, server, tab, fetched, network, drops, failures>>

\* Faulty: the tab shows the note as read before the server has answered.
StartReadOptimistic(t, n) ==
    /\ Shown(t, n) /\ view[t][n].status # "read"
    /\ Ask(t, "read", n)
    /\ view' = [view EXCEPT ![t][n].status = "read"]

StartRefresh(t) == Ask(t, "list", NoNote) /\ UNCHANGED view
StartRead(t, n) == Shown(t, n) /\ view[t][n].status # "read" /\ Ask(t, "read", n) /\ UNCHANGED view
StartAnswer(t, n) == view[t][n].action = "pending" /\ Ask(t, "answer", n) /\ UNCHANGED view

Open(t) ==
    /\ tab[t] = "closed"
    /\ tab' = [tab EXCEPT ![t] = "booting"]
    /\ http' = [http EXCEPT ![t] = Request("list", NoNote)]
    /\ UNCHANGED <<row, answered, acknowledged, server, view, fetched, network, bounds>>

(* Messages that arrive while the tab connects wait until it has.          *)
Receive(t) ==
    LET message == Head(channel[t])
        n == message.note
    IN  /\ tab[t] = "online" /\ channel[t] # <<>>
        /\ channel' = [channel EXCEPT ![t] = Tail(@)]
        /\ view' = [view EXCEPT ![t][n] = IF message.kind = "created" \/ Shown(t, n) THEN message.face ELSE @]
        /\ acks' = IF message.kind = "created" THEN acks \cup {<<t, n>>} ELSE acks
        /\ UNCHANGED <<row, answered, acknowledged, server, tab, http, fetched, bounds>>

(* A lost connection; the client of the socket connects again by itself.   *)
Drop(t) ==
    /\ InRoom(t)
    /\ drops < MaxDrops /\ drops' = drops + 1
    /\ tab' = [tab EXCEPT ![t] = "connecting"]
    /\ channel' = [channel EXCEPT ![t] = <<>>]
    /\ acks' \in {acks, acks \ ({t} \X Notes)}
    /\ UNCHANGED <<row, answered, acknowledged, server, view, http, fetched, requests, failures>>

(* The API process dies with its handlers and sockets. *)
Crash ==
    /\ Fails
    /\ deliverer' = [n \in Notes |-> IF deliverer[n] = "idle" THEN "idle" ELSE "done"]
    /\ loop' = Idle /\ echoes' = {}
    /\ replay' = [t \in Tabs |-> {}]
    /\ tab' = [t \in Tabs |-> IF tab[t] \in {"closed", "booting"} THEN "closed" ELSE "connecting"]
    /\ http' = [t \in Tabs |-> NoRequest]
    /\ fetched' = [t \in Tabs |-> EmptyView]
    /\ channel' = [t \in Tabs |-> <<>>]
    /\ acks' = {}
    /\ UNCHANGED <<row, answered, acknowledged, view, requests, drops>>

-----------------------------------------------------------------------------
Socket(t) ==
    \/ Join(t) \/ Connect(t) \/ Receive(t) \/ Drop(t)
    \/ \E n \in Notes : AckLoad(t, n)

Browse(t) ==
    \/ Open(t) \/ StartRefresh(t) \/ Serve(t)
    \/ \E n \in Notes : StartRead(t, n) \/ StartAnswer(t, n)

Next ==
    \/ \E n \in Notes : Deliver(n)
    \/ Acknowledge \/ Echo
    \/ \E t \in Tabs : Socket(t) \/ Browse(t)
    \/ Crash

Spec == Init /\ [][Next]_vars

(* Threads, the event loop and the scripts of a tab run on; users, their   *)
(* connections and crashes come as they like.                              *)
FairSpec ==
    /\ Spec
    /\ \A n \in Notes : WF_vars(EmitCreated(n))
    /\ WF_vars(Acknowledge) /\ WF_vars(Echo)
    /\ \A t \in Tabs :
        /\ WF_vars(Connect(t)) /\ WF_vars(Receive(t)) /\ WF_vars(Serve(t))
        /\ \A n \in Notes : WF_vars(AckLoad(t, n))

-----------------------------------------------------------------------------
(* Safety.                                                                 *)

(* Only the first of the acknowledgements of several tabs changes the row. *)
FirstAckOnly == \A n \in Notes : acknowledged[n] <= 1

(* Reading a note is not answering it: neither the row nor any tab takes   *)
(* an action for completed before the escalation was answered.             *)
CompletedMeansAnswered ==
    \A n \in Notes :
        (row[n].action = "completed" \/ \E t \in Tabs : view[t][n].action = "completed")
            => n \in answered

(* A tab shows a note as read only if it has been read, whatever order     *)
(* messages, lists and responses arrive in and whatever fails.             *)
ShownReadIsRead ==
    \A t \in Tabs, n \in Notes : view[t][n].status = "read" => row[n].read_at

-----------------------------------------------------------------------------
(* Liveness.                                                               *)

(* Nothing falls between the emission and the replay: a pending note       *)
(* reaches a tab that stays connected, and the tab acknowledges it.        *)
PendingIsAcknowledged ==
    \A n \in Notes, t \in Tabs :
        row[n].status = "pending" /\ tab[t] = "online" ~>
            row[n].status # "pending" \/ tab[t] # "online" \/ failures > 0

(* A note whose emission was lost reaches the next tab that connects, if   *)
(* nothing fails again.                                                    *)
MissedIsReplayed ==
    \A n \in Notes, t \in Tabs, f \in 0..MaxFailures :
        row[n].status = "pending" /\ tab[t] = "joined" /\ failures = f ~>
            row[n].status # "pending" \/ ~InRoom(t) \/ failures > f

(* The card of an answered escalation is completed, read before or not.    *)
AnsweredIsCompleted ==
    \A n \in Actionable : n \in answered ~> row[n].action = "completed" \/ failures > 0
=============================================================================
