------------------------- MODULE NotificationsProofs -------------------------
(***************************************************************************)
(* Proofs about Notifications for any number of notes and tabs: whatever   *)
(* the handlers, messages and tabs hold of a note was true of its row.     *)
(***************************************************************************)
EXTENDS Notifications, TLAPS

(* What a face says of a note has come true; both facts are never undone.  *)
Truth(n, face) ==
    /\ face.status = "read" => row[n].read_at
    /\ face.action = "completed" => n \in answered
    /\ face.action # "none" => n \in Actionable

RowsSound  == \A n \in Notes : Truth(n, row[n])
EchoesSound == \A m \in echoes : Truth(m.note, m.face)
ViewsSound == \A t \in Tabs, n \in Notes : Truth(n, view[t][n])
ListsSound == \A t \in Tabs, n \in Notes : Truth(n, fetched[t][n])
ChannelsSound ==
    \A t \in Tabs : \A i \in DOMAIN channel[t] : Truth(channel[t][i].note, channel[t][i].face)

LoopSound ==
    /\ loop.pc # "idle" => loop.note \in Notes
    /\ loop.pc = "committed" => Truth(loop.note, loop.face)

RequestSound(r) ==
    /\ r.op = "read" => r.note \in Notes
    /\ r.op = "answer" => r.note \in Actionable /\ (r.pc # "request" => r.note \in answered)
    /\ r.pc \in {"loaded", "committed", "emitted"} => r.op \in {"read", "answer"} /\ Truth(r.note, r.face)

RequestsSound == \A t \in Tabs : RequestSound(http[t])

(* A note is acknowledged while it is pending, and it is pending once.     *)
AcksSound ==
    /\ \A n \in Notes :
        /\ acknowledged[n] <= 1
        /\ row[n].status = "pending" => acknowledged[n] = 0
        /\ deliverer[n] = "idle" => acknowledged[n] = 0 /\ row[n].status # "pending"
    /\ loop.pc = "loaded" => acknowledged[loop.note] = 0 /\ deliverer[loop.note] # "idle"

IInv ==
    /\ TypeOK
    /\ RowsSound /\ EchoesSound /\ ViewsSound /\ ListsSound /\ ChannelsSound
    /\ LoopSound /\ RequestsSound /\ AcksSound

USE NotificationsAssumption DEF NotificationsAssumption

LEMMA InitIInv == Init => IInv
BY DEF Init, IInv, TypeOK, RowsSound, EchoesSound, ViewsSound, ListsSound, ChannelsSound, LoopSound,
       RequestsSound, RequestSound, AcksSound, Truth, Row, Face, Message, Loop, Http, Idle, Nothing,
              NoRequest,
       EmptyView

LEMMA Emitted ==
    ASSUME TypeOK, NEW m \in Message, Emit(m)
    PROVE  /\ channel' \in [Tabs -> Seq(Message)]
           /\ \A t \in Tabs : \A i \in DOMAIN channel'[t] :
                channel'[t][i] = m \/ (i \in DOMAIN channel[t] /\ channel'[t][i] = channel[t][i])
<1> SUFFICES ASSUME NEW t \in Tabs
             PROVE  /\ channel'[t] \in Seq(Message)
                    /\ \A i \in DOMAIN channel'[t] :
                        channel'[t][i] = m \/ (i \in DOMAIN channel[t] /\ channel'[t][i] = channel[t][i])
    BY DEF Emit
<1>1. channel[t] \in Seq(Message)
    BY DEF TypeOK
<1>2. channel'[t] = Append(channel[t], m) \/ channel'[t] = channel[t]
    BY DEF Emit
<1> QED BY <1>1, <1>2

(* What a row says is true, as a message that quotes it is. *)
LEMMA RowQuoted ==
    ASSUME IInv, NEW n \in Notes
    PROVE  /\ row[n] \in Row /\ FaceOf(row[n]) \in Face
           /\ FaceOf(row[n]).status = row[n].status /\ FaceOf(row[n]).action = row[n].action
           /\ Truth(n, FaceOf(row[n]))
BY DEF IInv, TypeOK, RowsSound, Row, Face, FaceOf, Truth

LEMMA Quoted ==
    ASSUME NEW r \in Row
    PROVE  FaceOf(r) \in Face /\ FaceOf(r).status = r.status /\ FaceOf(r).action = r.action
BY DEF Row, Face, FaceOf

LEMMA CreatedMessage ==
    ASSUME NEW n \in Notes
    PROVE  About("created", n, Unseen(n)) \in Message /\ Truth(n, Unseen(n))
BY DEF About, Unseen, Message, Face, Truth

LEMMA EmittedTruth ==
    ASSUME IInv, NEW m \in Message, Truth(m.note, m.face), Broadcast(m), UNCHANGED <<row, answered>>
    PROVE  channel' \in [Tabs -> Seq(Message)] /\ failures' \in Nat /\ ChannelsSound'
<1>0. failures' \in Nat
    BY DEF IInv, TypeOK, Broadcast, Fails
<1>1. /\ channel' \in [Tabs -> Seq(Message)]
      /\ \A t \in Tabs : \A i \in DOMAIN channel'[t] :
            channel'[t][i] = m \/ (i \in DOMAIN channel[t] /\ channel'[t][i] = channel[t][i])
    <2>1. CASE Emit(m)
        BY <2>1, Emitted DEF IInv
    <2>2. CASE UNCHANGED channel
        BY <2>2 DEF IInv, TypeOK
    <2> QED BY <2>1, <2>2 DEF Broadcast
<1> SUFFICES ASSUME NEW t \in Tabs, NEW i \in DOMAIN channel'[t]
             PROVE  Truth(channel[t][i].note, channel[t][i].face)'
    BY <1>0, <1>1 DEF ChannelsSound
<1>2. CASE channel'[t][i] = m
    BY <1>2 DEF Truth
<1>3. CASE i \in DOMAIN channel[t] /\ channel'[t][i] = channel[t][i]
    BY <1>3 DEF Truth, IInv, ChannelsSound
<1> QED BY <1>1, <1>2, <1>3

LEMMA RequestMoves ==
    ASSUME NEW h \in Http, NEW g, NEW pc \in {"request", "answered", "loaded", "committed", "emitted",
           "fetched"},
           g = [h EXCEPT !.pc = pc]
    PROVE  g \in Http /\ g.op = h.op /\ g.note = h.note /\ g.face = h.face /\ g.pc = pc
BY DEF Http

LEMMA RequestLearns ==
    ASSUME NEW h \in Http, NEW g, NEW face \in Face,
           NEW pc \in {"request", "answered", "loaded", "committed", "emitted", "fetched"},
           g = [h EXCEPT !.pc = pc, !.face = face]
    PROVE  g \in Http /\ g.op = h.op /\ g.note = h.note /\ g.face = face /\ g.pc = pc
BY DEF Http

LEMMA NewRequests ==
    ASSUME NEW op \in {"list", "read", "answer"}, NEW n \in Notes \cup {NoNote}
    PROVE  /\ Request(op, n) \in Http
           /\ Request(op, n).op = op /\ Request(op, n).note = n /\ Request(op, n).pc = "request"
BY DEF Http, NoRequest, Request, Nothing, Face

LEMMA RequestFacts ==
    ASSUME IInv, NEW t \in Tabs
    PROVE  /\ http[t] \in Http /\ RequestSound(http[t])
           /\ http[t].op \in {"read", "answer"} => http[t].note \in Notes
BY DEF IInv, TypeOK, RequestsSound, RequestSound, Http

LEMMA Blanks ==
    /\ NoRequest \in Http /\ NoRequest.op = "none" /\ NoRequest.pc = "request"
    /\ Idle \in Loop /\ Idle.pc = "idle"
    /\ EmptyView \in [Notes -> Face] /\ \A n \in Notes : Truth(n, EmptyView[n])
BY DEF NoRequest, Idle, EmptyView, Nothing, Http, Loop, Face, Truth

(* What was true of a note stays true, wherever it is written down. *)
LEMMA TruthLasts ==
    ASSUME IInv, answered \subseteq answered', \A n \in Notes : row[n].read_at => row'[n].read_at
    PROVE  /\ UNCHANGED echoes  => EchoesSound'
           /\ UNCHANGED view    => ViewsSound'
           /\ UNCHANGED fetched => ListsSound'
           /\ UNCHANGED channel => ChannelsSound'
           /\ UNCHANGED loop    => LoopSound'
           /\ UNCHANGED http    => RequestsSound'
           /\ \A t \in Tabs : http'[t] = http[t] => RequestSound(http[t])'
           /\ UNCHANGED <<row, answered>> => RowsSound'
           /\ UNCHANGED <<row, acknowledged, deliverer, loop>> => AcksSound'
<1>1. UNCHANGED echoes => EchoesSound'
    BY DEF IInv, TypeOK, EchoesSound, Truth, Message
<1>2. UNCHANGED view => ViewsSound'
    BY DEF IInv, ViewsSound, Truth
<1>3. UNCHANGED fetched => ListsSound'
    BY DEF IInv, ListsSound, Truth
<1>4. ASSUME UNCHANGED channel PROVE ChannelsSound'
    <2> SUFFICES ASSUME NEW t \in Tabs, NEW i \in DOMAIN channel[t]
                 PROVE  Truth(channel[t][i].note, channel[t][i].face)'
        BY <1>4 DEF ChannelsSound
    <2>1. channel[t][i] \in Message
        BY DEF IInv, TypeOK
    <2>2. Truth(channel[t][i].note, channel[t][i].face)
        BY DEF IInv, ChannelsSound
    <2> QED BY <1>4, <2>1, <2>2 DEF Truth, Message
<1>5. UNCHANGED loop => LoopSound'
    BY DEF IInv, LoopSound, Truth
<1>6. ASSUME NEW t \in Tabs, http'[t] = http[t] PROVE RequestSound(http[t])'
    <2>1. RequestSound(http[t])
        BY DEF IInv, RequestsSound
    <2> QED BY <1>6, <2>1 DEF RequestSound, Truth
<1>7. UNCHANGED http => RequestsSound'
    BY <1>6 DEF RequestsSound
<1>8. UNCHANGED <<row, answered>> => RowsSound'
    BY DEF IInv, RowsSound, Truth
<1>9. UNCHANGED <<row, acknowledged, deliverer, loop>> => AcksSound'
    BY DEF IInv, AcksSound
<1> QED BY <1>1, <1>2, <1>3, <1>4, <1>5, <1>6, <1>7, <1>8, <1>9

(* A step that changes the request of one tab. *)
LEMMA RequestSteps ==
    ASSUME IInv, NEW t \in Tabs,
           answered \subseteq answered', \A n \in Notes : row[n].read_at => row'[n].read_at,
           http' = [http EXCEPT ![t] = http'[t]], http'[t] \in Http, RequestSound(http[t])'
    PROVE  http' \in [Tabs -> Http] /\ RequestsSound'
<1>1. http' \in [Tabs -> Http]
    BY DEF IInv, TypeOK
<1>2. ASSUME NEW s \in Tabs PROVE RequestSound(http[s])'
    <2>1. CASE s = t
        BY <2>1
    <2>2. CASE s # t
        BY <2>2, TruthLasts DEF IInv, TypeOK
    <2> QED BY <2>1, <2>2
<1> QED BY <1>1, <1>2 DEF RequestsSound

LEMMA StoreStep ==
    ASSUME IInv, NEW n \in Notes, Store(n)
    PROVE  IInv'
<1>1. answered \subseteq answered' /\ \A m \in Notes : row[m].read_at => row'[m].read_at
    BY DEF IInv, TypeOK, Row, Store, Unseen
<1>2. /\ \A m \in Notes \ {n} : row'[m] = row[m]
      /\ row'[n].status = "pending" /\ row'[n].action = Unseen(n).action /\ row'[n].read_at = row[n].read_at
      /\ row' \in [Notes -> Row]
    <2> DEFINE new == [row[n] EXCEPT !.status = "pending", !.action = Unseen(n).action]
    <2>1. row \in [Notes -> Row] /\ row[n] \in Row
        BY DEF IInv, TypeOK
    <2>2. row' = [row EXCEPT ![n] = new]
        BY <2>1 DEF Store, Unseen
    <2>3. new \in Row /\ new.status = "pending" /\ new.action = Unseen(n).action /\ new.read_at = row[n].read_at
        BY <2>1 DEF Row, Unseen
    <2> HIDE DEF new
    <2> QED BY <2>1, <2>2, <2>3
<1>3. TypeOK'
    <2>1. deliverer' \in [Notes -> {"idle", "stored", "done"}]
        BY DEF IInv, TypeOK, Store
    <2> QED BY <2>1, <1>2 DEF IInv, TypeOK, Store, server, client, network, bounds
<1>4. RowsSound'
    <2>1. Truth(n, row[n])'
        BY <1>2 DEF Unseen, Truth
    <2> QED BY <1>1, <1>2, <2>1 DEF IInv, RowsSound, Truth, Store
<1>5. EchoesSound' /\ ViewsSound' /\ ListsSound' /\ ChannelsSound' /\ LoopSound' /\ RequestsSound'
    BY <1>1, TruthLasts DEF Store, server, client, network, bounds
<1>6. AcksSound'
    BY <1>2 DEF IInv, TypeOK, AcksSound, LoopSound, Store
<1> QED BY <1>3, <1>4, <1>5, <1>6 DEF IInv

LEMMA EmitCreatedStep ==
    ASSUME IInv, NEW n \in Notes, EmitCreated(n)
    PROVE  IInv'
<1>1. answered \subseteq answered' /\ \A m \in Notes : row[m].read_at => row'[m].read_at
    BY DEF EmitCreated, server, client, network, bounds
<1>2. channel' \in [Tabs -> Seq(Message)] /\ failures' \in Nat /\ ChannelsSound'
    BY CreatedMessage, EmittedTruth DEF EmitCreated, About
<1>3. TypeOK'
    BY <1>2 DEF IInv, TypeOK, EmitCreated, server, client, network, bounds
<1>4. RowsSound' /\ EchoesSound' /\ ViewsSound' /\ ListsSound' /\ LoopSound' /\ RequestsSound'
    BY <1>1, TruthLasts DEF EmitCreated, server, client, network, bounds
<1>5. AcksSound'
    BY DEF IInv, TypeOK, AcksSound, LoopSound, EmitCreated
<1> QED BY <1>2, <1>3, <1>4, <1>5 DEF IInv

LEMMA AckLoadStep ==
    ASSUME IInv, NEW t \in Tabs, NEW n \in Notes, AckLoad(t, n)
    PROVE  IInv'
<1>1. answered \subseteq answered' /\ \A m \in Notes : row[m].read_at => row'[m].read_at
    BY DEF AckLoad, server, client, network, bounds
<1>2. TypeOK'
    <2>1. loop' \in Loop
        BY DEF IInv, TypeOK, Loop, Idle, Nothing, Face, AckLoad
    <2> QED BY <2>1 DEF IInv, TypeOK, AckLoad, server, client, network, bounds
<1>3. LoopSound'
    BY DEF IInv, TypeOK, LoopSound, Idle, Truth, AckLoad
<1>4. RowsSound' /\ EchoesSound' /\ ViewsSound' /\ ListsSound' /\ ChannelsSound' /\ RequestsSound'
    BY <1>1, TruthLasts DEF AckLoad, server, client, network, bounds
<1>5. AcksSound'
    BY DEF IInv, TypeOK, LoopSound, AcksSound, Idle, AckLoad, server
<1> QED BY <1>2, <1>3, <1>4, <1>5 DEF IInv

LEMMA AckCommitStep ==
    ASSUME IInv, AckCommit
    PROVE  IInv'
<1>1. answered \subseteq answered' /\ \A m \in Notes : row[m].read_at => row'[m].read_at
    BY DEF IInv, TypeOK, Row, LoopSound, AckCommit
<1>2. PICK n \in Notes :
         /\ n = loop.note /\ \A m \in Notes \ {n} : row'[m] = row[m]
         /\ row'[n].status = "delivered" /\ row'[n].action = row[n].action /\ row'[n].read_at = row[n].read_at
         /\ row' \in [Notes -> Row]
    <2> DEFINE note == loop.note
                new == [row[note] EXCEPT !.status = "delivered"]
    <2>1. note \in Notes /\ row \in [Notes -> Row] /\ row[note] \in Row
        BY DEF IInv, TypeOK, LoopSound, AckCommit
    <2>2. row' = [row EXCEPT ![note] = new]
        BY <2>1 DEF AckCommit
    <2>3. new \in Row /\ new.status = "delivered" /\ new.action = row[note].action /\ new.read_at = row[note].read_at
        BY <2>1 DEF Row
    <2> HIDE DEF new
    <2> QED BY <2>1, <2>2, <2>3
<1>3. RowsSound'
    BY <1>2 DEF IInv, RowsSound, Truth, AckCommit
<1>4. loop' \in Loop /\ LoopSound'
    <2>1. row'[n] \in Row /\ Truth(n, row[n])'
        BY <1>2, <1>3 DEF RowsSound
    <2>2. PICK face \in Face : face = FaceOf(row'[n]) /\ Truth(n, face)'
        BY <2>1, Quoted DEF Truth
    <2>3. loop' = [loop EXCEPT !.pc = "committed", !.face = face]
        BY <1>2, <2>2 DEF AckCommit
    <2>4. loop' \in Loop /\ loop'.pc = "committed" /\ loop'.note = n /\ loop'.face = face
        BY <1>2, <2>3 DEF IInv, TypeOK, Loop
    <2> QED BY <1>2, <2>2, <2>4 DEF LoopSound, Truth
<1>5. TypeOK'
    BY <1>2, <1>4 DEF IInv, TypeOK, AckCommit, server, client, network, bounds
<1>6. EchoesSound' /\ ViewsSound' /\ ListsSound' /\ ChannelsSound' /\ RequestsSound'
    BY <1>1, TruthLasts DEF AckCommit, server, client, network, bounds
<1>7. AcksSound'
    <2>1. loop.pc = "loaded" /\ loop'.pc = "committed" /\ acknowledged[n] = 0
        BY <1>2, <1>4 DEF IInv, TypeOK, Loop, AcksSound, AckCommit
    <2> QED BY <1>2, <2>1 DEF IInv, TypeOK, AcksSound, AckCommit, server
<1> QED BY <1>3, <1>4, <1>5, <1>6, <1>7 DEF IInv

LEMMA AckEmitStep ==
    ASSUME IInv, AckEmit
    PROVE  IInv'
<1>1. answered \subseteq answered' /\ \A m \in Notes : row[m].read_at => row'[m].read_at
    BY DEF AckEmit, server, client, network, bounds
<1>2. PICK m \in Message : /\ m = About("updated", loop.note, loop.face)
                        /\ Truth(m.note, m.face)
                        /\ Broadcast(m) /\ echoes' = echoes \cup {m}
    BY DEF IInv, TypeOK, LoopSound, Loop, Message, About, AckEmit
<1>3. channel' \in [Tabs -> Seq(Message)] /\ failures' \in Nat /\ ChannelsSound'
    BY <1>2, EmittedTruth DEF AckEmit
<1>4. TypeOK'
    <2>1. echoes' \subseteq Message
        BY <1>2 DEF IInv, TypeOK
    <2>2. loop' \in Loop
        BY Blanks DEF AckEmit
    <2> QED BY <2>1, <2>2, <1>3 DEF IInv, TypeOK, AckEmit, server, client, network, bounds
<1>5. EchoesSound'
    BY <1>2 DEF IInv, EchoesSound, Truth, AckEmit
<1>6. LoopSound'
    BY Blanks DEF LoopSound, AckEmit
<1>7. RowsSound' /\ ViewsSound' /\ ListsSound' /\ RequestsSound'
    BY <1>1, TruthLasts DEF AckEmit, server, client, network, bounds
<1>8. AcksSound'
    BY Blanks DEF IInv, AcksSound, AckEmit
<1> QED BY <1>3, <1>4, <1>5, <1>6, <1>7, <1>8 DEF IInv

LEMMA EchoStep ==
    ASSUME IInv, Echo
    PROVE  IInv'
<1>1. answered \subseteq answered' /\ \A m \in Notes : row[m].read_at => row'[m].read_at
    BY DEF Echo, server, client, network, bounds
<1>2. PICK m \in echoes : Broadcast(m) /\ echoes' = echoes \ {m}
    BY DEF Echo
<1>3. channel' \in [Tabs -> Seq(Message)] /\ failures' \in Nat /\ ChannelsSound'
    <2>1. m \in Message /\ Truth(m.note, m.face)
        BY DEF IInv, TypeOK, EchoesSound
    <2> QED BY <1>1, <1>2, <2>1, EmittedTruth DEF Echo
<1>4. TypeOK'
    BY <1>3 DEF IInv, TypeOK, Echo, server, client, network, bounds
<1>5. EchoesSound'
    BY <1>2 DEF IInv, EchoesSound, Truth, Echo
<1>6. RowsSound' /\ ViewsSound' /\ ListsSound' /\ LoopSound' /\ RequestsSound' /\ AcksSound'
    BY <1>1, TruthLasts DEF Echo, server, client, network, bounds
<1> QED BY <1>3, <1>4, <1>5, <1>6 DEF IInv

LEMMA JoinStep ==
    ASSUME IInv, NEW t \in Tabs, Join(t)
    PROVE  IInv'
<1>1. answered \subseteq answered' /\ \A m \in Notes : row[m].read_at => row'[m].read_at
    BY DEF Join, server, client, network, bounds
<1>2. TypeOK'
    BY DEF IInv, TypeOK, Join, server, client, network, bounds
<1>3. RowsSound' /\ EchoesSound' /\ ViewsSound' /\ ListsSound' /\ ChannelsSound' /\ LoopSound' /\ RequestsSound' /\ AcksSound'
    BY <1>1, TruthLasts DEF Join, server, client, network, bounds
<1> QED BY <1>2, <1>3 DEF IInv

LEMMA QueryPendingStep ==
    ASSUME IInv, NEW t \in Tabs, QueryPending(t)
    PROVE  IInv'
<1>1. answered \subseteq answered' /\ \A m \in Notes : row[m].read_at => row'[m].read_at
    BY DEF QueryPending, server, client, network, bounds
<1>2. TypeOK'
    <2>1. replay' \in [Tabs -> SUBSET Notes]
        BY DEF IInv, TypeOK, QueryPending
    <2> QED BY <2>1 DEF IInv, TypeOK, QueryPending, server, client, network, bounds
<1>3. RowsSound' /\ EchoesSound' /\ ViewsSound' /\ ListsSound' /\ ChannelsSound' /\ LoopSound' /\ RequestsSound' /\ AcksSound'
    BY <1>1, TruthLasts DEF QueryPending, server, client, network, bounds
<1> QED BY <1>2, <1>3 DEF IInv

LEMMA ReplayStep ==
    ASSUME IInv, NEW t \in Tabs, Replay(t)
    PROVE  IInv'
<1>1. answered \subseteq answered' /\ \A m \in Notes : row[m].read_at => row'[m].read_at
    BY DEF Replay, server, client, network, bounds
<1>2. channel' \in [Tabs -> Seq(Message)] /\ failures' \in Nat /\ ChannelsSound'
    <2> PICK n \in replay[t] : Broadcast(About("created", n, Unseen(n)))
        BY DEF Replay
    <2>1. n \in Notes
        BY DEF IInv, TypeOK
    <2> QED BY <2>1, CreatedMessage, EmittedTruth DEF Replay, About
<1>3. TypeOK'
    <2>1. replay' \in [Tabs -> SUBSET Notes]
        BY DEF IInv, TypeOK, Replay
    <2> QED BY <2>1, <1>2 DEF IInv, TypeOK, Replay, server, client, network, bounds
<1>4. RowsSound' /\ EchoesSound' /\ ViewsSound' /\ ListsSound' /\ LoopSound' /\ RequestsSound' /\ AcksSound'
    BY <1>1, TruthLasts DEF Replay, server, client, network, bounds
<1> QED BY <1>2, <1>3, <1>4 DEF IInv

LEMMA AcceptStep ==
    ASSUME IInv, NEW t \in Tabs, Accept(t)
    PROVE  IInv'
<1>1. answered \subseteq answered' /\ \A m \in Notes : row[m].read_at => row'[m].read_at
    BY DEF Accept, server, client, network, bounds
<1>2. TypeOK'
    BY DEF IInv, TypeOK, Accept, server, client, network, bounds
<1>3. RowsSound' /\ EchoesSound' /\ ViewsSound' /\ ListsSound' /\ ChannelsSound' /\ LoopSound' /\ RequestsSound' /\ AcksSound'
    BY <1>1, TruthLasts DEF Accept, server, client, network, bounds
<1> QED BY <1>2, <1>3 DEF IInv

LEMMA QueryStep ==
    ASSUME IInv, NEW t \in Tabs, Query(t)
    PROVE  IInv'
<1>1. answered \subseteq answered' /\ \A m \in Notes : row[m].read_at => row'[m].read_at
    BY DEF Query, server, client, network, bounds
<1>2. /\ http' = [http EXCEPT ![t] = http'[t]]
      /\ http'[t] = [http[t] EXCEPT !.pc = "fetched"]
    BY DEF IInv, TypeOK, Query
<1>3. http'[t] \in Http /\ RequestSound(http[t])'
    <2>1. http[t] \in Http /\ http[t].op = "list"
        BY RequestFacts DEF Query, At
    <2>2. http'[t] \in Http /\ http'[t].op = "list" /\ http'[t].pc = "fetched"
        BY <1>2, <2>1, RequestMoves
    <2> QED BY <2>2 DEF RequestSound
<1>4. http' \in [Tabs -> Http] /\ RequestsSound'
    BY <1>1, <1>2, <1>3, RequestSteps
<1>5. TypeOK'
    <2>1. fetched' \in [Tabs -> [Notes -> Face]]
        BY RowQuoted DEF IInv, TypeOK, Query
    <2> QED BY <2>1, <1>4 DEF IInv, TypeOK, Query, server, client, network, bounds
<1>6. ListsSound'
    <2> SUFFICES ASSUME NEW s \in Tabs, NEW n \in Notes PROVE Truth(n, fetched[s][n])'
        BY DEF ListsSound
    <2>1. fetched'[s][n] = fetched[s][n] \/ fetched'[s][n] = FaceOf(row[n])
        BY DEF IInv, TypeOK, Query
    <2> QED BY <2>1, RowQuoted DEF IInv, ListsSound, Truth, Query
<1>7. RowsSound' /\ EchoesSound' /\ ViewsSound' /\ ChannelsSound' /\ LoopSound' /\ AcksSound'
    BY <1>1, TruthLasts DEF Query, server, client, network, bounds
<1> QED BY <1>4, <1>5, <1>6, <1>7 DEF IInv

LEMMA ReadLoadStep ==
    ASSUME IInv, NEW t \in Tabs, ReadLoad(t)
    PROVE  IInv'
<1>1. answered \subseteq answered' /\ \A m \in Notes : row[m].read_at => row'[m].read_at
    BY DEF ReadLoad, server, client, network, bounds
<1>2. /\ http' = [http EXCEPT ![t] = http'[t]]
      /\ http'[t] = [http[t] EXCEPT !.pc = IF row[http[t].note].status = "read" THEN "committed" ELSE "loaded",
                              !.face = FaceOf(row[http[t].note])]
    BY DEF IInv, TypeOK, ReadLoad
<1>3. http'[t] \in Http /\ RequestSound(http[t])'
    <2> DEFINE note == http[t].note
    <2>1. note \in Notes /\ http[t].op = "read" /\ http[t] \in Http
        BY RequestFacts DEF RequestSound, ReadLoad, At
    <2>2. PICK face \in Face : face = FaceOf(row[note]) /\ Truth(note, face)
        BY <2>1, RowQuoted
    <2>3. PICK pc \in {"committed", "loaded"} : http'[t] = [http[t] EXCEPT !.pc = pc, !.face = face]
        BY <1>2, <2>2
    <2>4. /\ http'[t] \in Http /\ http'[t].op = http[t].op /\ http'[t].note = note
          /\ http'[t].face = face /\ http'[t].pc = pc
        BY <2>1, <2>2, <2>3 DEF Http
    <2> QED BY <2>1, <2>2, <2>4 DEF RequestSound, Truth, ReadLoad
<1>4. http' \in [Tabs -> Http] /\ RequestsSound'
    BY <1>1, <1>2, <1>3, RequestSteps
<1>5. TypeOK'
    BY <1>4 DEF IInv, TypeOK, ReadLoad, server, client, network, bounds
<1>6. RowsSound' /\ EchoesSound' /\ ViewsSound' /\ ListsSound' /\ ChannelsSound' /\ LoopSound' /\ AcksSound'
    BY <1>1, TruthLasts DEF ReadLoad, server, client, network, bounds
<1> QED BY <1>4, <1>5, <1>6 DEF IInv

LEMMA ReadCommitStep ==
    ASSUME IInv, NEW t \in Tabs, ReadCommit(t)
    PROVE  IInv'
<1>1. answered \subseteq answered' /\ \A m \in Notes : row[m].read_at => row'[m].read_at
    BY RequestFacts DEF IInv, TypeOK, Row, ReadCommit, At
<1>2. PICK n \in Notes :
         /\ n = http[t].note /\ \A m \in Notes \ {n} : row'[m] = row[m]
         /\ row'[n].status \in {"read", row[n].status} /\ row'[n].read_at /\ row'[n].action = row[n].action
         /\ row' \in [Notes -> Row]
    <2> DEFINE note == http[t].note
                new == [row[note] EXCEPT !.status = "read", !.read_at = TRUE]
    <2>1. row \in [Notes -> Row] /\ note \in Notes /\ row[note] \in Row
        BY RequestFacts DEF IInv, TypeOK, RequestSound, ReadCommit, At
    <2>2. row' = [row EXCEPT ![note] = new]
        BY <2>1 DEF ReadCommit
    <2>3. new \in Row /\ new.status \in {"read",
           row[note].status} /\ new.read_at /\ new.action = row[note].action
        BY <2>1 DEF Row
    <2> HIDE DEF new
    <2> QED BY <2>1, <2>2, <2>3
<1>3. RowsSound'
    BY <1>2 DEF IInv, RowsSound, Truth, ReadCommit
<1>4. PICK face \in Face : /\ face = FaceOf(row'[n]) /\ Truth(n, face)'
                           /\ http' = [http EXCEPT ![t] = http'[t]]
                           /\ http'[t] = [http[t] EXCEPT !.pc = "committed", !.face = face]
    <2>1. row'[n] \in Row /\ Truth(n, row[n])'
        BY <1>2, <1>3 DEF RowsSound
    <2>2. PICK face \in Face : face = FaceOf(row'[n]) /\ Truth(n, face)'
        BY <2>1, Quoted DEF Truth
    <2>3. http' = [http EXCEPT ![t] = [http[t] EXCEPT !.pc = "committed", !.face = face]]
        <3>1. http' = [http EXCEPT ![t].pc = "committed", ![t].face = FaceOf(row'[http[t].note])]
            BY DEF ReadCommit
        <3> QED BY <1>2, <2>2, <3>1
    <2> QED BY <2>2, <2>3 DEF IInv, TypeOK
<1>5. http'[t] \in Http /\ RequestSound(http[t])'
    <2>1. http[t] \in Http /\ RequestSound(http[t]) /\ http[t].op \in {"read", "answer"}
        BY RequestFacts DEF ReadCommit, At
    <2>2. /\ http'[t] \in Http /\ http'[t].op = http[t].op /\ http'[t].note = n
          /\ http'[t].face = face /\ http'[t].pc = "committed"
        BY <1>2, <1>4, <2>1 DEF Http
    <2> QED BY <1>1, <1>2, <1>4, <2>1, <2>2 DEF RequestSound, Truth, ReadCommit, At
<1>6. http' \in [Tabs -> Http] /\ RequestsSound'
    BY <1>1, <1>4, <1>5, RequestSteps
<1>7. TypeOK'
    BY <1>2, <1>6 DEF IInv, TypeOK, ReadCommit, server, client, network, bounds
<1>8. EchoesSound' /\ ViewsSound' /\ ListsSound' /\ ChannelsSound' /\ LoopSound'
    BY <1>1, TruthLasts DEF ReadCommit, server, client, network, bounds
<1>9. AcksSound'
    BY <1>2 DEF IInv, TypeOK, Row, LoopSound, AcksSound, ReadCommit, server
<1> QED BY <1>3, <1>6, <1>7, <1>8, <1>9 DEF IInv

LEMMA AnswerCommitStep ==
    ASSUME IInv, NEW t \in Tabs, AnswerCommit(t)
    PROVE  IInv'
<1>1. answered \subseteq answered' /\ \A m \in Notes : row[m].read_at => row'[m].read_at
    BY DEF IInv, TypeOK, Row, AnswerCommit, At, NoRequest, Nothing, server, client, network, bounds
<1>2. /\ http' = [http EXCEPT ![t] = http'[t]]
      /\ http'[t] = NoRequest \/ (http'[t] = [http[t] EXCEPT !.pc = "answered"] /\ http[t].note \in answered')
    BY DEF IInv, TypeOK, AnswerCommit
<1>3. http'[t] \in Http /\ RequestSound(http[t])'
    <2>1. http[t] \in Http /\ RequestSound(http[t]) /\ http[t].op = "answer"
        BY RequestFacts DEF AnswerCommit, At
    <2>2. CASE http'[t] = NoRequest
        BY <2>2, Blanks DEF RequestSound
    <2>3. CASE http'[t] = [http[t] EXCEPT !.pc = "answered"] /\ http[t].note \in answered'
        <3>1. /\ http'[t] \in Http /\ http'[t].op = "answer" /\ http'[t].note = http[t].note
              /\ http'[t].pc = "answered"
            BY <2>1, <2>3, RequestMoves
        <3> QED BY <2>1, <2>3, <3>1 DEF RequestSound
    <2> QED BY <1>2, <2>2, <2>3
<1>4. http' \in [Tabs -> Http] /\ RequestsSound'
    BY <1>1, <1>2, <1>3, RequestSteps
<1>5. TypeOK'
    <2>1. answered' \subseteq Actionable
        BY RequestFacts DEF IInv, TypeOK, RequestSound, AnswerCommit, At
    <2> QED BY <2>1, <1>4 DEF IInv, TypeOK, AnswerCommit, server, client, network, bounds
<1>6. RowsSound'
    BY <1>1 DEF IInv, RowsSound, Truth, AnswerCommit
<1>7. EchoesSound' /\ ViewsSound' /\ ListsSound' /\ ChannelsSound' /\ LoopSound' /\ AcksSound'
    BY <1>1, TruthLasts DEF AnswerCommit, server, client, network, bounds
<1> QED BY <1>4, <1>5, <1>6, <1>7 DEF IInv

LEMMA ResolveLoadStep ==
    ASSUME IInv, NEW t \in Tabs, ResolveLoad(t)
    PROVE  IInv'
<1>1. answered \subseteq answered' /\ \A m \in Notes : row[m].read_at => row'[m].read_at
    BY DEF ResolveLoad, server, client, network, bounds
<1>2. /\ http' = [http EXCEPT ![t] = http'[t]]
      /\ http'[t] = [http[t] EXCEPT !.pc = "loaded", !.face = FaceOf(row[http[t].note])]
    BY DEF IInv, TypeOK, ResolveLoad
<1>3. http'[t] \in Http /\ RequestSound(http[t])'
    <2> DEFINE note == http[t].note
    <2>1. note \in Actionable /\ note \in answered /\ http[t].op = "answer" /\ http[t] \in Http
        BY RequestFacts DEF RequestSound, ResolveLoad, At
    <2>2. PICK face \in Face : face = FaceOf(row[note]) /\ Truth(note, face)
        BY <2>1, RowQuoted
    <2>3. PICK pc \in {"loaded"} : http'[t] = [http[t] EXCEPT !.pc = pc, !.face = face]
        BY <1>2, <2>2
    <2>4. /\ http'[t] \in Http /\ http'[t].op = http[t].op /\ http'[t].note = note
          /\ http'[t].face = face /\ http'[t].pc = pc
        BY <2>1, <2>2, <2>3 DEF Http
    <2> QED BY <2>1, <2>2, <2>4 DEF RequestSound, Truth, ResolveLoad
<1>4. http' \in [Tabs -> Http] /\ RequestsSound'
    BY <1>1, <1>2, <1>3, RequestSteps
<1>5. TypeOK'
    BY <1>4 DEF IInv, TypeOK, ResolveLoad, server, client, network, bounds
<1>6. RowsSound' /\ EchoesSound' /\ ViewsSound' /\ ListsSound' /\ ChannelsSound' /\ LoopSound' /\ AcksSound'
    BY <1>1, TruthLasts DEF ResolveLoad, server, client, network, bounds
<1> QED BY <1>4, <1>5, <1>6 DEF IInv

LEMMA ResolveCommitStep ==
    ASSUME IInv, NEW t \in Tabs, ResolveCommit(t)
    PROVE  IInv'
<1>1. answered \subseteq answered' /\ \A m \in Notes : row[m].read_at => row'[m].read_at
    BY RequestFacts DEF IInv, TypeOK, Row, ResolveCommit, At
<1>2. PICK n \in Notes :
         /\ n = http[t].note /\ n \in Actionable /\ n \in answered /\ \A m \in Notes \ {n} : row'[m] = row[m]
         /\ row'[n].status \in {"read", row[n].status} /\ row'[n].read_at /\ row'[n].action = "completed"
         /\ row' \in [Notes -> Row]
    <2> DEFINE note == http[t].note
                new == [status  |-> IF http[t].face.status = "read" THEN row[note].status ELSE "read",
                        action  |-> "completed",
                        read_at |-> TRUE]
    <2>1. row \in [Notes -> Row] /\ note \in Notes /\ row[note] \in Row /\ note \in Actionable /\ note \in answered
        BY RequestFacts DEF IInv, TypeOK, RequestSound, ResolveCommit, At
    <2>2. row' = [row EXCEPT ![note] = new]
        BY <2>1 DEF ResolveCommit
    <2>3. new \in Row /\ new.status \in {"read", row[note].status} /\ new.read_at /\ new.action = "completed"
        BY <2>1 DEF Row
    <2> HIDE DEF new
    <2> QED BY <2>1, <2>2, <2>3
<1>3. RowsSound'
    BY <1>2 DEF IInv, RowsSound, Truth, ResolveCommit
<1>4. PICK face \in Face : /\ face = FaceOf(row'[n]) /\ Truth(n, face)'
                           /\ http' = [http EXCEPT ![t] = http'[t]]
                           /\ http'[t] = [http[t] EXCEPT !.pc = "committed", !.face = face]
    <2>1. row'[n] \in Row /\ Truth(n, row[n])'
        BY <1>2, <1>3 DEF RowsSound
    <2>2. PICK face \in Face : face = FaceOf(row'[n]) /\ Truth(n, face)'
        BY <2>1, Quoted DEF Truth
    <2>3. http' = [http EXCEPT ![t] = [http[t] EXCEPT !.pc = "committed", !.face = face]]
        BY <1>2, <2>2 DEF ResolveCommit
    <2> QED BY <2>2, <2>3 DEF IInv, TypeOK
<1>5. http'[t] \in Http /\ RequestSound(http[t])'
    <2>1. http[t] \in Http /\ RequestSound(http[t]) /\ http[t].op \in {"read", "answer"}
        BY RequestFacts DEF ResolveCommit, At
    <2>2. /\ http'[t] \in Http /\ http'[t].op = http[t].op /\ http'[t].note = n
          /\ http'[t].face = face /\ http'[t].pc = "committed"
        BY <1>2, <1>4, <2>1 DEF Http
    <2> QED BY <1>1, <1>2, <1>4, <2>1, <2>2 DEF RequestSound, Truth, ResolveCommit, At
<1>6. http' \in [Tabs -> Http] /\ RequestsSound'
    BY <1>1, <1>4, <1>5, RequestSteps
<1>7. TypeOK'
    BY <1>2, <1>6 DEF IInv, TypeOK, ResolveCommit, server, client, network, bounds
<1>8. EchoesSound' /\ ViewsSound' /\ ListsSound' /\ ChannelsSound' /\ LoopSound'
    BY <1>1, TruthLasts DEF ResolveCommit, server, client, network, bounds
<1>9. AcksSound'
    BY <1>2 DEF IInv, TypeOK, Row, LoopSound, AcksSound, ResolveCommit, server
<1> QED BY <1>3, <1>6, <1>7, <1>8, <1>9 DEF IInv

LEMMA EmitUpdatedStep ==
    ASSUME IInv, NEW t \in Tabs, EmitUpdated(t)
    PROVE  IInv'
<1>1. answered \subseteq answered' /\ \A m \in Notes : row[m].read_at => row'[m].read_at
    BY DEF EmitUpdated, server, client, network, bounds
<1>2. /\ http' = [http EXCEPT ![t] = http'[t]]
      /\ http'[t] = [http[t] EXCEPT !.pc = "emitted"]
    BY DEF IInv, TypeOK, EmitUpdated
<1>3. http'[t] \in Http /\ RequestSound(http[t])'
    <2>1. http[t] \in Http /\ RequestSound(http[t]) /\ http[t].pc = "committed"
        BY RequestFacts DEF EmitUpdated
    <2>2. /\ http'[t] \in Http /\ http'[t].op = http[t].op /\ http'[t].note = http[t].note
          /\ http'[t].face = http[t].face /\ http'[t].pc = "emitted"
        BY <1>2, <2>1, RequestMoves
    <2> QED BY <2>1, <2>2 DEF RequestSound, Truth, EmitUpdated
<1>4. http' \in [Tabs -> Http] /\ RequestsSound'
    BY <1>1, <1>2, <1>3, RequestSteps
<1>5. channel' \in [Tabs -> Seq(Message)] /\ failures' \in Nat /\ ChannelsSound'
    <2>1. /\ About("updated", http[t].note, http[t].face) \in Message
          /\ Truth(http[t].note, http[t].face)
        BY RequestFacts DEF RequestSound, Http, Message, About, EmitUpdated
    <2> QED BY <2>1, EmittedTruth DEF EmitUpdated, About
<1>6. TypeOK'
    BY <1>4, <1>5 DEF IInv, TypeOK, EmitUpdated, server, client, network, bounds
<1>7. RowsSound' /\ EchoesSound' /\ ViewsSound' /\ ListsSound' /\ LoopSound' /\ AcksSound'
    BY <1>1, TruthLasts DEF EmitUpdated, server, client, network, bounds
<1> QED BY <1>4, <1>5, <1>6, <1>7 DEF IInv

LEMMA ApplyListStep ==
    ASSUME IInv, NEW t \in Tabs, ApplyList(t)
    PROVE  IInv'
<1>1. answered \subseteq answered' /\ \A m \in Notes : row[m].read_at => row'[m].read_at
    BY DEF ApplyList, server, client, network, bounds
<1>2. /\ http' = [http EXCEPT ![t] = http'[t]]
      /\ http'[t] = NoRequest
    BY DEF IInv, TypeOK, ApplyList
<1>3. http'[t] \in Http /\ RequestSound(http[t])'
    BY <1>2, Blanks DEF RequestSound
<1>4. http' \in [Tabs -> Http] /\ RequestsSound'
    BY <1>1, <1>2, <1>3, RequestSteps
<1>5. TypeOK'
    <2>1. view' \in [Tabs -> [Notes -> Face]]
        BY DEF IInv, TypeOK, ApplyList
    <2>2. fetched' \in [Tabs -> [Notes -> Face]]
        BY Blanks DEF IInv, TypeOK, ApplyList
    <2>3. tab' \in [Tabs -> {"closed", "booting", "connecting", "joined", "replaying", "online"}]
        BY DEF IInv, TypeOK, ApplyList
    <2> QED BY <2>1, <2>2, <2>3, <1>4 DEF IInv, TypeOK, ApplyList, server, client, network, bounds
<1>6. ViewsSound'
    <2> SUFFICES ASSUME NEW s \in Tabs, NEW n \in Notes PROVE Truth(n, view[s][n])'
        BY DEF ViewsSound
    <2>1. view'[s] = IF s = t THEN fetched[t] ELSE view[s]
        BY DEF IInv, TypeOK, ApplyList
    <2> QED BY <2>1 DEF IInv, ViewsSound, ListsSound, Truth, ApplyList
<1>7. ListsSound'
    <2> SUFFICES ASSUME NEW s \in Tabs, NEW n \in Notes PROVE Truth(n, fetched[s][n])'
        BY DEF ListsSound
    <2>1. fetched'[s] = fetched[s] \/ fetched'[s] = EmptyView
        BY DEF IInv, TypeOK, ApplyList
    <2> QED BY <2>1, Blanks DEF IInv, ListsSound, Truth, ApplyList
<1>8. RowsSound' /\ EchoesSound' /\ ChannelsSound' /\ LoopSound' /\ AcksSound'
    BY <1>1, TruthLasts DEF ApplyList, server, client, network, bounds
<1> QED BY <1>4, <1>5, <1>6, <1>7, <1>8 DEF IInv

LEMMA RespondStep ==
    ASSUME IInv, NEW t \in Tabs, Respond(t)
    PROVE  IInv'
<1>1. answered \subseteq answered' /\ \A m \in Notes : row[m].read_at => row'[m].read_at
    BY DEF Respond, server, client, network, bounds
<1>2. http[t].op \in {"read", "answer"} /\ http[t].note \in Notes /\ http[t].face \in Face
      /\ Truth(http[t].note, http[t].face)
    BY RequestFacts DEF RequestSound, Http, Respond
<1>3. view' \in [Tabs -> [Notes -> Face]] /\ ViewsSound'
    <2>1. CASE http[t].op = "read"
        <3> DEFINE new == IF Shown(t, http[t].note) THEN http[t].face ELSE view[t][http[t].note]
        <3>1. new \in Face /\ Truth(http[t].note, new)
            BY <1>2 DEF IInv, TypeOK, ViewsSound
        <3>2. view' = [view EXCEPT ![t] = [view[t] EXCEPT ![http[t].note] = new]]
            BY <2>1 DEF IInv, TypeOK, Respond
        <3> HIDE DEF new
        <3>3. [view[t] EXCEPT ![http[t].note] = new] \in [Notes -> Face]
            BY <3>1 DEF IInv, TypeOK
        <3>4. \A s \in Tabs, n \in Notes : view'[s][n] = view[s][n] \/ (n = http[t].note /\ view'[s][n] = new)
            BY <3>2 DEF IInv, TypeOK
        <3> QED BY <3>1, <3>2, <3>3, <3>4 DEF IInv, TypeOK, ViewsSound, Truth, Respond
    <2>2. CASE UNCHANGED view
        BY <1>1, <2>2, TruthLasts DEF IInv, TypeOK
    <2> QED BY <2>1, <2>2 DEF Respond
<1>4. /\ http' = [http EXCEPT ![t] = http'[t]]
      /\ http'[t] \in {NoRequest, Request("list", NoNote)}
    BY DEF IInv, TypeOK, Respond
<1>5. http'[t] \in Http /\ RequestSound(http[t])'
    BY <1>4, Blanks, NewRequests DEF RequestSound
<1>6. http' \in [Tabs -> Http] /\ RequestsSound'
    BY <1>1, <1>4, <1>5, RequestSteps
<1>7. TypeOK'
    BY <1>3, <1>6 DEF IInv, TypeOK, Respond, server, client, network, bounds
<1>8. RowsSound' /\ EchoesSound' /\ ListsSound' /\ ChannelsSound' /\ LoopSound' /\ AcksSound'
    BY <1>1, TruthLasts DEF Respond, server, client, network, bounds
<1> QED BY <1>3, <1>6, <1>7, <1>8 DEF IInv

LEMMA StartRefreshStep ==
    ASSUME IInv, NEW t \in Tabs, StartRefresh(t)
    PROVE  IInv'
<1>1. answered \subseteq answered' /\ \A m \in Notes : row[m].read_at => row'[m].read_at
    BY DEF StartRefresh, Ask, server, client, network, bounds
<1>2. /\ http' = [http EXCEPT ![t] = http'[t]]
      /\ http'[t] = Request("list", NoNote)
    BY DEF IInv, TypeOK, StartRefresh, Ask
<1>3. http'[t] \in Http /\ RequestSound(http[t])'
    BY <1>2, NewRequests DEF RequestSound
<1>4. http' \in [Tabs -> Http] /\ RequestsSound'
    BY <1>1, <1>2, <1>3, RequestSteps
<1>5. TypeOK'
    BY <1>4 DEF IInv, TypeOK, StartRefresh, Ask, server, client, network, bounds
<1>6. RowsSound' /\ EchoesSound' /\ ViewsSound' /\ ListsSound' /\ ChannelsSound' /\ LoopSound' /\ AcksSound'
    BY <1>1, TruthLasts DEF StartRefresh, Ask, server, client, network, bounds
<1> QED BY <1>4, <1>5, <1>6 DEF IInv

LEMMA StartReadStep ==
    ASSUME IInv, NEW t \in Tabs, NEW n \in Notes, StartRead(t, n)
    PROVE  IInv'
<1>1. answered \subseteq answered' /\ \A m \in Notes : row[m].read_at => row'[m].read_at
    BY DEF StartRead, Ask, server, client, network, bounds
<1>2. /\ http' = [http EXCEPT ![t] = http'[t]]
      /\ http'[t] = Request("read", n)
    BY DEF IInv, TypeOK, StartRead, Ask
<1>3. http'[t] \in Http /\ RequestSound(http[t])'
    BY <1>2, NewRequests DEF RequestSound
<1>4. http' \in [Tabs -> Http] /\ RequestsSound'
    BY <1>1, <1>2, <1>3, RequestSteps
<1>5. TypeOK'
    BY <1>4 DEF IInv, TypeOK, StartRead, Ask, server, client, network, bounds
<1>6. RowsSound' /\ EchoesSound' /\ ViewsSound' /\ ListsSound' /\ ChannelsSound' /\ LoopSound' /\ AcksSound'
    BY <1>1, TruthLasts DEF StartRead, Ask, server, client, network, bounds
<1> QED BY <1>4, <1>5, <1>6 DEF IInv

LEMMA StartAnswerStep ==
    ASSUME IInv, NEW t \in Tabs, NEW n \in Notes, StartAnswer(t, n)
    PROVE  IInv'
<1>1. answered \subseteq answered' /\ \A m \in Notes : row[m].read_at => row'[m].read_at
    BY DEF StartAnswer, Ask, server, client, network, bounds
<1>2. /\ http' = [http EXCEPT ![t] = http'[t]]
      /\ http'[t] = Request("answer", n)
    BY DEF IInv, TypeOK, StartAnswer, Ask
<1>3. http'[t] \in Http /\ RequestSound(http[t])'
    <2>1. n \in Actionable
        BY DEF IInv, TypeOK, ViewsSound, Truth, StartAnswer
    <2> QED BY <1>2, <2>1, NewRequests DEF RequestSound
<1>4. http' \in [Tabs -> Http] /\ RequestsSound'
    BY <1>1, <1>2, <1>3, RequestSteps
<1>5. TypeOK'
    BY <1>4 DEF IInv, TypeOK, StartAnswer, Ask, server, client, network, bounds
<1>6. RowsSound' /\ EchoesSound' /\ ViewsSound' /\ ListsSound' /\ ChannelsSound' /\ LoopSound' /\ AcksSound'
    BY <1>1, TruthLasts DEF StartAnswer, Ask, server, client, network, bounds
<1> QED BY <1>4, <1>5, <1>6 DEF IInv

LEMMA OpenStep ==
    ASSUME IInv, NEW t \in Tabs, Open(t)
    PROVE  IInv'
<1>1. answered \subseteq answered' /\ \A m \in Notes : row[m].read_at => row'[m].read_at
    BY DEF Open, server, client, network, bounds
<1>2. /\ http' = [http EXCEPT ![t] = http'[t]]
      /\ http'[t] = Request("list", NoNote)
    BY DEF IInv, TypeOK, Open
<1>3. http'[t] \in Http /\ RequestSound(http[t])'
    BY <1>2, NewRequests DEF RequestSound
<1>4. http' \in [Tabs -> Http] /\ RequestsSound'
    BY <1>1, <1>2, <1>3, RequestSteps
<1>5. TypeOK'
    BY <1>4 DEF IInv, TypeOK, Open, server, client, network, bounds
<1>6. RowsSound' /\ EchoesSound' /\ ViewsSound' /\ ListsSound' /\ ChannelsSound' /\ LoopSound' /\ AcksSound'
    BY <1>1, TruthLasts DEF Open, server, client, network, bounds
<1> QED BY <1>4, <1>5, <1>6 DEF IInv

LEMMA ReceiveStep ==
    ASSUME IInv, NEW t \in Tabs, Receive(t)
    PROVE  IInv'
<1>1. answered \subseteq answered' /\ \A m \in Notes : row[m].read_at => row'[m].read_at
    BY DEF Receive, server, client, network, bounds
<1>2. PICK m \in Message : /\ m = Head(channel[t]) /\ Truth(m.note, m.face)
                        /\ channel[t] # <<>> /\ m = channel[t][1]
    <2>1. channel[t] \in Seq(Message) /\ channel[t] # <<>>
        BY DEF IInv, TypeOK, Receive
    <2>2. Head(channel[t]) = channel[t][1] /\ 1 \in DOMAIN channel[t] /\ channel[t][1] \in Message
        BY <2>1
    <2> QED BY <2>1, <2>2 DEF IInv, ChannelsSound
<1>3. channel' \in [Tabs -> Seq(Message)] /\ ChannelsSound'
    <2>1. channel[t] \in Seq(Message) /\ channel[t] # <<>>
        BY <1>2 DEF IInv, TypeOK
    <2>2. /\ Tail(channel[t]) \in Seq(Message)
          /\ \A i \in DOMAIN Tail(channel[t]) :
                i + 1 \in DOMAIN channel[t] /\ Tail(channel[t])[i] = channel[t][i + 1]
        BY <2>1
    <2>3. \A s \in Tabs : channel'[s] = IF s = t THEN Tail(channel[t]) ELSE channel[s]
        BY DEF IInv, TypeOK, Receive
    <2>4. channel' \in [Tabs -> Seq(Message)]
        BY <2>2 DEF IInv, TypeOK, Receive
    <2>5. ASSUME NEW s \in Tabs, NEW i \in DOMAIN channel'[s]
          PROVE  Truth(channel'[s][i].note, channel'[s][i].face)
        <3>1. CASE s = t
            <4>1. i + 1 \in DOMAIN channel[t] /\ channel'[s][i] = channel[t][i + 1]
                BY <2>2, <2>3, <2>5, <3>1
            <4> QED BY <4>1 DEF IInv, ChannelsSound
        <3>2. CASE s # t
            BY <2>3, <2>5, <3>2 DEF IInv, ChannelsSound
        <3> QED BY <3>1, <3>2
    <2> QED BY <2>4, <2>5 DEF ChannelsSound, Truth, Receive
<1>4. view' = [view EXCEPT ![t] = [view[t] EXCEPT ![m.note] = IF m.kind = "created" \/ Shown(t, m.note)
                                                                    THEN m.face ELSE view[t][m.note]]]
    BY <1>2 DEF IInv, TypeOK, Receive, Shown
<1>5. TypeOK'
    <2>1. view' \in [Tabs -> [Notes -> Face]]
        <3>1. m.note \in Notes /\ m.face \in Face
            BY <1>2 DEF Message
        <3>2. (IF m.kind = "created" \/ Shown(t, m.note) THEN m.face ELSE view[t][m.note]) \in Face
            BY <3>1 DEF IInv, TypeOK
        <3> QED BY <1>4, <3>1, <3>2 DEF IInv, TypeOK
    <2>2. acks' \subseteq Tabs \X Notes
        BY <1>2 DEF IInv, TypeOK, Message, Receive
    <2> QED BY <2>1, <2>2, <1>3 DEF IInv, TypeOK, Receive, server, client, network, bounds
<1>6. ViewsSound'
    <2> SUFFICES ASSUME NEW s \in Tabs, NEW n \in Notes PROVE Truth(n, view[s][n])'
        BY DEF ViewsSound
    <2>1. view'[s][n] = view[s][n] \/ (n = m.note /\ view'[s][n] = m.face)
        BY <1>4 DEF IInv, TypeOK
    <2> QED BY <1>2, <2>1 DEF IInv, ViewsSound, Truth, Receive
<1>7. RowsSound' /\ EchoesSound' /\ ListsSound' /\ LoopSound' /\ RequestsSound' /\ AcksSound'
    BY <1>1, TruthLasts DEF Receive, server, client, network, bounds
<1> QED BY <1>3, <1>5, <1>6, <1>7 DEF IInv

LEMMA DropStep ==
    ASSUME IInv, NEW t \in Tabs, Drop(t)
    PROVE  IInv'
<1>1. answered \subseteq answered' /\ \A m \in Notes : row[m].read_at => row'[m].read_at
    BY DEF Drop, server, client, network, bounds
<1>2. TypeOK'
    <2>1. channel' \in [Tabs -> Seq(Message)]
        <3>1. <<>> \in Seq(Message)
            OBVIOUS
        <3> QED BY <3>1 DEF IInv, TypeOK, Drop
    <2> QED BY <2>1 DEF IInv, TypeOK, Drop, server, client, network, bounds
<1>3. ChannelsSound'
    <2>1. \A s \in Tabs : channel'[s] = channel[s] \/ channel'[s] = <<>>
        BY DEF IInv, TypeOK, Drop
    <2> QED BY <2>1 DEF IInv, ChannelsSound, Truth, Drop
<1>4. RowsSound' /\ EchoesSound' /\ ViewsSound' /\ ListsSound' /\ LoopSound' /\ RequestsSound' /\ AcksSound'
    BY <1>1, TruthLasts DEF Drop, server, client, network, bounds
<1> QED BY <1>2, <1>3, <1>4 DEF IInv

LEMMA CrashStep ==
    ASSUME IInv, Crash
    PROVE  IInv'
<1>1. answered \subseteq answered' /\ \A m \in Notes : row[m].read_at => row'[m].read_at
    BY DEF Crash, server, client, network, bounds
<1>2. TypeOK'
    BY Blanks DEF IInv, TypeOK, Crash, server, client, network, bounds, Fails
<1>3. EchoesSound'
    BY DEF EchoesSound, Crash
<1>4. ListsSound'
    BY Blanks DEF ListsSound, Truth, Crash
<1>5. ChannelsSound'
    BY DEF ChannelsSound, Crash
<1>6. LoopSound'
    BY Blanks DEF LoopSound, Crash
<1>7. RequestsSound'
    BY Blanks DEF RequestsSound, RequestSound, Crash
<1>8. RowsSound' /\ ViewsSound'
    BY <1>1, TruthLasts DEF Crash, server, client, network, bounds
<1>9. AcksSound'
    BY Blanks DEF IInv, TypeOK, AcksSound, Crash
<1> QED BY <1>2, <1>3, <1>4, <1>5, <1>6, <1>7, <1>8, <1>9 DEF IInv

LEMMA InductiveStep ==
    ASSUME IInv, [Next]_vars
    PROVE  IInv'
<1>1. CASE UNCHANGED vars
    BY <1>1 DEF IInv, TypeOK, RowsSound, EchoesSound, ViewsSound, ListsSound, ChannelsSound, LoopSound,
                RequestsSound, RequestSound, AcksSound, Truth, vars, server, client, network, bounds
<1>2. ASSUME NEW n \in Notes, Deliver(n) PROVE IInv'
    BY <1>2, StoreStep, EmitCreatedStep DEF Deliver
<1>3. CASE Acknowledge \/ Echo
    BY <1>3, AckCommitStep, AckEmitStep, EchoStep DEF Acknowledge
<1>4. ASSUME NEW t \in Tabs, Socket(t) PROVE IInv'
    BY <1>4, JoinStep, QueryPendingStep, ReplayStep, AcceptStep, ReceiveStep, DropStep, AckLoadStep
       DEF Socket, Connect
<1>5. ASSUME NEW t \in Tabs, Serve(t) PROVE IInv'
    BY <1>5, QueryStep, ApplyListStep, ReadLoadStep, ReadCommitStep, AnswerCommitStep, ResolveLoadStep,
       ResolveCommitStep, EmitUpdatedStep, RespondStep DEF Serve
<1>6. ASSUME NEW t \in Tabs, Browse(t) PROVE IInv'
    BY <1>5, <1>6, OpenStep, StartRefreshStep, StartReadStep, StartAnswerStep DEF Browse
<1>7. CASE Crash
    BY <1>7, CrashStep
<1> QED BY <1>1, <1>2, <1>3, <1>4, <1>6, <1>7 DEF Next

(* Whatever the tabs, the messages and the handlers hold, it has come true. *)
THEOREM Invariant == Spec => []IInv
<1>1. Init => IInv
    BY InitIInv
<1>2. IInv /\ [Next]_vars => IInv'
    BY InductiveStep
<1> QED BY <1>1, <1>2, PTL DEF Spec

(* Rows, requests and messages keep their types in every run.              *)
THEOREM TypeCorrect == Spec => []TypeOK
<1>1. IInv => TypeOK
    BY DEF IInv
<1> QED BY <1>1, Invariant, PTL

(* However many tabs acknowledge a note, and however often it is replayed, *)
(* one acknowledgement changes its row.                                    *)
THEOREM OneAcknowledgement == Spec => []FirstAckOnly
<1>1. IInv => FirstAckOnly
    BY DEF IInv, AcksSound, FirstAckOnly
<1> QED BY <1>1, Invariant, PTL

(* No row and no tab says completed before the escalation is answered.     *)
THEOREM CompletionIsEarned == Spec => []CompletedMeansAnswered
<1>1. IInv => CompletedMeansAnswered
    BY DEF IInv, RowsSound, ViewsSound, Truth, CompletedMeansAnswered
<1> QED BY <1>1, Invariant, PTL

(* No tab shows a note as read that was never read, in whatever order      *)
(* messages, lists and responses reach it.                                 *)
THEOREM ShownIsTrue == Spec => []ShownReadIsRead
<1>1. IInv => ShownReadIsRead
    BY DEF IInv, ViewsSound, Truth, ShownReadIsRead
<1> QED BY <1>1, Invariant, PTL
=============================================================================
