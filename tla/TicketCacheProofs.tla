--------------------------- MODULE TicketCacheProofs ---------------------------
(***************************************************************************)
(* Proofs about TicketCache for any number of readers, handlers, changes   *)
(* and failures.                                                           *)
(***************************************************************************)
EXTENDS TicketCache, TLAPS

USE CacheAssumption DEF CacheAssumption

-----------------------------------------------------------------------------
(* Types.                                                                  *)
LEMMA InitTyped == Init => TypeOK
BY DEF Init, TypeOK, Contents, Nothing

LEMMA GetTyped ==
    ASSUME TypeOK, NEW r \in Readers, reader[r] # None
    PROVE  reader[r] \in Gets
BY DEF TypeOK

LEMMA ChangeTyped ==
    ASSUME TypeOK, NEW w \in Writers, writer[w] # None
    PROVE  writer[w] \in Changes
BY DEF TypeOK

(* A reader's request becomes another one, and nothing else changes.       *)
LEMMA ReaderMoves ==
    ASSUME TypeOK, NEW r \in Readers, NEW g \in Gets \cup {None}, reader' = [reader EXCEPT ![r] = g],
           UNCHANGED <<db, changes, writer, told>>, entry' \in [Keys -> Entries \cup {None}],
           failures' \in 0..MaxFailures
    PROVE  TypeOK'
BY DEF TypeOK

LEMMA TypeStep == TypeOK /\ [Next]_vars => TypeOK'
<1> SUFFICES ASSUME TypeOK, [Next]_vars PROVE TypeOK'
    OBVIOUS
<1>1. CASE UNCHANGED vars
    BY <1>1 DEF TypeOK, vars
<1>2. ASSUME NEW r \in Readers, NEW k \in Keys, Get(r, k) PROVE TypeOK'
    <2> DEFINE g == [key |-> k, step |-> "cache", content |-> Nothing, crossed |-> FALSE, asked |-> told]
    <2>1. g \in Gets
        BY DEF Gets, Contents, Nothing, TypeOK
    <2> QED BY <1>2, <2>1, ReaderMoves DEF Get, TypeOK
<1>3. ASSUME NEW r \in Readers, Reads(r) \/ CacheFails(r) PROVE TypeOK'
    <2>1. CASE CacheHit(r)
        <3> DEFINE e == entry[reader[r].key]
                   g == [reader[r] EXCEPT !.step = "answered", !.content = e.content, !.crossed = e.crossed]
        <3>1. reader[r] \in Gets /\ e \in Entries
            BY <2>1, GetTyped DEF CacheHit, At, Gets, TypeOK
        <3>2. g \in Gets
            BY <3>1 DEF Gets, Entries
        <3>3. reader' = [reader EXCEPT ![r] = g]
            BY <2>1 DEF CacheHit
        <3> HIDE DEF g
        <3> QED BY <2>1, <3>2, <3>3, ReaderMoves DEF CacheHit, TypeOK
    <2>2. CASE CacheMiss(r)
        <3>1. [reader[r] EXCEPT !.step = "ticket"] \in Gets
            BY <2>2, GetTyped DEF CacheMiss, At, Gets
        <3> QED BY <2>2, <3>1, ReaderMoves DEF CacheMiss, TypeOK
    <2>3. ASSUME NEW part \in Parts, Select(r, part) PROVE TypeOK'
        <3> DEFINE g == [reader[r] EXCEPT !.content[part] = db[part], !.step = Following(reader[r].key, part)]
        <3>1. reader[r] \in Gets
            BY <2>3, GetTyped DEF Select, At
        <3>2. Following(reader[r].key, part) \in {"escalation", "rest", "store"}
            BY DEF Following
        <3>3. [reader[r].content EXCEPT ![part] = db[part]] \in Contents
            BY <3>1 DEF Gets, Contents, TypeOK
        <3>4. g \in Gets
            BY <3>1, <3>2, <3>3 DEF Gets
        <3>5. reader' = [reader EXCEPT ![r] = g]
            BY <2>3 DEF Select
        <3> HIDE DEF g
        <3> QED BY <2>3, <3>4, <3>5, ReaderMoves DEF Select, TypeOK
    <2>4. CASE SetEntry(r)
        <3>1. reader[r] \in Gets
            BY <2>4, GetTyped DEF SetEntry, At
        <3>2. [reader[r] EXCEPT !.step = "answered", !.crossed = FALSE] \in Gets
            BY <3>1 DEF Gets
        <3>3. [content |-> reader[r].content, crossed |-> reader[r].crossed] \in Entries
            BY <3>1 DEF Gets, Entries
        <3>4. entry' \in [Keys -> Entries \cup {None}]
            BY <2>4, <3>3 DEF SetEntry, TypeOK
        <3> QED BY <2>4, <3>2, <3>4, ReaderMoves DEF SetEntry, TypeOK
    <2>5. CASE Answered(r)
        BY <2>5, ReaderMoves DEF Answered, TypeOK
    <2>6. CASE CacheFails(r)
        <3>1. failures' \in 0..MaxFailures
            BY <2>6 DEF CacheFails, Fails, TypeOK
        <3>2. CASE At(r, "cache") /\ reader' = [reader EXCEPT ![r].step = "ticket"]
            <4>1. [reader[r] EXCEPT !.step = "ticket"] \in Gets
                BY <3>2, GetTyped DEF At, Gets
            <4> QED BY <2>6, <3>1, <3>2, <4>1, ReaderMoves DEF CacheFails, TypeOK
        <3>3. CASE At(r, "store") /\ reader' = [reader EXCEPT ![r].step = "answered", ![r].crossed = FALSE]
            <4>1. [reader[r] EXCEPT !.step = "answered", !.crossed = FALSE] \in Gets
                BY <3>3, GetTyped DEF At, Gets
            <4> QED BY <2>6, <3>1, <3>3, <4>1, ReaderMoves DEF CacheFails, TypeOK
        <3> QED BY <2>6, <3>2, <3>3 DEF CacheFails
    <2> QED BY <1>3, <2>1, <2>2, <2>3, <2>4, <2>5, <2>6 DEF Reads
<1>4. ASSUME NEW w \in Writers, Commit(w) PROVE TypeOK'
    <2>1. PICK parts \in Touched :
            /\ db' = [p \in Parts |-> IF p \in parts THEN changes + 1 ELSE db[p]]
            /\ writer' = [writer EXCEPT ![w] = [change |-> changes + 1, parts |-> parts, step |-> "committed"]]
        BY <1>4 DEF Commit
    <2>2. changes + 1 \in 1..MaxChanges
        BY <1>4 DEF Commit, TypeOK
    <2>3. [change |-> changes + 1, parts |-> parts, step |-> "committed"] \in Changes
        BY <2>2 DEF Changes
    <2>4. db' \in Contents
        BY <2>1, <2>2 DEF Contents, TypeOK
    <2> QED BY <1>4, <2>1, <2>2, <2>3, <2>4 DEF Commit, TypeOK
<1>5. ASSUME NEW w \in Writers, invalidate_ticket(w) \/ DeleteFails(w) PROVE TypeOK'
    <2>1. [writer[w] EXCEPT !.step = "invalidated"] \in Changes
        BY <1>5, ChangeTyped DEF invalidate_ticket, DeleteFails, Has, Changes
    <2>2. CASE invalidate_ticket(w)
        <3>1. \A r \in Readers : reader[r] # None => [reader[r] EXCEPT !.crossed = TRUE] \in Gets
            BY GetTyped DEF Gets
        <3>2. reader' \in [Readers -> Gets \cup {None}]
            BY <2>2, <3>1 DEF invalidate_ticket, TypeOK
        <3> QED BY <2>1, <2>2, <3>2 DEF invalidate_ticket, TypeOK
    <2>3. CASE DeleteFails(w)
        BY <2>1, <2>3 DEF DeleteFails, Fails, TypeOK
    <2> QED BY <1>5, <2>2, <2>3
<1>6. ASSUME NEW w \in Writers, Publish(w) PROVE TypeOK'
    <2>1. writer[w] \in Changes
        BY <1>6, ChangeTyped DEF Publish, Ready, Has
    <2>2. told' \in Contents
        BY <1>6, <2>1 DEF Publish, Larger, Contents, Changes, TypeOK
    <2> QED BY <1>6, <2>2 DEF Publish, TypeOK
<1>7. CASE Dies
    BY <1>7 DEF Dies, Fails, TypeOK
<1>8. ASSUME NEW k \in Keys, Expire(k) PROVE TypeOK'
    BY <1>8 DEF Expire, TypeOK
<1> QED BY <1>1, <1>2, <1>3, <1>4, <1>5, <1>6, <1>7, <1>8 DEF Next, Writes

(* Contents, requests and entries keep to their types.                     *)
THEOREM TypeCorrect == Spec => []TypeOK
BY InitTyped, TypeStep, PTL DEF Spec

-----------------------------------------------------------------------------
(* What a content that no deletion crossed knows of some parts: it lacks   *)
(* nothing but what is committed and not deleted yet.                      *)
Latest(content, p) ==
    /\ content[p] # db[p] => \E w \in Writers : Has(w, "committed") /\ p \in writer[w].parts
    /\ content[p] >= told[p]
    /\ \A w \in Writers : Has(w, "invalidated") /\ p \in writer[w].parts => content[p] >= writer[w].change

(* The parts that a reader has read.                                       *)
Read(g) == CASE g.step = "escalation" -> {"ticket"}
             [] g.step = "rest"       -> {"ticket", "escalation"}
             [] g.step = "store"      -> Held(g.key)
             [] OTHER                 -> {}

GetSound(g) ==
    /\ g.step \in {"escalation", "rest"} => g.key = "detail"
    /\ \A p \in Parts : g.asked[p] <= told[p]
    /\ \A p \in Read(g) : g.content[p] >= g.asked[p]
    /\ ~g.crossed => \A p \in Read(g) : Latest(g.content, p)
    /\ g.step = "answered" /\ ~g.crossed => \A p \in Held(g.key) : g.content[p] >= g.asked[p]

ToldSound ==
    /\ \A p \in Parts : told[p] <= db[p] /\ db[p] <= changes
    /\ \A w \in Writers : writer[w] # None => \A p \in writer[w].parts : writer[w].change <= db[p]

EntriesSound ==
    \A k \in Keys : entry[k] # None /\ ~entry[k].crossed => \A p \in Held(k) : Latest(entry[k].content, p)

Sound ==
    /\ ToldSound /\ EntriesSound
    /\ \A r \in Readers : reader[r] # None => GetSound(reader[r])

Invariant == TypeOK /\ (failures = 0 => Sound)

LEMMA PartFacts ==
    ASSUME TypeOK
    PROVE  /\ \A p \in Parts : db[p] \in Nat /\ told[p] \in Nat
           /\ changes \in Nat
           /\ \A r \in Readers : reader[r] # None => reader[r] \in Gets
           /\ \A g \in Gets : \A p \in Parts : g.content[p] \in Nat /\ g.asked[p] \in Nat
           /\ \A k \in Keys : entry[k] # None => entry[k] \in Entries
           /\ \A e \in Entries : \A p \in Parts : e.content[p] \in Nat
           /\ \A w \in Writers : writer[w] # None => writer[w] \in Changes
           /\ \A c \in Changes : c.change \in Nat /\ c.parts \in Touched /\ c.parts \subseteq Parts
           /\ \A k \in Keys : Held(k) \subseteq Parts
           /\ \A g : Read(g) \subseteq Parts
<1>1. \A p \in Parts : db[p] \in Nat /\ told[p] \in Nat
    BY DEF TypeOK, Contents
<1>2. \A g \in Gets : \A p \in Parts : g.content[p] \in Nat /\ g.asked[p] \in Nat
    BY DEF Gets, Contents
<1>3. \A e \in Entries : \A p \in Parts : e.content[p] \in Nat
    BY DEF Entries, Contents
<1>4. \A c \in Changes : c.change \in Nat /\ c.parts \in Touched /\ c.parts \subseteq Parts
    BY DEF Changes, Touched, Parts
<1>5. \A k \in Keys : Held(k) \subseteq Parts
    BY DEF Held, Parts
<1>6. \A g : Read(g) \subseteq Parts
    BY DEF Read, Held, Parts
<1> QED BY <1>1, <1>2, <1>3, <1>4, <1>5, <1>6 DEF TypeOK

(* What is read now is the latest.                                         *)
LEMMA DatabaseIsLatest ==
    ASSUME TypeOK, ToldSound, NEW content, NEW p \in Parts, content[p] = db[p]
    PROVE  Latest(content, p)
BY PartFacts DEF Latest, ToldSound, Has

(* A reader moves, and may store an entry: the rest is as it was.          *)
LEMMA ReaderSound ==
    ASSUME TypeOK, Sound, NEW r \in Readers, NEW g, reader' = [reader EXCEPT ![r] = g],
           g # None => GetSound(g),
           UNCHANGED <<db, changes, writer, told>>,
           \A k \in Keys : \/ entry'[k] = entry[k]
                           \/ entry'[k] # None /\ ~entry'[k].crossed =>
                                \A p \in Held(k) : Latest(entry'[k].content, p)
    PROVE  Sound'
<1>1. \A content, p : Latest(content, p)' <=> Latest(content, p)
    BY DEF Latest, Has
<1>2. \A q : GetSound(q)' <=> GetSound(q)
    BY <1>1 DEF GetSound, Latest, Has
<1>3. ToldSound'
    BY DEF Sound, ToldSound
<1>4. \A q \in Readers : reader'[q] # None => GetSound(reader'[q])
    BY DEF Sound, TypeOK
<1>5. \A q \in Readers : reader'[q] # None => GetSound(reader[q])'
    <2> SUFFICES ASSUME NEW q \in Readers, reader'[q] # None
                 PROVE  GetSound(reader[q])'
        OBVIOUS
    <2>1. PICK x : x = reader'[q]
        OBVIOUS
    <2>2. GetSound(x)'
        BY <1>2, <1>4, <2>1
    <2> QED BY <2>1, <2>2
<1>6. EntriesSound'
    <2>1. \A k \in Keys : entry'[k] # None /\ ~entry'[k].crossed => \A p \in Held(k) : Latest(entry'[k].content, p)
        BY DEF Sound, EntriesSound
    <2> SUFFICES ASSUME NEW k \in Keys, entry'[k] # None, ~entry'[k].crossed, NEW p \in Held(k)
                 PROVE  Latest(entry[k].content, p)'
        BY DEF EntriesSound
    <2>2. PICK x : x = entry'[k].content
        OBVIOUS
    <2>3. Latest(x, p)'
        BY <1>1, <2>1, <2>2
    <2> QED BY <2>2, <2>3
<1> QED BY <1>3, <1>5, <1>6 DEF Sound

LEMMA GetStep ==
    ASSUME TypeOK, Sound, NEW r \in Readers, NEW k \in Keys, Get(r, k)
    PROVE  Sound'
<1>1. PICK g : g = [key |-> k, step |-> "cache", content |-> Nothing, crossed |-> FALSE, asked |-> told]
    OBVIOUS
<1>2. Read(g) = {} /\ g.asked = told /\ g.step = "cache"
    BY <1>1 DEF Read
<1>3. GetSound(g)
    BY <1>2, PartFacts DEF GetSound
<1> QED BY <1>1, <1>3, ReaderSound DEF Get

LEMMA CacheHitStep ==
    ASSUME TypeOK, Sound, NEW r \in Readers, CacheHit(r)
    PROVE  Sound'
<1> DEFINE q == reader[r]
           e == entry[q.key]
<1>1. q \in Gets /\ q.key \in Keys /\ e # None /\ e \in Entries /\ GetSound(q)
    <2>1. q \in Gets /\ GetSound(q) /\ e # None
        BY PartFacts DEF CacheHit, At, Sound
    <2>2. q.key \in Keys
        BY <2>1 DEF Gets
    <2> QED BY <2>1, <2>2, PartFacts
<1>2. PICK g : g = [q EXCEPT !.step = "answered", !.content = e.content, !.crossed = e.crossed]
    OBVIOUS
<1>3. /\ g.step = "answered" /\ g.key = q.key /\ g.content = e.content /\ g.crossed = e.crossed
      /\ g.asked = q.asked
    BY <1>1, <1>2 DEF Gets
<1>4. ~e.crossed => \A p \in Held(q.key) : e.content[p] >= q.asked[p]
    <2> SUFFICES ASSUME ~e.crossed, NEW p \in Held(q.key)
                 PROVE  e.content[p] >= q.asked[p]
        OBVIOUS
    <2>1. Latest(e.content, p) /\ p \in Parts
        BY <1>1, PartFacts DEF Sound, EntriesSound
    <2>2. e.content[p] >= told[p] /\ q.asked[p] <= told[p]
        BY <1>1, <2>1 DEF Latest, GetSound
    <2>3. e.content[p] \in Nat /\ q.asked[p] \in Nat /\ told[p] \in Nat
        BY <1>1, <2>1, PartFacts
    <2> QED BY <2>2, <2>3
<1>5. GetSound(g)
    BY <1>1, <1>3, <1>4 DEF GetSound, Read
<1>6. reader' = [reader EXCEPT ![r] = g]
    BY <1>2 DEF CacheHit
<1> HIDE DEF q, e
<1>7. UNCHANGED <<db, changes, writer, told>> /\ entry' = entry
    BY DEF CacheHit
<1> QED BY <1>5, <1>6, <1>7, ReaderSound

LEMMA CacheMissStep ==
    ASSUME TypeOK, Sound, NEW r \in Readers, CacheMiss(r)
    PROVE  Sound'
<1>1. reader[r] \in Gets /\ GetSound(reader[r])
    BY PartFacts DEF CacheMiss, At, Sound
<1>2. PICK g : g = [reader[r] EXCEPT !.step = "ticket"]
    OBVIOUS
<1>3. g.step = "ticket" /\ g.asked = reader[r].asked
    BY <1>1, <1>2 DEF Gets
<1>4. GetSound(g)
    BY <1>1, <1>3 DEF GetSound, Read
<1> QED BY <1>2, <1>4, ReaderSound DEF CacheMiss

LEMMA SelectStep ==
    ASSUME TypeOK, Sound, NEW r \in Readers, NEW part \in Parts, Select(r, part)
    PROVE  Sound'
<1> DEFINE q == reader[r]
<1>1. q \in Gets /\ GetSound(q) /\ q.step = part /\ q.key \in Keys
    BY PartFacts DEF Select, At, Sound, Gets
<1>2. PICK g : g = [q EXCEPT !.content[part] = db[part], !.step = Following(q.key, part)]
    OBVIOUS
<1>3. /\ g.step = Following(q.key, part) /\ g.key = q.key /\ g.crossed = q.crossed /\ g.asked = q.asked
      /\ g.content = [q.content EXCEPT ![part] = db[part]]
    BY <1>1, <1>2 DEF Gets
<1>4. q.content \in Contents /\ g.content[part] = db[part]
      /\ \A p \in Parts \ {part} : g.content[p] = q.content[p]
    <2>1. q.content \in Contents
        BY <1>1 DEF Gets
    <2> QED BY <1>3, <2>1 DEF Contents
<1>5. /\ Read(g) \subseteq Read(q) \cup {part} /\ Read(g) \subseteq Parts
      /\ g.step # "answered" /\ (g.step \in {"escalation", "rest"} => g.key = "detail")
    <2>1. q.key \in {"summary", "detail"} /\ part \in {"ticket", "escalation", "rest"}
        BY <1>1 DEF Keys, Parts
    <2>2. part \in {"escalation", "rest"} => q.key = "detail"
        BY <1>1 DEF GetSound
    <2>3. CASE part = "ticket"
        BY <1>1, <1>3, <2>1, <2>3 DEF Following, Read, Held, Parts
    <2>4. CASE part = "escalation"
        BY <1>1, <1>3, <2>1, <2>2, <2>4 DEF Following, Read, Held, Parts
    <2>5. CASE part = "rest"
        BY <1>1, <1>3, <2>1, <2>2, <2>5 DEF Following, Read, Held, Parts
    <2> QED BY <2>1, <2>3, <2>4, <2>5
<1>6. \A p \in Read(g) : g.content[p] >= g.asked[p]
    <2> SUFFICES ASSUME NEW p \in Read(g)
                 PROVE  g.content[p] >= g.asked[p]
        OBVIOUS
    <2>1. CASE p = part
        <3>1. q.asked[p] <= told[p] /\ told[p] <= db[p]
            BY <1>1, <2>1 DEF GetSound, Sound, ToldSound
        <3>2. q.asked[p] \in Nat /\ told[p] \in Nat /\ db[p] \in Nat
            BY <1>1, <2>1, PartFacts
        <3> QED BY <1>3, <1>4, <2>1, <3>1, <3>2
    <2>2. CASE p # part
        BY <1>1, <1>3, <1>4, <1>5, <2>2 DEF GetSound
    <2> QED BY <2>1, <2>2
<1>7. ASSUME ~g.crossed, NEW p \in Read(g)
      PROVE  Latest(g.content, p)
    <2>1. CASE p = part
        BY <1>4, <2>1, DatabaseIsLatest DEF Sound
    <2>2. CASE p # part
        <3>1. Latest(q.content, p) /\ g.content[p] = q.content[p]
            BY <1>1, <1>3, <1>4, <1>5, <1>7, <2>2 DEF GetSound
        <3> QED BY <3>1 DEF Latest
    <2> QED BY <2>1, <2>2
<1>8. GetSound(g)
    BY <1>1, <1>3, <1>5, <1>6, <1>7 DEF GetSound
<1> QED BY <1>2, <1>8, ReaderSound DEF Select

LEMMA SetEntryStep ==
    ASSUME TypeOK, Sound, NEW r \in Readers, SetEntry(r)
    PROVE  Sound'
<1> DEFINE q == reader[r]
<1>1. q \in Gets /\ GetSound(q) /\ q.step = "store" /\ q.key \in Keys /\ Read(q) = Held(q.key)
    BY PartFacts DEF SetEntry, At, Sound, Gets, Read
<1>2. PICK g : g = [q EXCEPT !.step = "answered", !.crossed = FALSE]
    OBVIOUS
<1>3. g.step = "answered" /\ g.key = q.key /\ g.content = q.content /\ g.asked = q.asked
    BY <1>1, <1>2 DEF Gets
<1>4. GetSound(g)
    BY <1>1, <1>3 DEF GetSound, Read
<1>5. PICK e : e = [content |-> q.content, crossed |-> q.crossed]
    OBVIOUS
<1>6. ~e.crossed => \A p \in Held(q.key) : Latest(e.content, p)
    BY <1>1, <1>5 DEF GetSound
<1>7. entry'[q.key] = e /\ \A k \in Keys \ {q.key} : entry'[k] = entry[k]
    BY <1>1, <1>5 DEF SetEntry, TypeOK
<1> QED BY <1>2, <1>4, <1>6, <1>7, ReaderSound DEF SetEntry

LEMMA AnsweredStep ==
    ASSUME TypeOK, Sound, NEW r \in Readers, Answered(r)
    PROVE  Sound'
<1>1. ASSUME NEW g, g = None PROVE Sound'
    <2>1. reader' = [reader EXCEPT ![r] = g] /\ entry' = entry
        BY <1>1 DEF Answered
    <2>2. g # None => GetSound(g)
        BY <1>1
    <2> QED BY <2>1, <2>2, ReaderSound DEF Answered
<1> QED BY <1>1

-----------------------------------------------------------------------------
(* A handler moves.                                                        *)
LEMMA CommitStep ==
    ASSUME TypeOK, Sound, NEW w \in Writers, Commit(w)
    PROVE  Sound'
<1>1. PICK parts \in Touched :
        /\ db' = [p \in Parts |-> IF p \in parts THEN changes + 1 ELSE db[p]]
        /\ writer' = [writer EXCEPT ![w] = [change |-> changes + 1, parts |-> parts, step |-> "committed"]]
    BY DEF Commit
<1>2. /\ writer[w] = None /\ Has(w, "committed")' /\ writer'[w].parts = parts
      /\ writer'[w].change = changes + 1 /\ writer'[w].step = "committed"
      /\ \A v \in Writers \ {w} : writer'[v] = writer[v]
    <2>1. writer' [w] = [change |-> changes + 1, parts |-> parts, step |-> "committed"]
        BY <1>1 DEF TypeOK
    <2>2. changes + 1 \in 1..MaxChanges
        BY DEF Commit, TypeOK
    <2>3. [change |-> changes + 1, parts |-> parts, step |-> "committed"] \in Changes
        BY <2>2 DEF Changes
    <2>4. writer'[w] # None
        BY <2>1, <2>3
    <2> QED BY <1>1, <2>1, <2>4 DEF Commit, Has, TypeOK
<1>3. \A p \in Parts : db'[p] = (IF p \in parts THEN changes + 1 ELSE db[p])
    BY <1>1
<1>4. ASSUME NEW content, NEW p \in Parts, Latest(content, p)
      PROVE  Latest(content, p)'
    <2>1. content[p] # db'[p] => \E v \in Writers : Has(v, "committed")' /\ p \in writer'[v].parts
        <3>1. CASE p \in parts
            BY <1>2, <3>1
        <3>2. CASE p \notin parts
            BY <1>2, <1>3, <1>4, <3>2 DEF Latest, Has
        <3> QED BY <3>1, <3>2
    <2>2. \A v \in Writers : Has(v, "invalidated")' /\ p \in writer'[v].parts => content[p] >= writer'[v].change
        BY <1>2, <1>4 DEF Latest, Has
    <2> QED BY <1>4, <2>1, <2>2 DEF Latest, Commit
<1>5. ToldSound'
    <2>1. \A p \in Parts : db'[p] \in Nat /\ db[p] <= db'[p] /\ db'[p] <= changes + 1 /\ told[p] <= db'[p]
        BY <1>3, PartFacts DEF Sound, ToldSound
    <2>2. \A v \in Writers \ {w} : writer'[v] # None => \A p \in writer'[v].parts : writer'[v].change <= db'[p]
        <3> SUFFICES ASSUME NEW v \in Writers \ {w}, writer[v] # None, NEW p \in writer[v].parts
                     PROVE  writer[v].change <= db'[p]
            BY <1>2
        <3>1. writer[v].change \in Nat /\ p \in Parts
            BY PartFacts
        <3>2. writer[v].change <= db[p]
            BY DEF Sound, ToldSound
        <3> QED BY <2>1, <3>1, <3>2, PartFacts
    <2>3. \A p \in writer'[w].parts : writer'[w].change <= db'[p]
        BY <1>2, <1>3, PartFacts DEF Touched, Parts
    <2> QED BY <2>1, <2>2, <2>3 DEF ToldSound, Commit
<1>6. EntriesSound'
    BY <1>4, PartFacts DEF Sound, EntriesSound, Commit
<1>7. \A r \in Readers : reader'[r] # None => GetSound(reader[r])'
    BY <1>4, PartFacts DEF Sound, GetSound, Commit
<1> QED BY <1>5, <1>6, <1>7 DEF Sound

LEMMA InvalidateStep ==
    ASSUME TypeOK, Sound, NEW w \in Writers, invalidate_ticket(w)
    PROVE  Sound'
<1>1. /\ writer[w] \in Changes
      /\ writer'[w] = [writer[w] EXCEPT !.step = "invalidated"]
      /\ \A v \in Writers \ {w} : writer'[v] = writer[v]
    BY PartFacts DEF invalidate_ticket, Has, TypeOK
<1>2. \A v \in Writers : writer'[v] # None =>
        writer[v] # None /\ writer'[v].change = writer[v].change /\ writer'[v].parts = writer[v].parts
    BY <1>1 DEF Changes, invalidate_ticket, Has
<1>3. ToldSound'
    BY <1>2 DEF Sound, ToldSound, invalidate_ticket
<1>4. EntriesSound'
    BY DEF EntriesSound, invalidate_ticket, invalidatedKeys, Keys
<1>5. ASSUME NEW r \in Readers, reader'[r] # None
      PROVE  GetSound(reader[r])'
    <2>1. PICK g : g = reader'[r]
        OBVIOUS
    <2>2. /\ reader[r] # None /\ reader[r] \in Gets /\ GetSound(reader[r])
          /\ IF reader[r].step \in {"escalation", "rest", "store"}
               THEN g = [reader[r] EXCEPT !.crossed = TRUE] ELSE g = reader[r]
        BY <1>5, <2>1, PartFacts DEF invalidate_ticket, Sound
    <2>3. /\ g.step = reader[r].step /\ g.key = reader[r].key /\ g.content = reader[r].content
          /\ g.asked = reader[r].asked
          /\ g.step \in {"escalation", "rest", "store"} => g.crossed
          /\ g.step = "answered" => g.crossed = reader[r].crossed
        BY <2>2 DEF Gets
    <2>4. Read(g) = Read(reader[r]) /\ (Read(g) # {} => g.crossed)
        BY <2>3 DEF Read
    <2>5. GetSound(g)'
        BY <2>2, <2>3, <2>4 DEF GetSound, Read, Held, invalidate_ticket
    <2> QED BY <2>1, <2>5
<1> QED BY <1>3, <1>4, <1>5 DEF Sound

LEMMA PublishStep ==
    ASSUME TypeOK, Sound, NEW w \in Writers, Publish(w)
    PROVE  Sound'
<1>1. /\ writer[w] # None /\ writer[w] \in Changes /\ writer[w].step = "invalidated" /\ writer'[w] = None
      /\ \A v \in Writers \ {w} : writer'[v] = writer[v]
      /\ writer[w].change \in Nat
    BY PartFacts DEF Publish, Ready, Has, TypeOK
<1>2. \A p \in Parts : /\ told'[p] = (IF p \in writer[w].parts THEN Larger(told[p], writer[w].change) ELSE told[p])
                       /\ told[p] <= told'[p] /\ told'[p] \in Nat
    BY <1>1, PartFacts DEF Publish, Larger
<1>3. \A p \in Parts : told'[p] <= db[p]
    BY <1>1, <1>2, PartFacts DEF Larger, Sound, ToldSound
<1>4. ToldSound'
    BY <1>1, <1>3 DEF Sound, ToldSound, Publish
<1>5. ASSUME NEW content, NEW p \in Parts, Latest(content, p)
      PROVE  Latest(content, p)'
    <2>1. content[p] # db[p] => \E v \in Writers : Has(v, "committed")' /\ p \in writer'[v].parts
        BY <1>1, <1>5 DEF Latest, Has
    <2>2. content[p] >= told'[p]
        BY <1>1, <1>2, <1>5 DEF Latest, Has, Larger
    <2>3. \A v \in Writers : Has(v, "invalidated")' /\ p \in writer'[v].parts => content[p] >= writer'[v].change
        BY <1>1, <1>5 DEF Latest, Has
    <2> QED BY <2>1, <2>2, <2>3 DEF Latest, Publish
<1>6. EntriesSound'
    BY <1>5, PartFacts DEF Sound, EntriesSound, Publish
<1>7. ASSUME NEW r \in Readers, reader'[r] # None
      PROVE  GetSound(reader[r])'
    <2>1. reader'[r] = reader[r] /\ reader[r] \in Gets /\ GetSound(reader[r])
        BY <1>7, PartFacts DEF Publish, Sound
    <2>2. \A p \in Parts : reader[r].asked[p] <= told'[p]
        BY <1>2, <2>1, PartFacts DEF GetSound
    <2>3. ~reader[r].crossed => \A p \in Read(reader[r]) : Latest(reader[r].content, p)'
        BY <1>5, <2>1, PartFacts DEF GetSound, Publish
    <2> QED BY <2>1, <2>2, <2>3 DEF GetSound, Publish
<1> QED BY <1>4, <1>6, <1>7 DEF Sound

-----------------------------------------------------------------------------
(* The rest.                                                               *)
LEMMA ExpireStep ==
    ASSUME TypeOK, Sound, NEW k \in Keys, Expire(k)
    PROVE  Sound'
<1>1. entry'[k] = None /\ \A q \in Keys \ {k} : entry'[q] = entry[q]
    BY DEF Expire, TypeOK
<1>2. \A content, p : Latest(content, p)' <=> Latest(content, p)
    BY DEF Latest, Has, Expire
<1>3. ToldSound'
    BY DEF Sound, ToldSound, Expire
<1>4. EntriesSound'
    BY <1>1, <1>2 DEF Sound, EntriesSound
<1>5. \A r \in Readers : reader'[r] # None => GetSound(reader[r])'
    BY <1>2 DEF Sound, GetSound, Expire
<1> QED BY <1>3, <1>4, <1>5 DEF Sound

LEMMA StutterStep ==
    ASSUME Sound, UNCHANGED vars
    PROVE  Sound'
<1>1. \A content, p : Latest(content, p)' <=> Latest(content, p)
    BY DEF Latest, Has, vars
<1>2. ToldSound' /\ EntriesSound'
    BY <1>1 DEF Sound, ToldSound, EntriesSound, vars
<1>3. \A r \in Readers : reader'[r] # None => GetSound(reader[r])'
    BY <1>1 DEF Sound, GetSound, vars
<1> QED BY <1>2, <1>3 DEF Sound

LEMMA InitSound == Init => Sound
<1> SUFFICES ASSUME Init PROVE Sound
    OBVIOUS
<1>1. \A p \in Parts : told[p] = 0 /\ db[p] = 0
    BY DEF Init, Nothing
<1>2. ToldSound /\ EntriesSound
    BY <1>1 DEF Init, ToldSound, EntriesSound
<1>3. \A r \in Readers : reader[r] = None
    BY DEF Init
<1> QED BY <1>2, <1>3 DEF Sound

(* A failure is counted, and none is forgotten.                            *)
LEMMA FailureCounted ==
    ASSUME TypeOK, [Next]_vars, failures' = 0
    PROVE  failures = 0
<1>1. ASSUME Fails PROVE FALSE
    BY <1>1 DEF Fails, TypeOK
<1>2. CASE UNCHANGED vars
    BY <1>2 DEF vars
<1>3. ASSUME NEW r \in Readers, (\E k \in Keys : Get(r, k)) \/ Reads(r) \/ CacheFails(r) PROVE failures = 0
    BY <1>1, <1>3 DEF Get, Reads, CacheHit, CacheMiss, Select, SetEntry, Answered, CacheFails
<1>4. ASSUME NEW w \in Writers, Commit(w) \/ Writes(w) \/ DeleteFails(w) PROVE failures = 0
    BY <1>1, <1>4 DEF Commit, Writes, invalidate_ticket, Publish, DeleteFails
<1>5. CASE Dies
    BY <1>1, <1>5 DEF Dies
<1>6. ASSUME NEW k \in Keys, Expire(k) PROVE failures = 0
    BY <1>6 DEF Expire
<1> QED BY <1>2, <1>3, <1>4, <1>5, <1>6 DEF Next

LEMMA SoundStep ==
    ASSUME TypeOK, Sound, [Next]_vars, failures' = 0
    PROVE  Sound'
<1>1. ASSUME Fails PROVE FALSE
    BY <1>1 DEF Fails, TypeOK
<1>2. CASE UNCHANGED vars
    BY <1>2, StutterStep
<1>3. ASSUME NEW r \in Readers, (\E k \in Keys : Get(r, k)) \/ Reads(r) \/ CacheFails(r) PROVE Sound'
    <2>1. ~CacheFails(r)
        BY <1>1 DEF CacheFails
    <2> QED BY <1>3, <2>1, GetStep, CacheHitStep, CacheMissStep, SelectStep, SetEntryStep, AnsweredStep DEF Reads
<1>4. ASSUME NEW w \in Writers, Commit(w) \/ Writes(w) \/ DeleteFails(w) PROVE Sound'
    <2>1. ~DeleteFails(w)
        BY <1>1 DEF DeleteFails
    <2> QED BY <1>4, <2>1, CommitStep, InvalidateStep, PublishStep DEF Writes
<1>5. ~Dies
    BY <1>1 DEF Dies
<1>6. ASSUME NEW k \in Keys, Expire(k) PROVE Sound'
    BY <1>6, ExpireStep
<1> QED BY <1>2, <1>3, <1>4, <1>5, <1>6 DEF Next

LEMMA InvariantStep == Invariant /\ [Next]_vars => Invariant'
<1> SUFFICES ASSUME Invariant, [Next]_vars PROVE Invariant'
    OBVIOUS
<1>1. TypeOK'
    BY TypeStep DEF Invariant
<1>2. ASSUME failures' = 0 PROVE Sound'
    <2>1. Sound
        BY <1>2, FailureCounted DEF Invariant
    <2> QED BY <1>2, <2>1, SoundStep DEF Invariant
<1> QED BY <1>1, <1>2 DEF Invariant

LEMMA InvariantInit == Init => Invariant
BY InitTyped, InitSound DEF Invariant

(* As long as nothing failed, every entry and every answer that no         *)
(* deletion crossed shows what the handlers before it have answered.       *)
THEOREM InvariantHolds == Spec => []Invariant
BY InvariantInit, InvariantStep, PTL DEF Spec

(* The order of the handlers, commit and then delete, leaves no stale      *)
(* entry behind but those that a reader it crossed stores.                 *)
THEOREM StaleEntriesWereCrossed == Spec => []StaleOnlyIfCrossed
<1>1. Invariant => StaleOnlyIfCrossed
    BY DEF Invariant, Sound, EntriesSound, Latest, StaleOnlyIfCrossed
<1> QED BY <1>1, InvariantHolds, PTL

(* Who asks after an answer is shown the change it told of.                *)
THEOREM AnswersKeepUp == Spec => []AnswersShowWhatWasTold
<1>1. Invariant => AnswersShowWhatWasTold
    BY DEF Invariant, Sound, GetSound, At, AnswersShowWhatWasTold
<1> QED BY <1>1, InvariantHolds, PTL
=============================================================================
