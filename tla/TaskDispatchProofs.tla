------------------------- MODULE TaskDispatchProofs -------------------------
(***************************************************************************)
(* Proofs about TaskDispatch for any number of events, templates, handlers,*)
(* workers and operators, and for every bound.                             *)
(***************************************************************************)
EXTENDS TaskDispatch, FiniteSetTheorems, TLAPS

(* The typing of TypeOK, without the bound of delivered.                   *)
Typed ==
    /\ event \in [Events -> EventStates]
    /\ due \subseteq Events
    /\ handler \in [Handlers -> HandlerRecord]
    /\ worker \in [Workers -> WorkerRecord]
    /\ dispatches \in [Bindings -> Nat]
    /\ executions \in [TaskIds -> Nat]
    /\ task \in [TaskIds -> TaskRecord]
    /\ operator \in [Operators -> OperatorRecord]
    /\ sent \in [Bindings -> Nat]
    /\ delivered \in [TaskIds -> Nat]
    /\ failures \in Nat

-----------------------------------------------------------------------------
(* Tasks.                                                                  *)

(* The rows are numbered as they are inserted, so the next number is free. *)
RowsInOrder == \E n \in 0..MaxTasks : Existing = 1..n

(* Who is about to run a task: a message, a worker, or an operator that    *)
(* has inserted a retry and not published it yet.                          *)
Holds(w, t) == worker[w].pc \in {"created", "running"} /\ worker[w].task = t
WillPublish(o, t) == operator[o].pc = "inserted" /\ operator[o].task = t

(* A task that is held has not been attempted to its end.                  *)
HeldIsUnfinished ==
    \A t \in TaskIds :
        /\ \A w \in Workers : Holds(w, t) =>
              /\ task[t].status = (IF worker[w].pc = "created" THEN "PENDING" ELSE "RUNNING")
              /\ delivered[t] = 0
        /\ (executions[t] > 0 \/ \E o \in Operators : WillPublish(o, t)) =>
              task[t].status = "PENDING" /\ delivered[t] = 0

(* One holder at a time.                                                   *)
OneHolder ==
    \A t \in TaskIds :
        /\ executions[t] <= 1
        /\ \A v, w \in Workers : Holds(v, t) /\ Holds(w, t) => v = w
        /\ \A o, p \in Operators : WillPublish(o, t) /\ WillPublish(p, t) => o = p
        /\ \A w \in Workers, o \in Operators : ~(Holds(w, t) /\ WillPublish(o, t))
        /\ executions[t] > 0 => /\ \A w \in Workers : ~Holds(w, t)
                                /\ \A o \in Operators : ~WillPublish(o, t)

(* A worker or an operator that is past its first step names a row.        *)
RowsNamed ==
    /\ \A w \in Workers : /\ worker[w].pc \in {"created", "running"} => worker[w].task \in TaskIds
                          /\ worker[w].pc = "taken" => worker[w].binding \in Bindings
    /\ \A o \in Operators : operator[o].pc # "idle" => operator[o].task \in Existing

Untried == \A t \in TaskIds :
    /\ task[t].status \in {"ABSENT", "PENDING"} => delivered[t] = 0
    /\ delivered[t] <= 1

TaskInv == Typed /\ RowsInOrder /\ RowsNamed /\ HeldIsUnfinished /\ OneHolder /\ Untried

-----------------------------------------------------------------------------
(* Events.                                                                 *)

Registered(h, e) == handler[h].pc # "idle" /\ e \in handler[h].registered
Locks(w, e) == e \in worker[w].claim \cup worker[w].later

(* A transaction locks rows that are not TRIGGERED, and only one does.     *)
LocksSound ==
    \A e \in Events :
        /\ \A v, w \in Workers : Locks(v, e) /\ Locks(w, e) => v = w
        /\ \A w \in Workers : Locks(w, e) =>
              /\ worker[w].pc \in {"claimed", "published"}
              /\ event[e] \in {"ABSENT", "PENDING"}
              /\ event[e] = "PENDING" => e \in due
              /\ ImmediateTimeoutRules => e \in worker[w].claim

(* An event that waits for its handler is TRIGGERED and waits for no other.*)
RegisteredSound ==
    \A e \in Events :
        /\ \A h \in Handlers : Registered(h, e) => event[e] = "TRIGGERED"
        /\ \A g, h \in Handlers : Registered(g, e) /\ Registered(h, e) => g = h

(* An event whose messages are out.                                        *)
Out(e) ==
    \/ event[e] = "TRIGGERED" /\ \A h \in Handlers : ~Registered(h, e)
    \/ \E w \in Workers : worker[w].pc = "published" /\ Locks(w, e)

SentOnce ==
    ImmediateTimeoutRules =>
        \A b \in Bindings : sent[b] <= failures + (IF Out(b[1]) THEN 1 ELSE 0)

EventInv == LocksSound /\ RegisteredSound /\ SentOnce

-----------------------------------------------------------------------------
(* Messages.                                                               *)

OneWorker == \A v, w \in Workers : v = w

(* An event is in the database, or its worker is about to commit it.       *)
Visible(e) ==
    event[e] # "ABSENT" \/ \E w \in Workers : worker[w].pc = "published" /\ Locks(w, e)

(* Nothing broke: every message has an event a worker can find.            *)
NoOrphans ==
    OneWorker /\ failures = 0 =>
        \A b \in Bindings :
            dispatches[b] > 0 \/ (\E w \in Workers : worker[w].binding = b) => Visible(b[1])

BindingsHeld == \A w \in Workers : worker[w].binding # None <=> worker[w].pc = "taken"

MessageInv == BindingsHeld /\ NoOrphans /\ (OneWorker => NothingIsLost)

USE DispatchAssumption DEF DispatchAssumption

-----------------------------------------------------------------------------
(* Typing.                                                                 *)

LEMMA IdleTypes ==
    /\ IdleHandler \in HandlerRecord
    /\ IdleWorker \in WorkerRecord
    /\ IdleOperator \in OperatorRecord
    /\ NoTask \in TaskRecord
BY DEF IdleHandler, HandlerRecord, IdleWorker, WorkerRecord, IdleOperator, OperatorRecord,
       NoTask, TaskRecord, TaskStates

LEMMA SweepingType ==
    ASSUME NEW batch \in SUBSET Events
    PROVE  /\ [IdleWorker EXCEPT !.pc = "sweeping", !.batch = batch] \in WorkerRecord
           /\ AfterEvent(batch) \in WorkerRecord
BY DEF AfterEvent, IdleWorker, WorkerRecord

(* What a step of a worker leaves of the others.                           *)
LEMMA OtherWorkers ==
    ASSUME Typed, NEW w \in Workers, NEW g, worker' = [worker EXCEPT ![w] = g]
    PROVE  worker'[w] = g /\ \A v \in Workers \ {w} : worker'[v] = worker[v]
BY DEF Typed

LEMMA PublishTypes ==
    ASSUME Typed, NEW bindings, Publish(bindings)
    PROVE  /\ sent' \in [Bindings -> Nat] /\ dispatches' \in [Bindings -> Nat]
           /\ executions' = executions
           /\ \A b \in Bindings : IF b \in bindings
                THEN sent'[b] = sent[b] + 1 /\ dispatches'[b] = dispatches[b] + 1
                ELSE sent'[b] = sent[b] /\ dispatches'[b] = dispatches[b]
BY DEF Typed, Publish

LEMMA HandlerTypes ==
    ASSUME Typed, NEW h \in Handlers, Handle(h)
    PROVE  Typed'
<1>1. ASSUME NEW now \in SUBSET Events, NEW later \in SUBSET Events, CommitEvents(h, now, later)
      PROVE  Typed'
  <2>1. event' \in [Events -> EventStates] /\ due' \subseteq Events
    BY <1>1 DEF CommitEvents, Typed, EventStates
  <2>2. handler' \in [Handlers -> HandlerRecord]
    <3>1. [pc |-> "committed", registered |-> now] \in HandlerRecord
      BY DEF HandlerRecord
    <3> QED BY <1>1, <3>1, IdleTypes DEF CommitEvents, Typed
  <2> QED BY <1>1, <2>1, <2>2 DEF CommitEvents, Typed, queues
<1>2. CASE DispatchRegistered(h)
  BY <1>2, PublishTypes, IdleTypes DEF DispatchRegistered, Typed
<1>3. CASE DispatchFails(h)
  <2>1. handler' \in [Handlers -> HandlerRecord]
    BY <1>3 DEF DispatchFails, Typed, HandlerRecord
  <2> QED BY <1>3, <2>1, PublishTypes DEF DispatchFails, Breakdown, Typed
<1>4. CASE Restore(h)
  BY <1>4, IdleTypes DEF Restore, Typed, EventStates, queues
<1>5. CASE CrashHandler(h)
  BY <1>5, IdleTypes DEF CrashHandler, Breakdown, Typed, queues
<1> QED BY <1>1, <1>2, <1>3, <1>4, <1>5 DEF Handle

LEMMA SweepTypes ==
    ASSUME Typed, NEW w \in Workers, Sweep(w)
    PROVE  Typed'
<1>0. worker[w] \in WorkerRecord /\ worker[w].batch \in SUBSET Events
  BY DEF Typed, WorkerRecord
<1>1. CASE ListDue(w)
  <2>1. PICK batch \in SUBSET Sweepable :
          worker' = [worker EXCEPT ![w] = [IdleWorker EXCEPT !.pc = "sweeping", !.batch = batch]]
    BY <1>1 DEF ListDue
  <2>2. batch \in SUBSET Events
    BY DEF Sweepable, Typed
  <2>3. worker' \in [Workers -> WorkerRecord]
    BY <2>1, <2>2, SweepingType DEF Typed
  <2> QED BY <1>1, <2>3 DEF ListDue, Typed, queues
<1>2. ASSUME NEW e \in Events, Claim(w, e) PROVE Typed'
  <2>1. worker' \in [Workers -> WorkerRecord]
    BY <1>0, <1>2 DEF Claim, Typed, WorkerRecord
  <2> QED BY <1>2, <2>1 DEF Claim, Typed, queues
<1>3. ASSUME NEW e \in Events, SkipEvent(w, e) PROVE Typed'
  <2>1. AfterEvent(worker[w].batch \ {e}) \in WorkerRecord
    BY <1>0, SweepingType
  <2> QED BY <1>3, <2>1 DEF SkipEvent, Typed, queues
<1>4. CASE PublishClaimed(w)
  <2>1. worker' \in [Workers -> WorkerRecord]
    BY <1>0, <1>4 DEF PublishClaimed, Typed, WorkerRecord
  <2> QED BY <1>4, <2>1, PublishTypes DEF PublishClaimed, Typed
<1>5. CASE CommitClaimed(w)
  <2>1. AfterEvent(worker[w].batch) \in WorkerRecord
    BY <1>0, SweepingType
  <2>2. worker[w].claim \subseteq Events
    BY <1>0 DEF WorkerRecord
  <2> QED BY <1>5, <2>1, <2>2 DEF CommitClaimed, Typed, EventStates, queues
<1> QED BY <1>1, <1>2, <1>3, <1>4, <1>5 DEF Sweep

LEMMA RunTypes ==
    ASSUME Typed, RowsNamed, NEW w \in Workers, RunTask(w)
    PROVE  Typed'
<1>0. worker[w] \in WorkerRecord
  BY DEF Typed
<1>1. ASSUME NEW b \in Bindings, TakeDispatch(w, b) PROVE Typed'
  <2>1. [IdleWorker EXCEPT !.pc = "taken", !.binding = b] \in WorkerRecord
    BY DEF IdleWorker, WorkerRecord
  <2>2. worker' \in [Workers -> WorkerRecord] /\ dispatches' \in [Bindings -> Nat]
    BY <1>1, <2>1 DEF TakeDispatch, Typed
  <2> QED BY <1>1, <2>2 DEF TakeDispatch, Typed
<1>2. CASE CreateInstance(w)
  <2> DEFINE row == [status |-> "PENDING", binding |-> worker[w].binding, retry_of |-> 0]
  <2>1. /\ row \in TaskRecord /\ NextTask \in TaskIds
        /\ [IdleWorker EXCEPT !.pc = "created", !.task = NextTask] \in WorkerRecord
    BY <1>0, <1>2 DEF CreateInstance, TaskRecord, TaskStates, IdleWorker, WorkerRecord
  <2>2. task' = [task EXCEPT ![NextTask] = row]
    BY <1>2 DEF CreateInstance, WithRow
  <2>3. task' \in [TaskIds -> TaskRecord]
    BY <2>1, <2>2 DEF Typed
  <2>4. worker' \in [Workers -> WorkerRecord]
    BY <1>2, <2>1 DEF CreateInstance, Typed
  <2> QED BY <1>2, <2>3, <2>4 DEF CreateInstance, Typed, queues
<1>3. CASE RejectOrphan(w)
  BY <1>3, IdleTypes DEF RejectOrphan, Typed, queues
<1>4. ASSUME NEW t \in TaskIds, TakeExecution(w, t) PROVE Typed'
  <2>1. [IdleWorker EXCEPT !.pc = "created", !.task = t] \in WorkerRecord
    BY DEF IdleWorker, WorkerRecord
  <2>2. worker' \in [Workers -> WorkerRecord] /\ executions' \in [TaskIds -> Nat]
    BY <1>4, <2>1 DEF TakeExecution, Typed
  <2> QED BY <1>4, <2>2 DEF TakeExecution, Typed
<1>5. CASE StartTask(w)
  <2>1. worker' \in [Workers -> WorkerRecord]
    BY <1>0, <1>5 DEF StartTask, Typed, WorkerRecord
  <2>2. task' \in [TaskIds -> TaskRecord]
    BY <1>5 DEF StartTask, Typed, TaskRecord, TaskStates
  <2> QED BY <1>5, <2>1, <2>2 DEF StartTask, Typed, queues
<1>6. ASSUME NEW status \in {"SUCCESS", "FAILED"}, NEW deliveries \in {0, 1},
             Finish(w, status, deliveries)
      PROVE  Typed'
  <2>1. task' \in [TaskIds -> TaskRecord]
    BY <1>6 DEF Finish, Typed, TaskRecord, TaskStates
  <2>2. delivered' \in [TaskIds -> Nat]
    <3>1. worker[w].task \in TaskIds
      BY <1>6 DEF Finish, RowsNamed
    <3> QED BY <1>6, <3>1 DEF Finish, Typed
  <2> QED BY <1>6, <2>1, <2>2, IdleTypes DEF Finish, Typed, queues
<1> QED BY <1>1, <1>2, <1>3, <1>4, <1>5, <1>6 DEF RunTask, Succeed, FailTask

LEMMA WorkTypes ==
    ASSUME Typed, RowsNamed, NEW w \in Workers, Work(w)
    PROVE  Typed'
<1>0. worker[w] \in WorkerRecord
  BY DEF Typed
<1>1. CASE Sweep(w)
  BY <1>1, SweepTypes
<1>2. CASE RunTask(w)
  BY <1>2, RunTypes
<1>3. ASSUME NEW now \in SUBSET Events, NEW later \in SUBSET Events, MatchSignal(w, now, later)
      PROVE  Typed'
  <2>1. worker' \in [Workers -> WorkerRecord]
    BY <1>0, <1>3 DEF MatchSignal, Typed, WorkerRecord
  <2> QED BY <1>3, <2>1 DEF MatchSignal, Typed, queues
<1>4. CASE PublishFails(w)
  BY <1>4, PublishTypes, IdleTypes DEF PublishFails, Breakdown, Typed
<1>5. CASE CrashWorker(w)
  <2>1. delivered' \in [TaskIds -> Nat]
    <3>1. CASE delivered' = delivered
      BY <3>1 DEF Typed
    <3>2. CASE worker[w].pc = "running"
               /\ delivered' = [delivered EXCEPT ![worker[w].task] = @ + 1]
      <4>1. worker[w].task \in TaskIds
        BY <3>2 DEF RowsNamed
      <4> QED BY <3>2, <4>1 DEF Typed
    <3> QED BY <1>5, <3>1, <3>2 DEF CrashWorker
  <2> QED BY <1>5, <2>1, IdleTypes DEF CrashWorker, Breakdown, Typed, queues
<1> QED BY <1>1, <1>2, <1>3, <1>4, <1>5 DEF Work

LEMMA RetryTypes ==
    ASSUME Typed, RowsNamed, NEW o \in Operators, Retry(o)
    PROVE  Typed'
<1>0. operator[o] \in OperatorRecord
  BY DEF Typed
<1>1. ASSUME NEW t \in TaskIds, CheckRetry(o, t) PROVE Typed'
  <2>1. [pc |-> "checked", task |-> t] \in OperatorRecord
    BY DEF OperatorRecord
  <2> QED BY <1>1, <2>1 DEF CheckRetry, Typed, queues
<1>2. CASE InsertRetry(o)
  <2> DEFINE source == operator[o].task
             row == [status |-> "PENDING", binding |-> task[source].binding, retry_of |-> source]
  <2>1. source \in TaskIds /\ task[source] \in TaskRecord
    BY <1>2 DEF RowsNamed, InsertRetry, Existing, Typed
  <2>2. /\ row \in TaskRecord /\ NextTask \in TaskIds
        /\ [pc |-> "inserted", task |-> NextTask] \in OperatorRecord
    BY <1>2, <2>1 DEF InsertRetry, TaskRecord, TaskStates, OperatorRecord
  <2>3. task' = [task EXCEPT ![NextTask] = row]
    BY <1>2 DEF InsertRetry, WithRow
  <2>4. task' \in [TaskIds -> TaskRecord]
    BY <2>2, <2>3 DEF Typed
  <2>5. operator' \in [Operators -> OperatorRecord]
    BY <1>2, <2>2 DEF InsertRetry, Typed
  <2> QED BY <1>2, <2>4, <2>5 DEF InsertRetry, Typed, queues
<1>3. CASE EnqueueRetry(o)
  <2>1. executions' \in [TaskIds -> Nat]
    <3>1. operator[o].task \in TaskIds
      BY <1>3 DEF EnqueueRetry, RowsNamed, Existing
    <3> QED BY <1>3, <3>1 DEF EnqueueRetry, Typed
  <2> QED BY <1>3, <2>1, IdleTypes DEF EnqueueRetry, Typed
<1>4. CASE AbandonRetry(o)
  BY <1>4, IdleTypes DEF AbandonRetry, Breakdown, Typed, queues
<1> QED BY <1>1, <1>2, <1>3, <1>4 DEF Retry

LEMMA StepTypes ==
    ASSUME Typed, RowsNamed, [Next]_vars
    PROVE  Typed'
<1>1. ASSUME NEW e \in Events, DelayPasses(e) PROVE Typed'
  BY <1>1 DEF DelayPasses, Typed, queues
<1>2. CASE UNCHANGED vars
  BY <1>2 DEF vars, queues, Typed
<1> QED BY <1>1, <1>2, HandlerTypes, WorkTypes, RetryTypes DEF Next

-----------------------------------------------------------------------------
(* Tasks.                                                                  *)

LEMMA TaskInit == Init => TaskInv
<1> SUFFICES ASSUME Init PROVE TaskInv
  OBVIOUS
<1>1. Typed
  BY IdleTypes DEF Init, Typed, EventStates
<1>2. RowsInOrder
  <2>1. Existing = {}
    BY DEF Init, Existing, NoTask
  <2>2. 0 \in 0..MaxTasks /\ 1..0 = {}
    OBVIOUS
  <2> QED BY <2>1, <2>2 DEF RowsInOrder
<1>3. RowsNamed
  BY DEF Init, RowsNamed, IdleWorker, IdleOperator
<1>4. HeldIsUnfinished /\ OneHolder
  BY DEF Init, HeldIsUnfinished, OneHolder, Holds, WillPublish, IdleWorker, IdleOperator
<1>5. Untried
  BY DEF Init, Untried
<1> QED BY <1>1, <1>2, <1>3, <1>4, <1>5 DEF TaskInv

(* The number of a new row is free, and follows those that are taken.      *)
LEMMA NextTaskIsFree ==
    ASSUME TaskInv, NextTask \in TaskIds
    PROVE  task[NextTask].status = "ABSENT" /\ Existing \cup {NextTask} = 1..NextTask
<1>1. PICK n \in 0..MaxTasks : Existing = 1..n
  BY DEF TaskInv, RowsInOrder
<1>2. Cardinality(Existing) = n
  BY <1>1, FS_Interval
<1>3. NextTask = n + 1
  BY <1>2 DEF NextTask
<1>4. NextTask \notin Existing
  BY <1>1, <1>3
<1>5. Existing \cup {NextTask} = 1..NextTask
  BY <1>1, <1>3
<1> QED BY <1>4, <1>5 DEF Existing

(* Steps that neither begin nor end the hold on a task.                    *)
LEMMA TaskFrame ==
    ASSUME TaskInv, Typed', UNCHANGED <<executions, task, operator, delivered>>,
           \A w \in Workers :
              \/ worker'[w] = worker[w]
              \/ /\ worker'[w].pc \notin {"created", "running"}
                 /\ worker'[w].pc = "taken" => worker'[w].binding \in Bindings
    PROVE  TaskInv'
<1>1. \A w \in Workers : \A t : Holds(w, t)' => Holds(w, t) /\ worker'[w] = worker[w]
  BY DEF Holds
<1>2. \A o \in Operators : \A t : WillPublish(o, t)' <=> WillPublish(o, t)
  BY DEF WillPublish
<1>3. Existing' = Existing
  BY DEF Existing
<1>4. RowsInOrder'
  BY <1>3 DEF TaskInv, RowsInOrder
<1>5. RowsNamed'
  BY <1>3 DEF TaskInv, RowsNamed
<1>6. HeldIsUnfinished'
  BY <1>1, <1>2 DEF TaskInv, HeldIsUnfinished
<1>7. OneHolder'
  BY <1>1, <1>2 DEF TaskInv, OneHolder
<1>8. Untried'
  BY DEF TaskInv, Untried
<1> QED BY <1>4, <1>5, <1>6, <1>7, <1>8 DEF TaskInv

(* A row is inserted by the worker or the operator that will run it.       *)
LEMMA InsertTaskInvariant ==
    ASSUME TaskInv, Typed', NextTask \in TaskIds, NEW row,
           row.status = "PENDING", task' = [task EXCEPT ![NextTask] = row],
           UNCHANGED <<executions, delivered>>,
           \/ /\ operator' = operator
              /\ \E w \in Workers :
                    /\ worker[w].pc \notin {"created", "running"}
                    /\ worker'[w].pc = "created" /\ worker'[w].task = NextTask
                    /\ \A v \in Workers \ {w} : worker'[v] = worker[v]
           \/ /\ worker' = worker
              /\ \E o \in Operators :
                    /\ operator[o].pc # "inserted"
                    /\ operator'[o].pc = "inserted" /\ operator'[o].task = NextTask
                    /\ \A p \in Operators \ {o} : operator'[p] = operator[p]
    PROVE  TaskInv'
<1>0. PICK n : n = NextTask
  OBVIOUS
<1>1. task[n].status = "ABSENT" /\ Existing \cup {n} = 1..n
  BY <1>0, NextTaskIsFree
<1>2. n \in TaskIds /\ task'[n] = row /\ \A t \in TaskIds \ {n} : task'[t] = task[t]
  BY <1>0 DEF TaskInv, Typed
<1>3. Existing' = Existing \cup {n} /\ n \in 1..MaxTasks
  BY <1>2 DEF Existing, TaskIds
<1>4. RowsInOrder'
  <2>1. n \in 0..MaxTasks
    BY <1>3
  <2> QED BY <1>1, <1>3, <2>1 DEF RowsInOrder
<1>5. /\ \A w \in Workers : ~Holds(w, n)
      /\ \A o \in Operators : ~WillPublish(o, n)
      /\ executions[n] = 0 /\ delivered[n] = 0
  BY <1>1, <1>2 DEF TaskInv, HeldIsUnfinished, Untried, Typed
<1>6. RowsNamed'
  BY <1>0, <1>2, <1>3 DEF TaskInv, RowsNamed
<1>7. \A t \in TaskIds \ {n} :
        /\ \A w \in Workers : Holds(w, t)' <=> Holds(w, t)
        /\ \A w \in Workers : Holds(w, t) => worker'[w] = worker[w]
        /\ \A o \in Operators : WillPublish(o, t)' <=> WillPublish(o, t)
  BY <1>0 DEF Holds, WillPublish
<1>8. HeldIsUnfinished'
  <2> SUFFICES ASSUME NEW t \in TaskIds
               PROVE  /\ \A w \in Workers : Holds(w, t)' =>
                            /\ task'[t].status = (IF worker'[w].pc = "created" THEN "PENDING"
                                                  ELSE "RUNNING")
                            /\ delivered'[t] = 0
                      /\ (executions'[t] > 0 \/ \E o \in Operators : WillPublish(o, t)') =>
                            task'[t].status = "PENDING" /\ delivered'[t] = 0
    BY DEF HeldIsUnfinished
  <2>1. CASE t # n
    BY <1>2, <1>7, <2>1 DEF TaskInv, HeldIsUnfinished
  <2>2. CASE t = n
    <3>1. task'[n].status = "PENDING" /\ delivered'[n] = 0
      BY <1>2, <1>5
    <3>2. \A w \in Workers : Holds(w, n)' => worker'[w].pc = "created"
      <4>1. \A w \in Workers : worker'[w] = worker[w] \/ worker'[w].pc = "created"
        BY <1>0
      <4> QED BY <1>5, <4>1 DEF Holds
    <3> QED BY <2>2, <3>1, <3>2 DEF Holds
  <2> QED BY <2>1, <2>2
<1>9. OneHolder'
  <2> SUFFICES ASSUME NEW t \in TaskIds
               PROVE  /\ executions'[t] <= 1
                      /\ \A v, w \in Workers : Holds(v, t)' /\ Holds(w, t)' => v = w
                      /\ \A o, p \in Operators : WillPublish(o, t)' /\ WillPublish(p, t)' => o = p
                      /\ \A w \in Workers, o \in Operators : ~(Holds(w, t)' /\ WillPublish(o, t)')
                      /\ executions'[t] > 0 => /\ \A w \in Workers : ~Holds(w, t)'
                                               /\ \A o \in Operators : ~WillPublish(o, t)'
    BY DEF OneHolder
  <2>1. CASE t # n
    BY <1>7, <2>1 DEF TaskInv, OneHolder
  <2>2. CASE t = n
    BY <1>0, <1>5, <2>2 DEF Holds, WillPublish
  <2> QED BY <2>1, <2>2
<1>10. Untried'
  BY <1>2, <1>5 DEF TaskInv, Untried
<1> QED BY <1>4, <1>6, <1>8, <1>9, <1>10 DEF TaskInv

LEMMA TakeExecutionInvariant ==
    ASSUME TaskInv, Typed', NEW w \in Workers, NEW s \in TaskIds, TakeExecution(w, s)
    PROVE  TaskInv'
<1> DEFINE g == [IdleWorker EXCEPT !.pc = "created", !.task = s]
<1>1. /\ worker[w].pc = "idle" /\ executions[s] > 0
      /\ executions' = [executions EXCEPT ![s] = @ - 1]
      /\ worker' = [worker EXCEPT ![w] = g]
      /\ UNCHANGED <<task, operator, delivered>>
  BY DEF TakeExecution
<1>2. g.pc = "created" /\ g.task = s
  BY DEF IdleWorker
<1>3. worker'[w] = g /\ \A v \in Workers \ {w} : worker'[v] = worker[v]
  BY <1>1, OtherWorkers DEF TaskInv
<1> HIDE DEF g
<1>4. /\ executions[s] = 1 /\ executions'[s] = 0
      /\ \A t \in TaskIds \ {s} : executions'[t] = executions[t]
  BY <1>1 DEF TaskInv, OneHolder, Typed
<1>5. /\ \A v \in Workers, t \in TaskIds : Holds(v, t)' <=> Holds(v, t) \/ (v = w /\ t = s)
      /\ \A v \in Workers : ~Holds(v, s)
      /\ \A t \in TaskIds : ~Holds(w, t)
      /\ \A o \in Operators, t \in TaskIds : WillPublish(o, t)' <=> WillPublish(o, t)
      /\ \A o \in Operators : ~WillPublish(o, s)
  BY <1>1, <1>2, <1>3 DEF TaskInv, OneHolder, Holds, WillPublish
<1>6. RowsInOrder' /\ Existing' = Existing
  BY <1>1 DEF TaskInv, RowsInOrder, Existing
<1>7. RowsNamed'
  BY <1>1, <1>2, <1>3, <1>6 DEF TaskInv, RowsNamed
<1>8. HeldIsUnfinished'
  <2> SUFFICES ASSUME NEW t \in TaskIds
               PROVE  /\ \A v \in Workers : Holds(v, t)' =>
                            /\ task'[t].status = (IF worker'[v].pc = "created" THEN "PENDING"
                                                  ELSE "RUNNING")
                            /\ delivered'[t] = 0
                      /\ (executions'[t] > 0 \/ \E o \in Operators : WillPublish(o, t)') =>
                            task'[t].status = "PENDING" /\ delivered'[t] = 0
    BY DEF HeldIsUnfinished
  <2>1. CASE t = s
    BY <1>1, <1>2, <1>3, <1>4, <1>5, <2>1 DEF TaskInv, HeldIsUnfinished
  <2>2. CASE t # s
    <3>1. \A v \in Workers : Holds(v, t)' => Holds(v, t) /\ worker'[v] = worker[v]
      BY <1>3, <1>5, <2>2
    <3> QED BY <1>1, <1>4, <1>5, <2>2, <3>1 DEF TaskInv, HeldIsUnfinished
  <2> QED BY <2>1, <2>2
<1>9. OneHolder'
  <2> SUFFICES ASSUME NEW t \in TaskIds
               PROVE  /\ executions'[t] <= 1
                      /\ \A u, v \in Workers : Holds(u, t)' /\ Holds(v, t)' => u = v
                      /\ \A o, p \in Operators : WillPublish(o, t)' /\ WillPublish(p, t)' => o = p
                      /\ \A v \in Workers, o \in Operators : ~(Holds(v, t)' /\ WillPublish(o, t)')
                      /\ executions'[t] > 0 => /\ \A v \in Workers : ~Holds(v, t)'
                                               /\ \A o \in Operators : ~WillPublish(o, t)'
    BY DEF OneHolder
  <2>1. CASE t = s
    BY <1>4, <1>5, <2>1
  <2>2. CASE t # s
    BY <1>4, <1>5, <2>2 DEF TaskInv, OneHolder
  <2> QED BY <2>1, <2>2
<1>10. Untried'
  BY <1>1 DEF TaskInv, Untried
<1> QED BY <1>6, <1>7, <1>8, <1>9, <1>10 DEF TaskInv

LEMMA StartInvariant ==
    ASSUME TaskInv, Typed', NEW w \in Workers, StartTask(w)
    PROVE  TaskInv'
<1> DEFINE s == worker[w].task
<1>1. /\ worker[w].pc = "created"
      /\ task' = [task EXCEPT ![s].status = "RUNNING"]
      /\ worker' = [worker EXCEPT ![w].pc = "running"]
      /\ UNCHANGED <<executions, operator, delivered>>
  BY DEF StartTask, queues
<1>2. s \in TaskIds /\ Holds(w, s)
  BY <1>1 DEF TaskInv, RowsNamed, Holds
<1>3. /\ worker'[w].pc = "running" /\ worker'[w].task = s
      /\ \A v \in Workers \ {w} : worker'[v] = worker[v]
  BY <1>1 DEF TaskInv, Typed, WorkerRecord
<1>4. /\ task[s].status = "PENDING" /\ delivered[s] = 0
      /\ executions[s] = 0 /\ \A o \in Operators : ~WillPublish(o, s)
      /\ \A v \in Workers \ {w} : ~Holds(v, s)
  BY <1>1, <1>2 DEF TaskInv, HeldIsUnfinished, OneHolder, Typed
<1>5. /\ task'[s].status = "RUNNING"
      /\ \A t \in TaskIds \ {s} : task'[t] = task[t]
  BY <1>1, <1>2 DEF TaskInv, Typed, TaskRecord
<1>6. /\ \A v \in Workers, t \in TaskIds : Holds(v, t)' <=> Holds(v, t)
      /\ \A o \in Operators, t \in TaskIds : WillPublish(o, t)' <=> WillPublish(o, t)
  BY <1>1, <1>3 DEF Holds, WillPublish
<1>7. Existing' = Existing
  BY <1>4, <1>5, <1>2 DEF Existing
<1>8. RowsInOrder'
  BY <1>7 DEF TaskInv, RowsInOrder
<1>9. RowsNamed'
  BY <1>1, <1>2, <1>3, <1>7 DEF TaskInv, RowsNamed
<1>10. HeldIsUnfinished'
  <2> SUFFICES ASSUME NEW t \in TaskIds
               PROVE  /\ \A v \in Workers : Holds(v, t)' =>
                            /\ task'[t].status = (IF worker'[v].pc = "created" THEN "PENDING"
                                                  ELSE "RUNNING")
                            /\ delivered'[t] = 0
                      /\ (executions'[t] > 0 \/ \E o \in Operators : WillPublish(o, t)') =>
                            task'[t].status = "PENDING" /\ delivered'[t] = 0
    BY DEF HeldIsUnfinished
  <2>1. CASE t = s
    BY <1>1, <1>3, <1>4, <1>5, <1>6, <2>1
  <2>2. CASE t # s
    <3>1. \A v \in Workers : Holds(v, t)' => Holds(v, t) /\ worker'[v] = worker[v]
      BY <1>3, <1>6, <2>2 DEF Holds
    <3>2. executions' = executions /\ delivered' = delivered /\ task'[t] = task[t]
      BY <1>1, <1>5, <2>2
    <3> QED BY <1>6, <3>1, <3>2 DEF TaskInv, HeldIsUnfinished
  <2> QED BY <2>1, <2>2
<1>11. OneHolder'
  BY <1>1, <1>6 DEF TaskInv, OneHolder
<1>12. Untried'
  BY <1>1, <1>2, <1>4, <1>5 DEF TaskInv, Untried
<1> QED BY <1>8, <1>9, <1>10, <1>11, <1>12 DEF TaskInv

(* A worker lets go of the task it runs, which is delivered now if ever.   *)
LEMMA ReleaseInvariant ==
    ASSUME TaskInv, Typed', NEW w \in Workers, worker[w].pc = "running",
           worker' = [worker EXCEPT ![w] = IdleWorker],
           NEW deliveries \in {0, 1},
           delivered' = [delivered EXCEPT ![worker[w].task] = @ + deliveries],
           NEW status \in {"RUNNING", "SUCCESS", "FAILED"},
           task' = [task EXCEPT ![worker[w].task].status = status],
           UNCHANGED <<executions, operator>>
    PROVE  TaskInv'
<1> DEFINE s == worker[w].task
<1>2. s \in TaskIds /\ Holds(w, s)
  BY DEF TaskInv, RowsNamed, Holds
<1>3. worker'[w] = IdleWorker /\ \A v \in Workers \ {w} : worker'[v] = worker[v]
  BY OtherWorkers DEF TaskInv
<1>4. /\ task[s].status = "RUNNING" /\ delivered[s] = 0
      /\ executions[s] = 0 /\ \A o \in Operators : ~WillPublish(o, s)
      /\ \A v \in Workers \ {w} : ~Holds(v, s)
  BY <1>2 DEF TaskInv, HeldIsUnfinished, OneHolder, Typed
<1>5. /\ task'[s].status = status
      /\ delivered'[s] = deliveries
      /\ \A t \in TaskIds \ {s} : task'[t] = task[t] /\ delivered'[t] = delivered[t]
  BY <1>2, <1>4 DEF TaskInv, Typed, TaskRecord
<1>6. /\ \A v \in Workers, t \in TaskIds : Holds(v, t)' <=> Holds(v, t) /\ v # w
      /\ \A o \in Operators, t \in TaskIds : WillPublish(o, t)' <=> WillPublish(o, t)
  BY <1>3 DEF Holds, WillPublish, IdleWorker
<1>7. Existing' = Existing
  BY <1>2, <1>4, <1>5 DEF Existing
<1>8. RowsInOrder'
  BY <1>7 DEF TaskInv, RowsInOrder
<1>9. RowsNamed'
  BY <1>3, <1>7 DEF TaskInv, RowsNamed, IdleWorker
<1>10. HeldIsUnfinished'
  <2> SUFFICES ASSUME NEW t \in TaskIds
               PROVE  /\ \A v \in Workers : Holds(v, t)' =>
                            /\ task'[t].status = (IF worker'[v].pc = "created" THEN "PENDING"
                                                  ELSE "RUNNING")
                            /\ delivered'[t] = 0
                      /\ (executions'[t] > 0 \/ \E o \in Operators : WillPublish(o, t)') =>
                            task'[t].status = "PENDING" /\ delivered'[t] = 0
    BY DEF HeldIsUnfinished
  <2>1. CASE t = s
    BY <1>4, <1>6, <2>1
  <2>2. CASE t # s
    <3>1. \A v \in Workers : Holds(v, t)' => Holds(v, t) /\ worker'[v] = worker[v]
      BY <1>3, <1>6, <2>2
    <3> QED BY <1>5, <1>6, <2>2, <3>1 DEF TaskInv, HeldIsUnfinished
  <2> QED BY <2>1, <2>2
<1>11. OneHolder'
  BY <1>6 DEF TaskInv, OneHolder
<1>12. Untried'
  BY <1>2, <1>5 DEF TaskInv, Untried
<1> QED BY <1>8, <1>9, <1>10, <1>11, <1>12 DEF TaskInv

(* An operator checks a task, publishes its message, or gives up.          *)
LEMMA OperatorInvariant ==
    ASSUME TaskInv, Typed', NEW o \in Operators,
           UNCHANGED <<task, delivered>>, worker' = worker,
           \A p \in Operators \ {o} : operator'[p] = operator[p],
           operator'[o].pc # "inserted",
           operator'[o].pc # "idle" => operator'[o].task \in Existing,
           \/ executions' = executions
           \/ /\ operator[o].pc = "inserted"
              /\ executions' = [executions EXCEPT ![operator[o].task] = @ + 1]
    PROVE  TaskInv'
<1>1. Existing' = Existing
  BY DEF Existing
<1>2. RowsInOrder' /\ RowsNamed' /\ Untried'
  BY <1>1 DEF TaskInv, RowsInOrder, RowsNamed, Untried
<1>3. /\ \A w \in Workers, t \in TaskIds : Holds(w, t)' <=> Holds(w, t)
      /\ \A p \in Operators, t \in TaskIds : WillPublish(p, t)' <=> WillPublish(p, t) /\ p # o
  BY DEF Holds, WillPublish
<1>4. \A t \in TaskIds : \/ executions'[t] = executions[t]
                         \/ WillPublish(o, t) /\ executions[t] = 0 /\ executions'[t] = 1
  <2>1. CASE executions' = executions
    BY <2>1
  <2>2. CASE /\ operator[o].pc = "inserted"
             /\ executions' = [executions EXCEPT ![operator[o].task] = @ + 1]
    <3>1. operator[o].task \in TaskIds /\ WillPublish(o, operator[o].task)
      BY <2>2 DEF TaskInv, RowsNamed, Existing, WillPublish
    <3>2. executions[operator[o].task] = 0
      BY <3>1 DEF TaskInv, OneHolder, Typed
    <3> QED BY <2>2, <3>1, <3>2 DEF TaskInv, Typed
  <2> QED BY <2>1, <2>2
<1>5. HeldIsUnfinished'
  BY <1>3, <1>4 DEF TaskInv, HeldIsUnfinished
<1>6. OneHolder'
  BY <1>3, <1>4 DEF TaskInv, OneHolder
<1> QED BY <1>2, <1>5, <1>6 DEF TaskInv

LEMMA HandleTaskInvariant ==
    ASSUME TaskInv, Typed', NEW h \in Handlers, Handle(h)
    PROVE  TaskInv'
<1>1. UNCHANGED <<worker, executions, task, operator, delivered>>
  BY DEF Handle, CommitEvents, DispatchRegistered, DispatchFails, Restore, CrashHandler,
         Publish, queues
<1> QED BY <1>1, TaskFrame

LEMMA SweepTaskInvariant ==
    ASSUME TaskInv, Typed', NEW w \in Workers,
           \/ Sweep(w) \/ RejectOrphan(w) \/ PublishFails(w)
           \/ \E now, later \in SUBSET Events : MatchSignal(w, now, later)
    PROVE  TaskInv'
<1>1. UNCHANGED <<executions, task, operator, delivered>>
  BY DEF Sweep, ListDue, Claim, SkipEvent, PublishClaimed, CommitClaimed, RejectOrphan,
         PublishFails, MatchSignal, Publish, queues
<1>2. \E g : worker' = [worker EXCEPT ![w] = g] /\ g.pc \notin {"created", "running", "taken"}
  <2>0. worker[w] \in WorkerRecord
    BY DEF TaskInv, Typed
  <2>1. \A batch : AfterEvent(batch).pc \notin {"created", "running", "taken"}
    BY DEF AfterEvent, IdleWorker
  <2>2. IdleWorker.pc \notin {"created", "running", "taken"}
    BY DEF IdleWorker
  <2>3. CASE ListDue(w)
    <3>1. PICK batch \in SUBSET Sweepable :
            worker' = [worker EXCEPT ![w] = [IdleWorker EXCEPT !.pc = "sweeping", !.batch = batch]]
      BY <2>3 DEF ListDue
    <3>2. [IdleWorker EXCEPT !.pc = "sweeping", !.batch = batch].pc = "sweeping"
      BY DEF IdleWorker
    <3> QED BY <3>1, <3>2
  <2>4. CASE \E e \in Events : Claim(w, e)
    <3>1. PICK e \in Events : Claim(w, e)
      BY <2>4
    <3> DEFINE g == [worker[w] EXCEPT !.pc = "claimed", !.claim = {e}, !.batch = worker[w].batch \ {e}]
    <3>2. worker' = [worker EXCEPT ![w] = g] /\ g.pc = "claimed"
      BY <2>0, <3>1 DEF Claim, TaskInv, Typed, WorkerRecord
    <3> QED BY <3>2
  <2>5. CASE \E e \in Events : SkipEvent(w, e)
    BY <2>1, <2>5 DEF SkipEvent
  <2>6. CASE PublishClaimed(w)
    <3> DEFINE g == [worker[w] EXCEPT !.pc = "published"]
    <3>1. worker' = [worker EXCEPT ![w] = g] /\ g.pc = "published"
      BY <2>0, <2>6 DEF PublishClaimed, TaskInv, Typed, WorkerRecord
    <3> QED BY <3>1
  <2>7. CASE CommitClaimed(w)
    BY <2>1, <2>7 DEF CommitClaimed
  <2>8. CASE RejectOrphan(w) \/ PublishFails(w)
    BY <2>2, <2>8 DEF RejectOrphan, PublishFails
  <2>9. CASE \E now, later \in SUBSET Events : MatchSignal(w, now, later)
    <3>1. PICK now, later \in SUBSET Events : MatchSignal(w, now, later)
      BY <2>9
    <3> DEFINE g == [worker[w] EXCEPT !.pc = "claimed", !.claim = now, !.later = later]
    <3>2. g.pc = "claimed"
      BY <2>0 DEF WorkerRecord
    <3>3. worker' = [worker EXCEPT ![w].pc = "claimed", ![w].claim = now, ![w].later = later]
      BY <3>1 DEF MatchSignal
    <3>4. worker' = [worker EXCEPT ![w] = g]
      BY <3>3 DEF TaskInv, Typed
    <3> QED BY <3>2, <3>4
  <2> QED BY <2>3, <2>4, <2>5, <2>6, <2>7, <2>8, <2>9 DEF Sweep
<1>3. PICK g : worker' = [worker EXCEPT ![w] = g] /\ g.pc \notin {"created", "running", "taken"}
  BY <1>2
<1>4. \A v \in Workers : worker'[v] = worker[v] \/ worker'[v].pc \notin {"created", "running", "taken"}
  BY <1>3, OtherWorkers DEF TaskInv
<1> QED BY <1>1, <1>4, TaskFrame

LEMMA RunTaskInvariant ==
    ASSUME TaskInv, Typed', NEW w \in Workers, RunTask(w)
    PROVE  TaskInv'
<1>1. ASSUME NEW b \in Bindings, TakeDispatch(w, b) PROVE TaskInv'
  <2> DEFINE g == [IdleWorker EXCEPT !.pc = "taken", !.binding = b]
  <2>1. /\ worker' = [worker EXCEPT ![w] = g]
        /\ UNCHANGED <<executions, task, operator, delivered>>
    BY <1>1 DEF TakeDispatch
  <2>2. g.pc = "taken" /\ g.binding = b
    BY DEF IdleWorker
  <2> HIDE DEF g
  <2>3. worker'[w] = g /\ \A v \in Workers \ {w} : worker'[v] = worker[v]
    BY <2>1, OtherWorkers DEF TaskInv
  <2> QED BY <2>1, <2>2, <2>3, TaskFrame
<1>2. CASE CreateInstance(w)
  <2> DEFINE row == [status |-> "PENDING", binding |-> worker[w].binding, retry_of |-> 0]
             g == [IdleWorker EXCEPT !.pc = "created", !.task = NextTask]
  <2>1. /\ worker[w].pc = "taken" /\ NextTask \in TaskIds
        /\ task' = [task EXCEPT ![NextTask] = row]
        /\ worker' = [worker EXCEPT ![w] = g]
        /\ UNCHANGED <<executions, operator, delivered>>
    BY <1>2 DEF CreateInstance, WithRow, queues
  <2>2. g.pc = "created" /\ g.task = NextTask
    BY DEF IdleWorker
  <2>3. row.status = "PENDING"
    OBVIOUS
  <2> HIDE DEF g, row
  <2>4. worker'[w] = g /\ \A v \in Workers \ {w} : worker'[v] = worker[v]
    BY <2>1, OtherWorkers DEF TaskInv
  <2> QED BY <2>1, <2>2, <2>3, <2>4, InsertTaskInvariant
<1>3. CASE RejectOrphan(w)
  BY <1>3, SweepTaskInvariant
<1>4. CASE \E t \in TaskIds : TakeExecution(w, t)
  BY <1>4, TakeExecutionInvariant
<1>5. CASE StartTask(w)
  BY <1>5, StartInvariant
<1>6. ASSUME NEW status \in {"SUCCESS", "FAILED"}, NEW deliveries \in {0, 1},
             Finish(w, status, deliveries)
      PROVE  TaskInv'
  <2>1. /\ worker[w].pc = "running"
        /\ worker' = [worker EXCEPT ![w] = IdleWorker]
        /\ delivered' = [delivered EXCEPT ![worker[w].task] = @ + deliveries]
        /\ task' = [task EXCEPT ![worker[w].task].status = status]
        /\ UNCHANGED <<executions, operator>>
    BY <1>6 DEF Finish, queues
  <2> QED BY <2>1, ReleaseInvariant
<1> QED BY <1>1, <1>2, <1>3, <1>4, <1>5, <1>6 DEF RunTask, Succeed, FailTask

LEMMA CrashTaskInvariant ==
    ASSUME TaskInv, Typed', NEW w \in Workers, CrashWorker(w)
    PROVE  TaskInv'
<1>1. /\ worker' = [worker EXCEPT ![w] = IdleWorker]
      /\ UNCHANGED <<executions, task, operator>>
  BY DEF CrashWorker, queues
<1>2. CASE delivered' = delivered
  <2>1. worker'[w] = IdleWorker /\ \A v \in Workers \ {w} : worker'[v] = worker[v]
    BY <1>1, OtherWorkers DEF TaskInv
  <2>2. IdleWorker.pc = "idle"
    BY DEF IdleWorker
  <2> QED BY <1>1, <1>2, <2>1, <2>2, TaskFrame
<1>3. CASE worker[w].pc = "running" /\ delivered' = [delivered EXCEPT ![worker[w].task] = @ + 1]
  <2>1. worker[w].task \in TaskIds /\ task[worker[w].task].status = "RUNNING"
    BY <1>3 DEF TaskInv, RowsNamed, HeldIsUnfinished, Holds
  <2>2. task' = [task EXCEPT ![worker[w].task].status = "RUNNING"]
    BY <1>1, <2>1 DEF TaskInv, Typed, TaskRecord
  <2> QED BY <1>1, <1>3, <2>2, ReleaseInvariant
<1> QED BY <1>2, <1>3 DEF CrashWorker

LEMMA RetryTaskInvariant ==
    ASSUME TaskInv, Typed', NEW o \in Operators, Retry(o)
    PROVE  TaskInv'
<1>1. ASSUME NEW t \in TaskIds, CheckRetry(o, t) PROVE TaskInv'
  <2>1. /\ operator' = [operator EXCEPT ![o] = [pc |-> "checked", task |-> t]]
        /\ UNCHANGED <<worker, executions, task, delivered>>
        /\ t \in Existing
    BY <1>1 DEF CheckRetry, queues, Existing
  <2>2. /\ operator'[o] = [pc |-> "checked", task |-> t]
        /\ \A p \in Operators \ {o} : operator'[p] = operator[p]
    BY <2>1 DEF TaskInv, Typed
  <2> QED BY <2>1, <2>2, OperatorInvariant
<1>2. CASE InsertRetry(o)
  <2> DEFINE source == operator[o].task
             row == [status |-> "PENDING", binding |-> task[source].binding, retry_of |-> source]
  <2>1. /\ operator[o].pc = "checked" /\ NextTask \in TaskIds
        /\ task' = [task EXCEPT ![NextTask] = row]
        /\ operator' = [operator EXCEPT ![o] = [pc |-> "inserted", task |-> NextTask]]
        /\ UNCHANGED <<worker, executions, delivered>>
    BY <1>2 DEF InsertRetry, WithRow, queues
  <2>2. row.status = "PENDING"
    OBVIOUS
  <2> HIDE DEF row
  <2>3. /\ operator'[o] = [pc |-> "inserted", task |-> NextTask]
        /\ \A p \in Operators \ {o} : operator'[p] = operator[p]
    BY <2>1 DEF TaskInv, Typed
  <2>4. /\ worker' = worker
        /\ \E p \in Operators :
              /\ operator[p].pc # "inserted"
              /\ operator'[p].pc = "inserted" /\ operator'[p].task = NextTask
              /\ \A q \in Operators \ {p} : operator'[q] = operator[q]
    BY <2>1, <2>3
  <2>5. NextTask \in TaskIds /\ UNCHANGED <<executions, delivered>>
    BY <2>1
  <2>6. task' = [task EXCEPT ![NextTask] = row]
    BY <2>1
  <2> QED BY <2>2, <2>4, <2>5, <2>6, InsertTaskInvariant
<1>3. CASE EnqueueRetry(o)
  <2>1. /\ operator[o].pc = "inserted"
        /\ executions' = [executions EXCEPT ![operator[o].task] = @ + 1]
        /\ operator' = [operator EXCEPT ![o] = IdleOperator]
        /\ UNCHANGED <<worker, task, delivered>>
    BY <1>3 DEF EnqueueRetry
  <2>2. /\ operator'[o].pc = "idle"
        /\ \A p \in Operators \ {o} : operator'[p] = operator[p]
    BY <2>1 DEF TaskInv, Typed, IdleOperator
  <2> QED BY <2>1, <2>2, OperatorInvariant
<1>4. CASE AbandonRetry(o)
  <2>1. /\ operator' = [operator EXCEPT ![o] = IdleOperator]
        /\ UNCHANGED <<worker, executions, task, delivered>>
    BY <1>4 DEF AbandonRetry, queues
  <2>2. /\ operator'[o].pc = "idle"
        /\ \A p \in Operators \ {o} : operator'[p] = operator[p]
    BY <2>1 DEF TaskInv, Typed, IdleOperator
  <2> QED BY <2>1, <2>2, OperatorInvariant
<1> QED BY <1>1, <1>2, <1>3, <1>4 DEF Retry

LEMMA TaskStep == TaskInv /\ [Next]_vars => TaskInv'
<1> SUFFICES ASSUME TaskInv, [Next]_vars PROVE TaskInv'
  OBVIOUS
<1>1. Typed'
  BY StepTypes DEF TaskInv
<1>2. CASE \E h \in Handlers : Handle(h)
  BY <1>1, <1>2, HandleTaskInvariant
<1>3. CASE \E e \in Events : DelayPasses(e)
  <2>1. UNCHANGED <<worker, executions, task, operator, delivered>>
    BY <1>3 DEF DelayPasses, queues
  <2> QED BY <1>1, <2>1, TaskFrame
<1>4. CASE \E w \in Workers : Work(w)
  BY <1>1, <1>4, SweepTaskInvariant, RunTaskInvariant, CrashTaskInvariant DEF Work
<1>5. CASE \E o \in Operators : Retry(o)
  BY <1>1, <1>5, RetryTaskInvariant
<1>6. CASE UNCHANGED vars
  <2>1. UNCHANGED <<worker, executions, task, operator, delivered>>
    BY <1>6 DEF vars, queues
  <2> QED BY <1>1, <2>1, TaskFrame
<1> QED BY <1>2, <1>3, <1>4, <1>5, <1>6 DEF Next

LEMMA TaskInvariant == Spec => []TaskInv
BY TaskInit, TaskStep, PTL DEF Spec

(* No task delivers twice, although a worker does not look at the status   *)
(* it finds: the bound of delivered in TypeOK.                             *)
THEOREM DispatchTypes == Spec => []TypeOK
<1>1. TaskInv => TypeOK
  BY DEF TaskInv, Typed, Untried, TypeOK
<1> QED BY <1>1, TaskInvariant, PTL

(* The steps that write the row of a task or deliver it.                   *)
LEMMA OutcomeStep ==
    ASSUME TaskInv, [Next]_vars, NEW t \in TaskIds, task[t].status \in {"SUCCESS", "FAILED"}
    PROVE  task'[t] = task[t] /\ delivered'[t] = delivered[t]
<1> DEFINE Kept == task'[t] = task[t] /\ delivered'[t] = delivered[t]
<1>1. /\ \A w \in Workers : ~Holds(w, t)
      /\ task \in [TaskIds -> TaskRecord] /\ delivered \in [TaskIds -> Nat]
  BY DEF TaskInv, HeldIsUnfinished, Typed
<1>2. ASSUME UNCHANGED <<task, delivered>> PROVE Kept
  BY <1>2
<1>3. ASSUME NEW row, NextTask \in TaskIds, task' = [task EXCEPT ![NextTask] = row],
             delivered' = delivered
      PROVE  Kept
  <2>1. NextTask # t
    BY <1>3, NextTaskIsFree
  <2> QED BY <1>1, <1>3, <2>1
<1>4. ASSUME NEW h \in Handlers, Handle(h) PROVE Kept
  BY <1>2, <1>4 DEF Handle, CommitEvents, DispatchRegistered, DispatchFails, Restore, CrashHandler
<1>5. ASSUME NEW w \in Workers, Work(w) PROVE Kept
  <2>1. CASE Sweep(w) \/ PublishFails(w) \/ \E now, later \in SUBSET Events : MatchSignal(w, now, later)
    BY <1>2, <2>1 DEF Sweep, ListDue, Claim, SkipEvent, PublishClaimed, CommitClaimed,
                      PublishFails, MatchSignal
  <2>2. CASE CrashWorker(w)
    BY <1>1, <1>2, <2>2 DEF CrashWorker, Holds
  <2>3. CASE CreateInstance(w)
    BY <1>3, <2>3 DEF CreateInstance, WithRow
  <2>4. CASE StartTask(w)
    BY <1>1, <2>4 DEF StartTask, Holds
  <2>5. ASSUME NEW status, NEW deliveries, Finish(w, status, deliveries) PROVE Kept
    BY <1>1, <2>5 DEF Finish, Holds
  <2>6. CASE \/ \E b \in Bindings : TakeDispatch(w, b)
             \/ RejectOrphan(w)
             \/ \E s \in TaskIds : TakeExecution(w, s)
    BY <1>2, <2>6 DEF TakeDispatch, RejectOrphan, TakeExecution
  <2> QED BY <1>5, <2>1, <2>2, <2>3, <2>4, <2>5, <2>6 DEF Work, RunTask, Succeed, FailTask
<1>6. ASSUME NEW o \in Operators, Retry(o) PROVE Kept
  <2>1. CASE InsertRetry(o)
    BY <1>3, <2>1 DEF InsertRetry, WithRow
  <2>2. CASE (\E s \in TaskIds : CheckRetry(o, s)) \/ EnqueueRetry(o) \/ AbandonRetry(o)
    BY <1>2, <2>2 DEF CheckRetry, EnqueueRetry, AbandonRetry
  <2> QED BY <1>6, <2>1, <2>2 DEF Retry
<1>7. CASE (\E e \in Events : DelayPasses(e)) \/ UNCHANGED vars
  BY <1>2, <1>7 DEF DelayPasses, vars
<1> QED BY <1>4, <1>5, <1>6, <1>7 DEF Next

(* An attempted task stays as it is: no message, worker or operator holds  *)
(* it any more, and a retry gets a row of its own.                         *)
THEOREM OutcomesStay == Spec => OutcomeIsFinal
<1>1. TaskInv /\ [Next]_vars =>
        [\A t \in TaskIds :
            task[t].status \in {"SUCCESS", "FAILED"} =>
                task'[t] = task[t] /\ delivered'[t] = delivered[t]]_vars
  BY OutcomeStep
<1> QED BY <1>1, TaskInvariant, PTL DEF Spec, OutcomeIsFinal

-----------------------------------------------------------------------------
(* Events.                                                                 *)

(* What the steps of a transaction do to its worker.                       *)
LEMMA Emptied ==
    ASSUME Typed, NEW w \in Workers, NEW g, worker' = [worker EXCEPT ![w] = g],
           g \in {IdleWorker} \cup {AfterEvent(batch) : batch \in SUBSET Events}
    PROVE  /\ worker'[w].pc \in {"idle", "sweeping"} /\ worker'[w].binding = None
           /\ worker'[w].claim = {} /\ worker'[w].later = {}
           /\ \A v \in Workers \ {w} : worker'[v] = worker[v]
<1>1. worker'[w] = g /\ \A v \in Workers \ {w} : worker'[v] = worker[v]
  BY OtherWorkers
<1>2. CASE g = IdleWorker
  BY <1>1, <1>2 DEF IdleWorker
<1>3. ASSUME NEW batch, g = [IdleWorker EXCEPT !.pc = "sweeping", !.batch = batch]
      PROVE  g.pc = "sweeping" /\ g.binding = None /\ g.claim = {} /\ g.later = {}
  BY <1>3 DEF IdleWorker
<1>4. g = IdleWorker \/ \E batch : g = [IdleWorker EXCEPT !.pc = "sweeping", !.batch = batch]
  BY DEF AfterEvent
<1> QED BY <1>1, <1>2, <1>3, <1>4

LEMMA ClaimFacts ==
    ASSUME Typed, NEW w \in Workers, NEW e \in Events, Claim(w, e)
    PROVE  /\ worker[w].pc = "sweeping" /\ worker'[w].pc = "claimed"
           /\ worker'[w].claim = {e} /\ worker'[w].later = worker[w].later
           /\ worker'[w].binding = worker[w].binding
           /\ \A v \in Workers \ {w} : worker'[v] = worker[v]
           /\ \A v \in Workers : ~Locks(v, e)
           /\ event[e] = "PENDING" /\ e \in due
           /\ UNCHANGED <<event, due, handler, dispatches, executions, task, operator, sent,
                          delivered, failures>>
<1>1. worker[w] \in WorkerRecord
  BY DEF Typed
<1>2. \A v \in Workers : ~Locks(v, e)
  BY DEF Claim, InTransaction, Locks
<1> QED BY <1>1, <1>2 DEF Claim, Typed, WorkerRecord, Sweepable, queues

LEMMA MatchFacts ==
    ASSUME Typed, NEW w \in Workers, NEW now, NEW later, MatchSignal(w, now, later)
    PROVE  /\ worker[w].pc \in {"idle", "sweeping"} /\ worker'[w].pc = "claimed"
           /\ worker'[w].claim = now /\ worker'[w].later = later
           /\ worker'[w].binding = worker[w].binding
           /\ \A v \in Workers \ {w} : worker'[v] = worker[v]
           /\ \A e \in now \cup later : event[e] = "ABSENT" /\ \A v \in Workers : ~Locks(v, e)
           /\ ImmediateTimeoutRules => later = {}
           /\ UNCHANGED <<event, due, handler, dispatches, executions, task, operator, sent,
                          delivered, failures>>
<1>1. worker[w] \in WorkerRecord
  BY DEF Typed
<1>2. \A e \in now \cup later : event[e] = "ABSENT" /\ \A v \in Workers : ~Locks(v, e)
  BY DEF MatchSignal, Matched, FreshEvents, InTransaction, Locks
<1>3. worker' = [worker EXCEPT ![w].pc = "claimed", ![w].claim = now, ![w].later = later]
  BY DEF MatchSignal
<1>4. /\ worker'[w].pc = "claimed"
      /\ worker'[w].claim = now /\ worker'[w].later = later
      /\ worker'[w].binding = worker[w].binding
      /\ \A v \in Workers \ {w} : worker'[v] = worker[v]
  BY <1>1, <1>3 DEF Typed, WorkerRecord
<1> QED BY <1>2, <1>4 DEF MatchSignal, queues

LEMMA PublishFacts ==
    ASSUME Typed, NEW w \in Workers, PublishClaimed(w)
    PROVE  /\ worker[w].pc = "claimed" /\ worker'[w].pc = "published"
           /\ worker'[w].claim = worker[w].claim /\ worker'[w].later = worker[w].later
           /\ worker'[w].binding = worker[w].binding
           /\ \A v \in Workers \ {w} : worker'[v] = worker[v]
           /\ \A b \in Bindings : IF Locks(w, b[1])
                THEN sent'[b] = sent[b] + 1 /\ dispatches'[b] = dispatches[b] + 1
                ELSE sent'[b] = sent[b] /\ dispatches'[b] = dispatches[b]
           /\ UNCHANGED <<event, due, handler, task, operator, delivered, failures>>
<1>1. worker[w] \in WorkerRecord
  BY DEF Typed
<1>2. /\ worker' = [worker EXCEPT ![w].pc = "published"]
      /\ Publish(BindingsOf(worker[w].claim \cup worker[w].later))
      /\ UNCHANGED <<event, due, handler, task, operator, delivered, failures>>
  BY DEF PublishClaimed
<1>3. \A b \in Bindings : b \in BindingsOf(worker[w].claim \cup worker[w].later) <=> Locks(w, b[1])
  BY DEF Bindings, BindingsOf, Locks
<1>4. \A b \in Bindings : IF Locks(w, b[1])
        THEN sent'[b] = sent[b] + 1 /\ dispatches'[b] = dispatches[b] + 1
        ELSE sent'[b] = sent[b] /\ dispatches'[b] = dispatches[b]
  <2>1. PICK bindings : bindings = BindingsOf(worker[w].claim \cup worker[w].later)
    OBVIOUS
  <2>2. Publish(bindings)
    BY <1>2, <2>1
  <2>3. \A b \in Bindings : IF b \in bindings
          THEN sent'[b] = sent[b] + 1 /\ dispatches'[b] = dispatches[b] + 1
          ELSE sent'[b] = sent[b] /\ dispatches'[b] = dispatches[b]
    BY <2>2, PublishTypes
  <2>4. \A b \in Bindings : b \in bindings <=> Locks(w, b[1])
    BY <1>3, <2>1
  <2> QED BY <2>3, <2>4
<1>5. /\ worker'[w].pc = "published"
      /\ worker'[w].claim = worker[w].claim /\ worker'[w].later = worker[w].later
      /\ worker'[w].binding = worker[w].binding
      /\ \A v \in Workers \ {w} : worker'[v] = worker[v]
  BY <1>1, <1>2 DEF Typed, WorkerRecord
<1> QED BY <1>2, <1>4, <1>5 DEF PublishClaimed

LEMMA EventInit == Init => EventInv
<1> SUFFICES ASSUME Init PROVE EventInv
  OBVIOUS
<1>1. \A w \in Workers : \A e : ~Locks(w, e)
  BY DEF Init, Locks, IdleWorker
<1>2. \A h \in Handlers : \A e : ~Registered(h, e)
  BY DEF Init, Registered, IdleHandler
<1>3. \A b \in Bindings : sent[b] = 0 /\ failures = 0
  BY DEF Init
<1> QED BY <1>1, <1>2, <1>3 DEF EventInv, LocksSound, RegisteredSound, SentOnce

(* Steps that open no transaction and send nothing: a transaction is rolled*)
(* back only by a failure.                                                 *)
LEMMA EventFrame ==
    ASSUME Typed, EventInv, UNCHANGED <<event, handler, sent>>, due \subseteq due',
           \A w \in Workers, e \in Events :
              Locks(w, e)' => /\ Locks(w, e) /\ worker'[w].pc = worker[w].pc
                              /\ worker'[w].claim = worker[w].claim,
           \/ /\ failures' = failures
              /\ \A w \in Workers, e \in Events : Locks(w, e) => Locks(w, e)'
           \/ failures' = failures + 1
    PROVE  EventInv'
<1>1. LocksSound'
  BY DEF EventInv, LocksSound
<1>2. \A h \in Handlers, e \in Events : Registered(h, e)' <=> Registered(h, e)
  BY DEF Registered
<1>3. RegisteredSound'
  BY <1>2 DEF EventInv, RegisteredSound
<1>4. SentOnce'
  <2> SUFFICES ASSUME ImmediateTimeoutRules, NEW b \in Bindings
               PROVE  sent'[b] <= failures' + (IF Out(b[1])' THEN 1 ELSE 0)
    BY DEF SentOnce
  <2>1. b[1] \in Events
    BY DEF Bindings
  <2>2. /\ sent[b] <= failures + (IF Out(b[1]) THEN 1 ELSE 0)
        /\ sent'[b] = sent[b] /\ sent[b] \in Nat /\ failures \in Nat
    BY DEF EventInv, SentOnce, Typed
  <2>3. CASE /\ failures' = failures
             /\ \A w \in Workers, e \in Events : Locks(w, e) => Locks(w, e)'
    <3>1. Out(b[1])' <=> Out(b[1])
      BY <1>2, <2>1, <2>3 DEF Out
    <3> QED BY <2>2, <2>3, <3>1
  <2>4. CASE failures' = failures + 1
    BY <2>2, <2>4
  <2> QED BY <2>3, <2>4
<1> QED BY <1>1, <1>3, <1>4 DEF EventInv

(* A worker that is in no transaction before or after its step.            *)
LEMMA EventIdle ==
    ASSUME Typed, EventInv, UNCHANGED <<event, due, handler, sent>>, NEW w \in Workers,
           \A v \in Workers \ {w} : worker'[v] = worker[v],
           \A e \in Events : ~Locks(w, e)',
           \/ worker[w].pc \notin {"claimed", "published"} /\ failures' = failures
           \/ failures' = failures + 1
    PROVE  EventInv'
<1>1. \A v \in Workers, e \in Events :
        Locks(v, e)' => Locks(v, e) /\ worker'[v] = worker[v]
  BY DEF Locks
<1>2. worker[w].pc \notin {"claimed", "published"} => \A e \in Events : ~Locks(w, e)
  BY DEF EventInv, LocksSound
<1>3. \A v \in Workers \ {w}, e \in Events : Locks(v, e)' <=> Locks(v, e)
  BY DEF Locks
<1> QED BY <1>1, <1>2, <1>3, EventFrame

LEMMA CommitEventsInvariant ==
    ASSUME Typed, EventInv, NEW h \in Handlers,
           NEW now \in SUBSET Events, NEW later \in SUBSET Events, CommitEvents(h, now, later)
    PROVE  EventInv'
<1>1. /\ handler[h].pc = "idle" /\ UNCHANGED <<worker, sent, failures>> /\ due \subseteq due'
      /\ handler' = [handler EXCEPT ![h] = IF now = {} THEN IdleHandler
                                           ELSE [pc |-> "committed", registered |-> now]]
  BY DEF CommitEvents
<1>2. \A e \in now \cup later : /\ event[e] = "ABSENT" /\ e \in Events
                                /\ \A w \in Workers : ~Locks(w, e)
  BY DEF CommitEvents, Matched, FreshEvents, InTransaction, Locks
<1>3. \A e \in Events : event'[e] = IF e \in now THEN "TRIGGERED"
                                    ELSE IF e \in later THEN "PENDING" ELSE event[e]
  BY DEF CommitEvents
<1>4. \A e \in Events : /\ Registered(h, e)' <=> e \in now
                        /\ ~Registered(h, e)
                        /\ \A g \in Handlers \ {h} : Registered(g, e)' <=> Registered(g, e)
  BY <1>1 DEF Typed, Registered, IdleHandler
<1>5. \A w \in Workers, e \in Events : Locks(w, e)' <=> Locks(w, e)
  BY <1>1 DEF Locks
<1>6. LocksSound'
  BY <1>1, <1>2, <1>3, <1>5 DEF EventInv, LocksSound
<1>7. RegisteredSound'
  BY <1>2, <1>3, <1>4 DEF EventInv, RegisteredSound
<1>8. SentOnce'
  <2> SUFFICES ASSUME ImmediateTimeoutRules, NEW b \in Bindings
               PROVE  sent'[b] <= failures' + (IF Out(b[1])' THEN 1 ELSE 0)
    BY DEF SentOnce
  <2>1. b[1] \in Events
    BY DEF Bindings
  <2>2. /\ sent[b] <= failures + (IF Out(b[1]) THEN 1 ELSE 0)
        /\ sent'[b] = sent[b] /\ sent[b] \in Nat /\ failures \in Nat /\ failures' = failures
    BY <1>1 DEF EventInv, SentOnce, Typed
  <2>3. CASE b[1] \in now \cup later
    <3>1. ~Out(b[1])
      BY <1>2, <2>1, <2>3 DEF Out
    <3> QED BY <2>2, <3>1
  <2>4. CASE b[1] \notin now \cup later
    <3>1. Out(b[1]) => Out(b[1])'
      BY <1>1, <1>3, <1>4, <1>5, <2>1, <2>4 DEF Out
    <3> QED BY <2>2, <3>1
  <2> QED BY <2>3, <2>4
<1> QED BY <1>6, <1>7, <1>8 DEF EventInv

(* The events of a handler are TRIGGERED until it has dispatched them, and *)
(* no transaction and no other handler has them.                           *)
LEMMA RegisteredFacts ==
    ASSUME Typed, EventInv, NEW h \in Handlers, NEW e \in Events, Registered(h, e)
    PROVE  /\ event[e] = "TRIGGERED" /\ e \in Triggered(handler[h].registered) /\ ~Out(e)
           /\ \A w \in Workers : ~Locks(w, e)
           /\ \A g \in Handlers \ {h} : ~Registered(g, e)
<1>1. event[e] = "TRIGGERED" /\ \A g \in Handlers \ {h} : ~Registered(g, e)
  BY DEF EventInv, RegisteredSound
<1>2. \A w \in Workers : ~Locks(w, e)
  BY <1>1 DEF EventInv, LocksSound
<1> QED BY <1>1, <1>2 DEF Triggered, Registered, Out

LEMMA HandlerEndsInvariant ==
    ASSUME Typed, EventInv, NEW h \in Handlers,
           DispatchRegistered(h) \/ Restore(h) \/ CrashHandler(h)
    PROVE  EventInv'
<1>1. /\ handler[h].pc # "idle" /\ UNCHANGED <<worker, due>>
      /\ handler' = [handler EXCEPT ![h] = IdleHandler]
  BY DEF DispatchRegistered, Restore, CrashHandler
<1>2. \A e \in Events : /\ ~Registered(h, e)'
                        /\ \A g \in Handlers \ {h} : Registered(g, e)' <=> Registered(g, e)
  BY <1>1 DEF Typed, Registered, IdleHandler
<1>3. \A w \in Workers, e \in Events : Locks(w, e)' <=> Locks(w, e)
  BY <1>1 DEF Locks
<1>4. \A e \in Events : e \in Triggered(handler[h].registered) <=> Registered(h, e)
  BY <1>1, RegisteredFacts DEF Triggered, Registered
<1>5. \A e \in Events : \/ event'[e] = event[e]
                        \/ Registered(h, e) /\ event'[e] = "PENDING" /\ Restore(h)
  BY <1>4 DEF DispatchRegistered, Restore, CrashHandler
<1>6. LocksSound'
  <2>1. \A w \in Workers, e \in Events : Locks(w, e) => event'[e] = event[e]
    BY <1>5, RegisteredFacts
  <2> QED BY <1>1, <1>3, <2>1 DEF EventInv, LocksSound
<1>7. RegisteredSound'
  BY <1>2, <1>5, RegisteredFacts DEF EventInv, RegisteredSound
<1>8. SentOnce'
  <2> SUFFICES ASSUME ImmediateTimeoutRules, NEW b \in Bindings
               PROVE  sent'[b] <= failures' + (IF Out(b[1])' THEN 1 ELSE 0)
    BY DEF SentOnce
  <2>1. b[1] \in Events
    BY DEF Bindings
  <2>2. /\ sent[b] <= failures + (IF Out(b[1]) THEN 1 ELSE 0)
        /\ sent[b] \in Nat /\ failures \in Nat
    BY DEF EventInv, SentOnce, Typed
  <2>3. CASE CrashHandler(h)
    <3>1. sent'[b] = sent[b] /\ failures' = failures + 1
      BY <2>3 DEF CrashHandler, Breakdown
    <3> QED BY <2>2, <3>1
  <2>4. CASE Restore(h)
    <3>1. sent'[b] = sent[b] /\ failures' = failures
      BY <2>4 DEF Restore
    <3>2. Out(b[1]) => Out(b[1])'
      BY <1>1, <1>2, <1>3, <1>5, <2>1, RegisteredFacts DEF Out
    <3> QED BY <2>2, <3>1, <3>2
  <2>5. CASE DispatchRegistered(h)
    <3>1. /\ Publish(BindingsOf(Triggered(handler[h].registered)))
          /\ failures' = failures /\ event' = event
      BY <2>5 DEF DispatchRegistered
    <3>2. b \in BindingsOf(Triggered(handler[h].registered)) <=> Registered(h, b[1])
      BY <1>4, <2>1 DEF Bindings, BindingsOf
    <3>3. CASE Registered(h, b[1])
      <4>1. Out(b[1])' /\ ~Out(b[1])
        BY <1>2, <2>1, <3>1, <3>3, RegisteredFacts DEF Out
      <4>2. sent'[b] = sent[b] + 1
        BY <3>1, <3>2, <3>3, PublishTypes
      <4> QED BY <2>2, <3>1, <4>1, <4>2
    <3>4. CASE ~Registered(h, b[1])
      <4>1. Out(b[1])' <=> Out(b[1])
        BY <1>1, <1>2, <1>3, <2>1, <3>1, <3>4 DEF Out
      <4>2. sent'[b] = sent[b]
        BY <3>1, <3>2, <3>4, PublishTypes
      <4> QED BY <2>2, <3>1, <4>1, <4>2
    <3> QED BY <3>3, <3>4
  <2> QED BY <2>3, <2>4, <2>5
<1> QED BY <1>6, <1>7, <1>8 DEF EventInv

LEMMA DispatchFailsInvariant ==
    ASSUME Typed, EventInv, NEW h \in Handlers, DispatchFails(h)
    PROVE  EventInv'
<1>1. /\ handler[h].pc = "committed" /\ UNCHANGED <<event, worker, due>>
      /\ handler' = [handler EXCEPT ![h].pc = "failed"]
      /\ failures' = failures + 1
  BY DEF DispatchFails, Breakdown
<1>2. PICK some \in SUBSET BindingsOf(Triggered(handler[h].registered)) : Publish(some)
  BY DEF DispatchFails
<1>3. \A g \in Handlers, e \in Events : Registered(g, e)' <=> Registered(g, e)
  BY <1>1 DEF Typed, HandlerRecord, Registered
<1>4. \A w \in Workers, e \in Events : Locks(w, e)' <=> Locks(w, e)
  BY <1>1 DEF Locks
<1>5. LocksSound'
  BY <1>1, <1>4 DEF EventInv, LocksSound
<1>6. RegisteredSound'
  BY <1>1, <1>3 DEF EventInv, RegisteredSound
<1>7. SentOnce'
  <2> SUFFICES ASSUME ImmediateTimeoutRules, NEW b \in Bindings
               PROVE  sent'[b] <= failures' + (IF Out(b[1])' THEN 1 ELSE 0)
    BY DEF SentOnce
  <2>1. /\ sent[b] <= failures + (IF Out(b[1]) THEN 1 ELSE 0)
        /\ sent[b] \in Nat /\ failures \in Nat
    BY DEF EventInv, SentOnce, Typed
  <2>2. CASE b \in some
    <3>1. b[1] \in Events /\ b[1] \in handler[h].registered
      BY <2>2 DEF Bindings, BindingsOf, Triggered
    <3>2. ~Out(b[1])
      BY <1>1, <3>1, RegisteredFacts DEF Registered
    <3>3. sent'[b] = sent[b] + 1
      BY <1>2, <2>2, PublishTypes
    <3> QED BY <1>1, <2>1, <3>2, <3>3
  <2>3. CASE b \notin some
    <3>1. sent'[b] = sent[b]
      BY <1>2, <2>3, PublishTypes
    <3> QED BY <1>1, <2>1, <3>1
  <2> QED BY <2>2, <2>3
<1> QED BY <1>5, <1>6, <1>7 DEF EventInv

LEMMA ClaimEventInvariant ==
    ASSUME Typed, EventInv, NEW w \in Workers, NEW e \in Events, Claim(w, e)
    PROVE  EventInv'
<1>1. \A d \in Events : ~Locks(w, d)
  BY ClaimFacts DEF EventInv, LocksSound
<1>2. /\ \A v \in Workers, d \in Events : Locks(v, d)' <=> Locks(v, d) \/ (v = w /\ d = e)
      /\ \A v \in Workers \ {w} : worker'[v] = worker[v]
      /\ worker'[w].pc = "claimed" /\ worker'[w].claim = {e}
      /\ \A v \in Workers : ~Locks(v, e)
  BY <1>1, ClaimFacts DEF Locks
<1>3. /\ event[e] = "PENDING" /\ e \in due
      /\ UNCHANGED <<event, due, handler, sent, failures>>
  BY ClaimFacts
<1>4. LocksSound'
  BY <1>1, <1>2, <1>3 DEF EventInv, LocksSound
<1>5. \A h \in Handlers, d \in Events : Registered(h, d)' <=> Registered(h, d)
  BY <1>3 DEF Registered
<1>6. RegisteredSound'
  BY <1>3, <1>5 DEF EventInv, RegisteredSound
<1>7. \A d \in Events : Out(d) => Out(d)'
  BY <1>1, <1>2, <1>3, <1>5 DEF Out
<1>8. SentOnce'
  BY <1>3, <1>7 DEF EventInv, SentOnce, Bindings, Typed
<1> QED BY <1>4, <1>6, <1>8 DEF EventInv

LEMMA MatchEventInvariant ==
    ASSUME Typed, EventInv, NEW w \in Workers,
           NEW now \in SUBSET Events, NEW later \in SUBSET Events, MatchSignal(w, now, later)
    PROVE  EventInv'
<1>1. \A d \in Events : ~Locks(w, d)
  BY MatchFacts DEF EventInv, LocksSound
<1>2. /\ \A v \in Workers, d \in Events : Locks(v, d)' <=> Locks(v, d) \/ (v = w /\ d \in now \cup later)
      /\ \A v \in Workers \ {w} : worker'[v] = worker[v]
      /\ worker'[w].pc = "claimed" /\ worker'[w].claim = now /\ worker'[w].later = later
  BY <1>1, MatchFacts DEF Locks
<1>3. /\ \A e \in now \cup later : event[e] = "ABSENT" /\ \A v \in Workers : ~Locks(v, e)
      /\ ImmediateTimeoutRules => later = {}
      /\ UNCHANGED <<event, due, handler, sent, failures>>
  BY MatchFacts
<1>4. LocksSound'
  <2> SUFFICES ASSUME NEW e \in Events
               PROVE  /\ \A v, u \in Workers : Locks(v, e)' /\ Locks(u, e)' => v = u
                      /\ \A v \in Workers : Locks(v, e)' =>
                            /\ worker'[v].pc \in {"claimed", "published"}
                            /\ event'[e] \in {"ABSENT", "PENDING"}
                            /\ event'[e] = "PENDING" => e \in due'
                            /\ ImmediateTimeoutRules => e \in worker'[v].claim
    BY DEF LocksSound
  <2>1. CASE e \in now \cup later
    BY <1>2, <1>3, <2>1
  <2>2. CASE e \notin now \cup later
    <3>1. \A v \in Workers : Locks(v, e)' => Locks(v, e) /\ worker'[v] = worker[v]
      BY <1>1, <1>2, <2>2
    <3> QED BY <1>3, <3>1 DEF EventInv, LocksSound
  <2> QED BY <2>1, <2>2
<1>5. \A h \in Handlers, d \in Events : Registered(h, d)' <=> Registered(h, d)
  BY <1>3 DEF Registered
<1>6. RegisteredSound'
  BY <1>3, <1>5 DEF EventInv, RegisteredSound
<1>7. \A d \in Events : Out(d) => Out(d)'
  BY <1>1, <1>2, <1>3, <1>5 DEF Out
<1>8. SentOnce'
  BY <1>3, <1>7 DEF EventInv, SentOnce, Bindings, Typed
<1> QED BY <1>4, <1>6, <1>8 DEF EventInv

LEMMA PublishEventInvariant ==
    ASSUME Typed, EventInv, NEW w \in Workers, PublishClaimed(w)
    PROVE  EventInv'
<1>1. /\ worker[w].pc = "claimed" /\ worker'[w].pc = "published"
      /\ worker'[w].claim = worker[w].claim
      /\ \A v \in Workers \ {w} : worker'[v] = worker[v]
      /\ UNCHANGED <<event, due, handler, failures>>
  BY PublishFacts
<1>2. \A v \in Workers, d \in Events : Locks(v, d)' <=> Locks(v, d)
  BY PublishFacts DEF Locks
<1>3. LocksSound'
  BY <1>1, <1>2 DEF EventInv, LocksSound
<1>4. \A h \in Handlers, d \in Events : Registered(h, d)' <=> Registered(h, d)
  BY <1>1 DEF Registered
<1>5. RegisteredSound'
  BY <1>1, <1>4 DEF EventInv, RegisteredSound
<1>6. \A d \in Events : Out(d) => Out(d)'
  BY <1>1, <1>2, <1>4 DEF Out
<1>7. \A d \in Events : Locks(w, d) => ~Out(d) /\ Out(d)'
  BY <1>1, <1>2 DEF EventInv, LocksSound, Out
<1>8. SentOnce'
  <2> SUFFICES ASSUME ImmediateTimeoutRules, NEW b \in Bindings
               PROVE  sent'[b] <= failures' + (IF Out(b[1])' THEN 1 ELSE 0)
    BY DEF SentOnce
  <2>1. b[1] \in Events
    BY DEF Bindings
  <2>2. /\ sent[b] <= failures + (IF Out(b[1]) THEN 1 ELSE 0)
        /\ sent[b] \in Nat /\ failures \in Nat
    BY DEF EventInv, SentOnce, Typed
  <2>3. IF Locks(w, b[1]) THEN sent'[b] = sent[b] + 1 ELSE sent'[b] = sent[b]
    BY PublishFacts
  <2> QED BY <1>1, <1>6, <1>7, <2>1, <2>2, <2>3
<1> QED BY <1>3, <1>5, <1>8 DEF EventInv

LEMMA CommitClaimedInvariant ==
    ASSUME Typed, EventInv, NEW w \in Workers, CommitClaimed(w)
    PROVE  EventInv'
<1>1. /\ worker[w].pc = "published" /\ UNCHANGED <<handler, sent, failures>> /\ due \subseteq due'
      /\ worker' = [worker EXCEPT ![w] = AfterEvent(worker[w].batch)]
  BY DEF CommitClaimed
<1>2. worker[w].batch \in SUBSET Events
  BY DEF Typed, WorkerRecord
<1>3. /\ \A v \in Workers \ {w} : worker'[v] = worker[v]
      /\ worker'[w].claim = {} /\ worker'[w].later = {}
  BY <1>1, <1>2, Emptied
<1>4. \A v \in Workers, d \in Events : Locks(v, d)' <=> Locks(v, d) /\ v # w
  BY <1>3 DEF Locks
<1>5. \A d \in Events : event'[d] = IF d \in worker[w].claim THEN "TRIGGERED"
                                    ELSE IF d \in worker[w].later THEN "PENDING" ELSE event[d]
  BY DEF CommitClaimed
<1>6. \A d \in Events : ~Locks(w, d) => event'[d] = event[d]
  BY <1>5 DEF Locks
<1>7. \A d \in Events : Locks(w, d) => event[d] # "TRIGGERED" /\ \A h \in Handlers : ~Registered(h, d)
  BY DEF EventInv, LocksSound, RegisteredSound
<1>8. LocksSound'
  <2>1. \A v \in Workers, d \in Events : Locks(v, d)' => Locks(v, d) /\ worker'[v] = worker[v]
                                                        /\ event'[d] = event[d]
    BY <1>3, <1>4, <1>6 DEF EventInv, LocksSound
  <2> QED BY <1>1, <2>1 DEF EventInv, LocksSound
<1>9. \A h \in Handlers, d \in Events : Registered(h, d)' <=> Registered(h, d)
  BY <1>1 DEF Registered
<1>10. RegisteredSound'
  BY <1>6, <1>7, <1>9 DEF EventInv, RegisteredSound
<1>11. ImmediateTimeoutRules => \A d \in Events : Out(d) => Out(d)'
  <2> SUFFICES ASSUME ImmediateTimeoutRules, NEW d \in Events, Out(d) PROVE Out(d)'
    OBVIOUS
  <2>1. CASE Locks(w, d)
    <3>1. d \in worker[w].claim
      BY <2>1 DEF EventInv, LocksSound
    <3> QED BY <1>5, <1>7, <1>9, <2>1, <3>1 DEF Out
  <2>2. CASE ~Locks(w, d)
    <3>1. CASE event[d] = "TRIGGERED" /\ \A h \in Handlers : ~Registered(h, d)
      BY <1>6, <1>9, <2>2, <3>1 DEF Out
    <3>2. CASE \E v \in Workers : worker[v].pc = "published" /\ Locks(v, d)
      BY <1>3, <1>4, <2>2, <3>2 DEF Out
    <3> QED BY <3>1, <3>2 DEF Out
  <2> QED BY <2>1, <2>2
<1>12. SentOnce'
  BY <1>1, <1>11 DEF EventInv, SentOnce, Bindings, Typed
<1> QED BY <1>8, <1>10, <1>12 DEF EventInv

LEMMA PublishFailsInvariant ==
    ASSUME Typed, EventInv, NEW w \in Workers, PublishFails(w)
    PROVE  EventInv'
<1>1. /\ worker[w].pc = "claimed" /\ UNCHANGED <<event, due, handler>> /\ failures' = failures + 1
      /\ worker' = [worker EXCEPT ![w] = IdleWorker]
  BY DEF PublishFails, Breakdown
<1>2. PICK some \in SUBSET BindingsOf(worker[w].claim \cup worker[w].later) : Publish(some)
  BY DEF PublishFails
<1>3. /\ \A v \in Workers \ {w} : worker'[v] = worker[v]
      /\ worker'[w].claim = {} /\ worker'[w].later = {}
  BY <1>1, Emptied
<1>4. \A v \in Workers, d \in Events : Locks(v, d)' => Locks(v, d) /\ worker'[v] = worker[v]
  BY <1>3 DEF Locks
<1>5. LocksSound'
  BY <1>1, <1>4 DEF EventInv, LocksSound
<1>6. \A h \in Handlers, d \in Events : Registered(h, d)' <=> Registered(h, d)
  BY <1>1 DEF Registered
<1>7. RegisteredSound'
  BY <1>1, <1>6 DEF EventInv, RegisteredSound
<1>8. SentOnce'
  <2> SUFFICES ASSUME ImmediateTimeoutRules, NEW b \in Bindings
               PROVE  sent'[b] <= failures' + (IF Out(b[1])' THEN 1 ELSE 0)
    BY DEF SentOnce
  <2>1. /\ sent[b] <= failures + (IF Out(b[1]) THEN 1 ELSE 0)
        /\ sent[b] \in Nat /\ failures \in Nat
    BY DEF EventInv, SentOnce, Typed
  <2>2. CASE b \in some
    <3>1. b[1] \in Events /\ Locks(w, b[1])
      BY <2>2 DEF Bindings, BindingsOf, Locks
    <3>2. ~Out(b[1])
      BY <1>1, <3>1 DEF EventInv, LocksSound, Out
    <3>3. sent'[b] = sent[b] + 1
      BY <1>2, <2>2, PublishTypes
    <3> QED BY <1>1, <2>1, <3>2, <3>3
  <2>3. CASE b \notin some
    <3>1. sent'[b] = sent[b]
      BY <1>2, <2>3, PublishTypes
    <3> QED BY <1>1, <2>1, <3>1
  <2> QED BY <2>2, <2>3
<1> QED BY <1>5, <1>7, <1>8 DEF EventInv

(* The steps of a worker that have no transaction on events.               *)
LEMMA RunEventInvariant ==
    ASSUME Typed, EventInv, NEW w \in Workers, RunTask(w)
    PROVE  EventInv'
<1>1. /\ worker[w].pc \in {"idle", "taken", "created", "running"}
      /\ UNCHANGED <<event, due, handler, sent, failures>>
  BY DEF RunTask, TakeDispatch, CreateInstance, RejectOrphan, TakeExecution, StartTask,
         Succeed, FailTask, Finish, queues
<1>2. \A e \in Events : ~Locks(w, e)
  BY <1>1 DEF EventInv, LocksSound
<1>3. /\ \A v \in Workers \ {w} : worker'[v] = worker[v]
      /\ \A e \in Events : ~Locks(w, e)'
  <2>1. CASE StartTask(w)
    <3>1. worker' = [worker EXCEPT ![w].pc = "running"]
      BY <2>1 DEF StartTask
    <3>2. /\ \A v \in Workers \ {w} : worker'[v] = worker[v]
          /\ worker'[w].claim = worker[w].claim /\ worker'[w].later = worker[w].later
      BY <3>1 DEF Typed, WorkerRecord
    <3> QED BY <1>2, <3>2 DEF Locks
  <2>2. ASSUME NEW g, worker' = [worker EXCEPT ![w] = g], g.claim = {}, g.later = {}
        PROVE  /\ \A v \in Workers \ {w} : worker'[v] = worker[v]
               /\ \A e \in Events : ~Locks(w, e)'
    BY <2>2, OtherWorkers DEF Locks
  <2>3. CASE RejectOrphan(w) \/ Succeed(w) \/ FailTask(w)
    <3>1. worker' = [worker EXCEPT ![w] = IdleWorker]
      BY <2>3 DEF RejectOrphan, Succeed, FailTask, Finish
    <3>2. IdleWorker.claim = {} /\ IdleWorker.later = {}
      BY DEF IdleWorker
    <3> QED BY <2>2, <3>1, <3>2
  <2>4. ASSUME NEW b \in Bindings, TakeDispatch(w, b)
        PROVE  /\ \A v \in Workers \ {w} : worker'[v] = worker[v]
               /\ \A e \in Events : ~Locks(w, e)'
    <3> DEFINE g == [IdleWorker EXCEPT !.pc = "taken", !.binding = b]
    <3>1. worker' = [worker EXCEPT ![w] = g]
      BY <2>4 DEF TakeDispatch
    <3>2. g.claim = {} /\ g.later = {}
      BY DEF IdleWorker
    <3> HIDE DEF g
    <3> QED BY <2>2, <3>1, <3>2
  <2>5. ASSUME NEW t, worker' = [worker EXCEPT ![w] = [IdleWorker EXCEPT !.pc = "created", !.task = t]]
        PROVE  /\ \A v \in Workers \ {w} : worker'[v] = worker[v]
               /\ \A e \in Events : ~Locks(w, e)'
    <3> DEFINE g == [IdleWorker EXCEPT !.pc = "created", !.task = t]
    <3>1. g.claim = {} /\ g.later = {}
      BY DEF IdleWorker
    <3>2. worker' = [worker EXCEPT ![w] = g]
      BY <2>5
    <3> HIDE DEF g
    <3> QED BY <2>2, <3>1, <3>2
  <2>6. CASE CreateInstance(w) \/ \E t \in TaskIds : TakeExecution(w, t)
    BY <2>5, <2>6 DEF CreateInstance, TakeExecution
  <2> QED BY <2>1, <2>3, <2>4, <2>6 DEF RunTask
<1> QED BY <1>1, <1>3, EventIdle

LEMMA WorkEventInvariant ==
    ASSUME Typed, EventInv, NEW w \in Workers, Work(w)
    PROVE  EventInv'
<1>0. worker[w].batch \in SUBSET Events
  BY DEF Typed, WorkerRecord
<1>1. ASSUME \/ worker[w].pc \notin {"claimed", "published"} /\ failures' = failures
             \/ failures' = failures + 1,
             UNCHANGED <<event, due, handler, sent>>,
             NEW batch \in SUBSET Events,
             \/ worker' = [worker EXCEPT ![w] = IdleWorker]
             \/ worker' = [worker EXCEPT ![w] = AfterEvent(batch)]
      PROVE  EventInv'
  <2>1. /\ \A v \in Workers \ {w} : worker'[v] = worker[v]
        /\ worker'[w].claim = {} /\ worker'[w].later = {}
    BY <1>1, Emptied
  <2>2. \A e \in Events : ~Locks(w, e)'
    BY <2>1 DEF Locks
  <2> QED BY <1>1, <2>1, <2>2, EventIdle
<1>2. CASE ListDue(w)
  <2>1. PICK batch \in SUBSET Sweepable :
          /\ batch # {}
          /\ worker' = [worker EXCEPT ![w] = [IdleWorker EXCEPT !.pc = "sweeping", !.batch = batch]]
    BY <1>2 DEF ListDue
  <2>2. batch \in SUBSET Events
    BY DEF Sweepable, Typed
  <2>3. worker' = [worker EXCEPT ![w] = AfterEvent(batch)]
    BY <2>1 DEF AfterEvent
  <2>4. worker[w].pc = "idle" /\ UNCHANGED <<event, due, handler, sent, failures>>
    BY <1>2 DEF ListDue
  <2> QED BY <1>1, <2>2, <2>3, <2>4
<1>3. ASSUME NEW e \in Events, SkipEvent(w, e) PROVE EventInv'
  <2>1. /\ worker' = [worker EXCEPT ![w] = AfterEvent(worker[w].batch \ {e})]
        /\ worker[w].pc = "sweeping" /\ UNCHANGED <<event, due, handler, sent, failures>>
    BY <1>3 DEF SkipEvent
  <2> QED BY <1>0, <1>1, <2>1
<1>4. CASE CrashWorker(w)
  <2>1. /\ worker' = [worker EXCEPT ![w] = IdleWorker]
        /\ failures' = failures + 1 /\ UNCHANGED <<event, due, handler, sent>>
    BY <1>4 DEF CrashWorker, Breakdown
  <2> QED BY <1>0, <1>1, <2>1
<1> QED BY <1>2, <1>3, <1>4, ClaimEventInvariant, MatchEventInvariant, PublishEventInvariant,
           CommitClaimedInvariant, PublishFailsInvariant, RunEventInvariant DEF Work, Sweep

LEMMA EventStep ==
    ASSUME Typed, EventInv, [Next]_vars
    PROVE  EventInv'
<1>1. ASSUME UNCHANGED <<event, handler, sent, worker>>, due \subseteq due',
             failures' \in {failures, failures + 1}
      PROVE  EventInv'
  <2>1. \A w \in Workers, e \in Events : Locks(w, e)' <=> Locks(w, e)
    BY <1>1 DEF Locks
  <2> QED BY <1>1, <2>1, EventFrame
<1>2. CASE \E h \in Handlers : Handle(h)
  BY <1>2, CommitEventsInvariant, HandlerEndsInvariant, DispatchFailsInvariant DEF Handle
<1>3. CASE \E w \in Workers : Work(w)
  BY <1>3, WorkEventInvariant
<1>4. CASE \E e \in Events : DelayPasses(e)
  BY <1>1, <1>4 DEF DelayPasses
<1>5. CASE \E o \in Operators : Retry(o)
  BY <1>1, <1>5 DEF Retry, CheckRetry, InsertRetry, EnqueueRetry, AbandonRetry, Breakdown, queues
<1>6. CASE UNCHANGED vars
  BY <1>1, <1>6 DEF vars
<1> QED BY <1>2, <1>3, <1>4, <1>5, <1>6 DEF Next

LEMMA EventInvariant == Spec => [](TaskInv /\ EventInv)
<1>1. TaskInv /\ EventInv /\ [Next]_vars => TaskInv' /\ EventInv'
  BY TaskStep, EventStep DEF TaskInv
<1> QED BY <1>1, TaskInit, EventInit, PTL DEF Spec

(* A message goes out a second time only after something broke, when the   *)
(* rules on timeouts have no delay: with one, it goes out at once and once *)
(* more when the delay has passed.                                         *)
THEOREM ResentBounded == Spec => [](ImmediateTimeoutRules => ResentOnlyAfterFailure)
<1>1. Typed /\ EventInv => (ImmediateTimeoutRules => ResentOnlyAfterFailure)
  <2> SUFFICES ASSUME Typed, EventInv, ImmediateTimeoutRules, NEW b \in Bindings
               PROVE  sent[b] <= 1 + failures
    BY DEF ResentOnlyAfterFailure
  <2>1. /\ sent[b] <= failures + (IF Out(b[1]) THEN 1 ELSE 0)
        /\ sent[b] \in Nat /\ failures \in Nat
    BY DEF EventInv, SentOnce, Typed
  <2> QED BY <2>1
<1>2. TaskInv => Typed
  BY DEF TaskInv
<1> QED BY <1>1, <1>2, EventInvariant, PTL

(* Without such rules and without failures, no message of a delayed event  *)
(* goes out before its delay has passed: the order of publication and      *)
(* commit in a sweep breaks the promise of the delay only for rules on     *)
(* timeouts.                                                               *)
THEOREM DelaysAreKept ==
    Spec => [](ImmediateTimeoutRules /\ failures = 0 => DelayedWaitsForDelay)
<1>1. Typed /\ EventInv => (ImmediateTimeoutRules /\ failures = 0 => DelayedWaitsForDelay)
  <2> SUFFICES ASSUME Typed, EventInv, ImmediateTimeoutRules, failures = 0,
                      NEW e \in Events, event[e] = "PENDING", e \notin due,
                      NEW template \in Templates
               PROVE  sent[<<e, template>>] = 0
    BY DEF DelayedWaitsForDelay
  <2> DEFINE b == <<e, template>>
  <2>1. b \in Bindings /\ b[1] = e
    BY DEF Bindings
  <2>2. ~Out(e)
    BY DEF EventInv, LocksSound, Out
  <2>3. sent[b] <= failures + (IF Out(b[1]) THEN 1 ELSE 0) /\ sent[b] \in Nat
    BY <2>1 DEF EventInv, SentOnce, Typed
  <2> QED BY <2>1, <2>2, <2>3
<1>2. TaskInv => Typed
  BY DEF TaskInv
<1> QED BY <1>1, <1>2, EventInvariant, PTL

-----------------------------------------------------------------------------
(* Messages.                                                               *)

Carriers(b) == {w \in Workers : worker[w].binding = b}
First(b) == {t \in Existing : task[t].binding = b /\ task[t].retry_of = 0}

LEMMA CarrierCount ==
    ASSUME OneWorker, NEW S \in SUBSET Workers
    PROVE  Cardinality(S) = IF S = {} THEN 0 ELSE 1
<1>1. CASE S = {}
  BY <1>1, FS_EmptySet
<1>2. CASE S # {}
  <2>1. PICK w \in S : TRUE
    BY <1>2
  <2>2. S = {w}
    BY <2>1 DEF OneWorker
  <2> QED BY <1>2, <2>2, FS_Singleton
<1> QED BY <1>1, <1>2

LEMMA TaskCount ==
    ASSUME NEW S \in SUBSET TaskIds
    PROVE  IsFiniteSet(S) /\ Cardinality(S) \in Nat
<1>1. IsFiniteSet(TaskIds)
  BY FS_Interval DEF TaskIds
<1> QED BY <1>1, FS_Subset, FS_CardinalityType

LEMMA FirstIsCounted ==
    ASSUME NEW b
    PROVE  IsFiniteSet(First(b)) /\ Cardinality(First(b)) \in Nat
<1>1. First(b) \in SUBSET TaskIds
  BY DEF First, Existing
<1> QED BY <1>1, TaskCount

LEMMA MessageInit == Init => MessageInv
<1> SUFFICES ASSUME Init PROVE MessageInv
  OBVIOUS
<1>1. \A w \in Workers : worker[w].binding = None /\ worker[w].pc = "idle"
  BY DEF Init, IdleWorker
<1>2. \A b \in Bindings : /\ sent[b] = 0 /\ dispatches[b] = 0
                          /\ Carriers(b) = {} /\ First(b) = {}
  BY <1>1 DEF Init, Carriers, First, Existing, NoTask, Bindings
<1>3. BindingsHeld
  BY <1>1 DEF BindingsHeld
<1>4. NoOrphans
  BY <1>1, <1>2 DEF NoOrphans, Bindings
<1>5. NothingIsLost
  <2>1. Cardinality({}) = 0
    BY FS_EmptySet
  <2> QED BY <1>2, <2>1 DEF NothingIsLost, Carriers, First
<1> QED BY <1>3, <1>4, <1>5 DEF MessageInv

(* Something broke: nothing is promised of the messages.                   *)
LEMMA MessageFailure ==
    ASSUME Typed, BindingsHeld', failures' = failures + 1
    PROVE  MessageInv'
<1>1. failures' # 0
  BY DEF Typed
<1> QED BY <1>1 DEF MessageInv, NoOrphans, NothingIsLost

(* Steps that move no message and commit no instance of one.               *)
LEMMA MessageFrame ==
    ASSUME Typed, MessageInv, UNCHANGED <<sent, dispatches, failures>>,
           \A w \in Workers : /\ worker'[w].binding = worker[w].binding
                              /\ worker'[w].pc = "taken" <=> worker[w].pc = "taken",
           \A b \in Bindings : First(b)' = First(b),
           \A e \in Events : Visible(e) => Visible(e)'
    PROVE  MessageInv'
<1>1. BindingsHeld'
  BY DEF MessageInv, BindingsHeld
<1>2. NoOrphans'
  BY DEF MessageInv, NoOrphans, Bindings
<1>3. OneWorker => NothingIsLost'
  <2> SUFFICES ASSUME OneWorker, failures = 0, NEW b \in Bindings
               PROVE  sent'[b] = dispatches'[b] + Cardinality(Carriers(b)')
                                   + Cardinality(First(b)')
    BY DEF NothingIsLost, Carriers, First
  <2>1. Carriers(b)' = Carriers(b) /\ First(b)' = First(b)
    BY DEF Carriers
  <2>2. sent[b] = dispatches[b] + Cardinality(Carriers(b)) + Cardinality(First(b))
    BY DEF MessageInv, NothingIsLost, Carriers, First
  <2> QED BY <2>1, <2>2
<1> QED BY <1>1, <1>2, <1>3 DEF MessageInv

(* A publication whose events are visible, or will be.                     *)
LEMMA MessagePublished ==
    ASSUME Typed, MessageInv, failures' = failures, NEW published,
           \A b \in Bindings : IF b \in published
              THEN sent'[b] = sent[b] + 1 /\ dispatches'[b] = dispatches[b] + 1
              ELSE sent'[b] = sent[b] /\ dispatches'[b] = dispatches[b],
           \A w \in Workers : /\ worker'[w].binding = worker[w].binding
                              /\ worker'[w].pc = "taken" <=> worker[w].pc = "taken",
           UNCHANGED task,
           \A e \in Events : Visible(e) => Visible(e)',
           \A b \in Bindings : b \in published => Visible(b[1])'
    PROVE  MessageInv'
<1>1. BindingsHeld'
  BY DEF MessageInv, BindingsHeld
<1>2. NoOrphans'
  BY DEF MessageInv, NoOrphans, Bindings
<1>3. OneWorker => NothingIsLost'
  <2> SUFFICES ASSUME OneWorker, failures = 0, NEW b \in Bindings
               PROVE  sent'[b] = dispatches'[b] + Cardinality(Carriers(b)')
                                   + Cardinality(First(b)')
    BY DEF NothingIsLost, Carriers, First
  <2>1. Carriers(b)' = Carriers(b) /\ First(b)' = First(b)
    BY DEF Carriers, First, Existing
  <2>2. sent[b] = dispatches[b] + Cardinality(Carriers(b)) + Cardinality(First(b))
    BY DEF MessageInv, NothingIsLost, Carriers, First
  <2>3. Cardinality(Carriers(b)) \in Nat /\ Cardinality(First(b)) \in Nat
    BY CarrierCount, FirstIsCounted DEF Carriers
  <2>4. dispatches[b] \in Nat
    BY DEF Typed
  <2> QED BY <2>1, <2>2, <2>3, <2>4
<1> QED BY <1>1, <1>2, <1>3 DEF MessageInv

LEMMA TakeDispatchMessages ==
    ASSUME TaskInv, MessageInv, NEW w \in Workers, NEW d \in Bindings, TakeDispatch(w, d)
    PROVE  MessageInv'
<1> DEFINE g == [IdleWorker EXCEPT !.pc = "taken", !.binding = d]
<1>1. /\ worker[w].pc = "idle" /\ dispatches[d] > 0
      /\ dispatches' = [dispatches EXCEPT ![d] = @ - 1]
      /\ worker' = [worker EXCEPT ![w] = g]
      /\ UNCHANGED <<event, task, sent, failures>>
  BY DEF TakeDispatch
<1>2. g.pc = "taken" /\ g.binding = d /\ g.claim = {} /\ g.later = {}
  BY DEF IdleWorker
<1> HIDE DEF g
<1>3. worker'[w] = g /\ \A v \in Workers \ {w} : worker'[v] = worker[v]
  BY <1>1, OtherWorkers DEF TaskInv
<1>4. d # None /\ worker[w].binding = None
  BY <1>1 DEF Bindings, MessageInv, BindingsHeld
<1>5. /\ dispatches'[d] = dispatches[d] - 1
      /\ \A b \in Bindings \ {d} : dispatches'[b] = dispatches[b]
      /\ \A b \in Bindings : dispatches[b] \in Nat
  BY <1>1 DEF TaskInv, Typed
<1>6. BindingsHeld'
  BY <1>2, <1>3, <1>4 DEF MessageInv, BindingsHeld
<1>7. NoOrphans'
  <2> SUFFICES ASSUME OneWorker, failures = 0, NEW b \in Bindings,
                      dispatches'[b] > 0 \/ \E v \in Workers : worker'[v].binding = b
               PROVE  event'[b[1]] # "ABSENT"
    BY <1>1 DEF NoOrphans, Visible
  <2>1. dispatches[b] > 0
    BY <1>1, <1>2, <1>3, <1>5 DEF OneWorker
  <2>2. event[b[1]] # "ABSENT" \/ \E v \in Workers : worker[v].pc = "published" /\ Locks(v, b[1])
    BY <2>1 DEF MessageInv, NoOrphans, Visible
  <2> QED BY <1>1, <2>2 DEF OneWorker
<1>8. OneWorker => NothingIsLost'
  <2> SUFFICES ASSUME OneWorker, failures = 0, NEW b \in Bindings
               PROVE  sent'[b] = dispatches'[b] + Cardinality(Carriers(b)')
                                   + Cardinality(First(b)')
    BY <1>1 DEF NothingIsLost, Carriers, First
  <2>1. First(b)' = First(b) /\ Cardinality(First(b)) \in Nat
    BY <1>1, FirstIsCounted DEF First, Existing
  <2>2. sent[b] = dispatches[b] + Cardinality(Carriers(b)) + Cardinality(First(b))
    BY DEF MessageInv, NothingIsLost, Carriers, First
  <2>3. Carriers(b) = {} /\ Cardinality(Carriers(b)) = 0
    <3>1. Carriers(b) = {}
      BY <1>4 DEF OneWorker, Carriers, Bindings
    <3> QED BY <3>1, FS_EmptySet
  <2>4. Cardinality(Carriers(b)') = IF b = d THEN 1 ELSE 0
    <3>1. Carriers(b)' = IF b = d THEN {w} ELSE {}
      BY <1>2, <1>3 DEF OneWorker, Carriers
    <3> QED BY <3>1, FS_EmptySet, FS_Singleton
  <2> QED BY <1>1, <1>5, <2>1, <2>2, <2>3, <2>4
<1> QED BY <1>6, <1>7, <1>8 DEF MessageInv

LEMMA CreateMessages ==
    ASSUME TaskInv, MessageInv, NEW w \in Workers, CreateInstance(w)
    PROVE  MessageInv'
<1> DEFINE row == [status |-> "PENDING", binding |-> worker[w].binding, retry_of |-> 0]
           g == [IdleWorker EXCEPT !.pc = "created", !.task = NextTask]
<1>0. PICK n : n = NextTask
  OBVIOUS
<1>1. /\ worker[w].pc = "taken" /\ n \in TaskIds
      /\ task' = [task EXCEPT ![n] = row]
      /\ worker' = [worker EXCEPT ![w] = g]
      /\ UNCHANGED <<event, dispatches, sent, failures>>
  BY <1>0 DEF CreateInstance, WithRow, queues
<1>2. g.pc = "created" /\ g.binding = None
  BY DEF IdleWorker
<1>3. row.status = "PENDING" /\ row.binding = worker[w].binding /\ row.retry_of = 0
  OBVIOUS
<1> HIDE DEF g, row
<1>4. worker'[w] = g /\ \A v \in Workers \ {w} : worker'[v] = worker[v]
  BY <1>1, OtherWorkers DEF TaskInv
<1>5. task'[n] = row /\ (\A t \in TaskIds \ {n} : task'[t] = task[t]) /\ n \notin Existing
  BY <1>0, <1>1, NextTaskIsFree DEF TaskInv, Typed, Existing
<1>6. BindingsHeld'
  BY <1>2, <1>4 DEF MessageInv, BindingsHeld
<1>7. NoOrphans'
  <2> SUFFICES ASSUME OneWorker, failures = 0, NEW b \in Bindings,
                      dispatches'[b] > 0 \/ \E v \in Workers : worker'[v].binding = b
               PROVE  event'[b[1]] # "ABSENT"
    BY <1>1 DEF NoOrphans, Visible
  <2>1. dispatches[b] > 0
    BY <1>1, <1>2, <1>4 DEF OneWorker, Bindings
  <2>2. event[b[1]] # "ABSENT" \/ \E v \in Workers : worker[v].pc = "published" /\ Locks(v, b[1])
    BY <2>1 DEF MessageInv, NoOrphans, Visible
  <2> QED BY <1>1, <2>2 DEF OneWorker
<1>8. OneWorker => NothingIsLost'
  <2> SUFFICES ASSUME OneWorker, failures = 0, NEW b \in Bindings
               PROVE  sent'[b] = dispatches'[b] + Cardinality(Carriers(b)')
                                   + Cardinality(First(b)')
    BY <1>1 DEF NothingIsLost, Carriers, First
  <2>1. sent[b] = dispatches[b] + Cardinality(Carriers(b)) + Cardinality(First(b))
    BY DEF MessageInv, NothingIsLost, Carriers, First
  <2>2. Carriers(b)' = {} /\ Cardinality(Carriers(b)') = 0
    <3>1. Carriers(b)' = {}
      BY <1>2, <1>4 DEF OneWorker, Carriers, Bindings
    <3> QED BY <3>1, FS_EmptySet
  <2>3. Carriers(b) = IF worker[w].binding = b THEN {w} ELSE {}
    BY DEF OneWorker, Carriers
  <2>4. Cardinality(Carriers(b)) = IF worker[w].binding = b THEN 1 ELSE 0
    BY <2>3, FS_EmptySet, FS_Singleton
  <2>5. First(b)' = IF worker[w].binding = b THEN First(b) \cup {n} ELSE First(b)
    BY <1>1, <1>3, <1>5 DEF First, Existing
  <2>6. Cardinality(First(b)') = Cardinality(First(b)) + IF worker[w].binding = b THEN 1 ELSE 0
    <3>1. IsFiniteSet(First(b)) /\ Cardinality(First(b)) \in Nat /\ n \notin First(b)
      BY <1>5, FirstIsCounted DEF First
    <3>2. Cardinality(First(b) \cup {n}) = Cardinality(First(b)) + 1
      BY <3>1, FS_AddElement
    <3> QED BY <2>5, <3>1, <3>2
  <2>7. dispatches[b] \in Nat /\ Cardinality(First(b)) \in Nat
    BY FirstIsCounted DEF TaskInv, Typed
  <2> QED BY <1>1, <2>1, <2>2, <2>4, <2>6, <2>7
<1> QED BY <1>6, <1>7, <1>8 DEF MessageInv

(* The only worker takes a message after the commit of its event, so no    *)
(* INSERT fails for want of the event.                                     *)
LEMMA RejectMessages ==
    ASSUME TaskInv, MessageInv, NEW w \in Workers, RejectOrphan(w)
    PROVE  MessageInv'
<1>1. /\ worker[w].pc = "taken" /\ event[worker[w].binding[1]] = "ABSENT"
      /\ worker' = [worker EXCEPT ![w] = IdleWorker] /\ failures' = failures
  BY DEF RejectOrphan
<1>2. worker[w].binding \in Bindings
  BY <1>1 DEF TaskInv, RowsNamed
<1>3. ~(OneWorker /\ failures = 0)
  BY <1>1, <1>2 DEF MessageInv, NoOrphans, Visible, OneWorker
<1>4. BindingsHeld'
  <2>1. worker'[w] = IdleWorker /\ \A v \in Workers \ {w} : worker'[v] = worker[v]
    BY <1>1, OtherWorkers DEF TaskInv
  <2> QED BY <2>1 DEF MessageInv, BindingsHeld, IdleWorker
<1> QED BY <1>1, <1>3, <1>4 DEF MessageInv, NoOrphans, NothingIsLost

(* The other steps of a worker: it holds no message before or after.       *)
LEMMA WorkerMessages ==
    ASSUME Typed, MessageInv, NEW w \in Workers, worker[w].pc # "taken",
           worker'[w].pc # "taken", worker'[w].binding = worker[w].binding \/ worker'[w].binding = None,
           \A v \in Workers \ {w} : worker'[v] = worker[v],
           UNCHANGED <<sent, dispatches, failures>>,
           \A t \in TaskIds : /\ task'[t].binding = task[t].binding
                              /\ task'[t].retry_of = task[t].retry_of
                              /\ task'[t].status # "ABSENT" <=> task[t].status # "ABSENT",
           \A e \in Events : event[e] # "ABSENT" => event'[e] # "ABSENT",
           worker[w].pc = "published" => \A e \in Events : Locks(w, e) => event'[e] # "ABSENT"
    PROVE  MessageInv'
<1>1. worker[w].binding = None
  BY DEF MessageInv, BindingsHeld
<1>2. \A v \in Workers : /\ worker'[v].binding = worker[v].binding
                         /\ worker'[v].pc = "taken" <=> worker[v].pc = "taken"
  BY <1>1
<1>3. \A b \in Bindings : First(b)' = First(b)
  BY DEF First, Existing
<1>4. \A e \in Events : Visible(e) => Visible(e)'
  BY DEF Visible, Locks
<1> QED BY <1>2, <1>3, <1>4, MessageFrame

LEMMA SweepMessages ==
    ASSUME TaskInv, MessageInv, NEW w \in Workers,
           Sweep(w) \/ \E now, later \in SUBSET Events : MatchSignal(w, now, later)
    PROVE  MessageInv'
<1>0. Typed /\ worker[w].batch \in SUBSET Events
  BY DEF TaskInv, Typed, WorkerRecord
<1>1. ASSUME UNCHANGED <<sent, dispatches, failures, task, event>>,
             worker[w].pc \notin {"taken", "published"},
             worker'[w].pc # "taken",
             worker'[w].binding = worker[w].binding \/ worker'[w].binding = None,
             \A v \in Workers \ {w} : worker'[v] = worker[v]
      PROVE  MessageInv'
  BY <1>0, <1>1, WorkerMessages
<1>2. ASSUME UNCHANGED <<sent, dispatches, failures, task, event>>,
             worker[w].pc \notin {"taken", "published"}, NEW batch \in SUBSET Events,
             worker' = [worker EXCEPT ![w] = AfterEvent(batch)]
      PROVE  MessageInv'
  <2>1. /\ worker'[w].pc # "taken" /\ worker'[w].binding = None
        /\ \A v \in Workers \ {w} : worker'[v] = worker[v]
    BY <1>0, <1>2, Emptied
  <2> QED BY <1>1, <1>2, <2>1
<1>3. CASE ListDue(w)
  <2>1. PICK batch \in SUBSET Sweepable :
          /\ batch # {}
          /\ worker' = [worker EXCEPT ![w] = [IdleWorker EXCEPT !.pc = "sweeping", !.batch = batch]]
    BY <1>3 DEF ListDue
  <2>2. batch \in SUBSET Events
    BY <1>0 DEF Sweepable, Typed
  <2>3. worker' = [worker EXCEPT ![w] = AfterEvent(batch)]
    BY <2>1 DEF AfterEvent
  <2>4. worker[w].pc = "idle" /\ UNCHANGED <<sent, dispatches, failures, task, event>>
    BY <1>3 DEF ListDue, queues
  <2> QED BY <1>2, <2>2, <2>3, <2>4
<1>4. ASSUME NEW e \in Events, Claim(w, e) PROVE MessageInv'
  BY <1>0, <1>1, <1>4, ClaimFacts
<1>5. ASSUME NEW e \in Events, SkipEvent(w, e) PROVE MessageInv'
  <2>1. /\ worker' = [worker EXCEPT ![w] = AfterEvent(worker[w].batch \ {e})]
        /\ worker[w].pc = "sweeping" /\ UNCHANGED <<sent, dispatches, failures, task, event>>
    BY <1>5 DEF SkipEvent, queues
  <2> QED BY <1>0, <1>2, <2>1
<1>6. CASE PublishClaimed(w)
  <2> DEFINE published == {b \in Bindings : Locks(w, b[1])}
  <2>0. PICK S : S = published
    OBVIOUS
  <2>1. /\ worker[w].pc = "claimed" /\ worker'[w].pc = "published"
        /\ worker'[w].claim = worker[w].claim /\ worker'[w].later = worker[w].later
        /\ worker'[w].binding = worker[w].binding
        /\ \A v \in Workers \ {w} : worker'[v] = worker[v]
        /\ UNCHANGED <<event, task, failures>>
    BY <1>0, <1>6, PublishFacts
  <2>2. \A b \in Bindings : IF b \in S
          THEN sent'[b] = sent[b] + 1 /\ dispatches'[b] = dispatches[b] + 1
          ELSE sent'[b] = sent[b] /\ dispatches'[b] = dispatches[b]
    BY <1>0, <1>6, <2>0, PublishFacts
  <2>3. \A v \in Workers : /\ worker'[v].binding = worker[v].binding
                           /\ worker'[v].pc = "taken" <=> worker[v].pc = "taken"
    BY <2>1
  <2>4. \A e \in Events : Visible(e) => Visible(e)'
    BY <2>1 DEF Visible, Locks
  <2>5. \A b \in Bindings : b \in S => Visible(b[1])'
    BY <2>0, <2>1 DEF Visible, Locks
  <2> QED BY <1>0, <2>1, <2>2, <2>3, <2>4, <2>5, MessagePublished
<1>7. CASE CommitClaimed(w)
  <2>1. /\ worker[w].pc = "published"
        /\ worker' = [worker EXCEPT ![w] = AfterEvent(worker[w].batch)]
        /\ UNCHANGED <<sent, dispatches, failures, task>>
        /\ \A d \in Events : event'[d] = IF d \in worker[w].claim THEN "TRIGGERED"
                                         ELSE IF d \in worker[w].later THEN "PENDING" ELSE event[d]
    BY <1>7 DEF CommitClaimed, queues
  <2>2. /\ worker'[w].pc # "taken" /\ worker'[w].binding = None
        /\ \A v \in Workers \ {w} : worker'[v] = worker[v]
    BY <1>0, <2>1, Emptied
  <2>3. \A e \in Events : /\ event[e] # "ABSENT" => event'[e] # "ABSENT"
                          /\ Locks(w, e) => event'[e] # "ABSENT"
    BY <2>1 DEF Locks
  <2> QED BY <1>0, <2>1, <2>2, <2>3, WorkerMessages
<1>8. ASSUME NEW now \in SUBSET Events, NEW later \in SUBSET Events, MatchSignal(w, now, later)
      PROVE  MessageInv'
  BY <1>0, <1>1, <1>8, MatchFacts
<1> QED BY <1>3, <1>4, <1>5, <1>6, <1>7, <1>8 DEF Sweep

LEMMA RunMessages ==
    ASSUME TaskInv, MessageInv, NEW w \in Workers, RunTask(w)
    PROVE  MessageInv'
<1>0. Typed
  BY DEF TaskInv
<1>1. ASSUME NEW t \in TaskIds, TakeExecution(w, t) PROVE MessageInv'
  <2> DEFINE g == [IdleWorker EXCEPT !.pc = "created", !.task = t]
  <2>1. /\ worker[w].pc = "idle" /\ worker' = [worker EXCEPT ![w] = g]
        /\ UNCHANGED <<sent, dispatches, failures, task, event>>
    BY <1>1 DEF TakeExecution
  <2>2. g.pc = "created" /\ g.binding = None
    BY DEF IdleWorker
  <2> HIDE DEF g
  <2>3. worker'[w] = g /\ \A v \in Workers \ {w} : worker'[v] = worker[v]
    BY <1>0, <2>1, OtherWorkers
  <2> QED BY <1>0, <2>1, <2>2, <2>3, WorkerMessages
<1>2. CASE StartTask(w)
  <2>1. /\ worker[w].pc = "created" /\ worker' = [worker EXCEPT ![w].pc = "running"]
        /\ task' = [task EXCEPT ![worker[w].task].status = "RUNNING"]
        /\ UNCHANGED <<sent, dispatches, failures, event>>
    BY <1>2 DEF StartTask, queues
  <2>2. worker[w].task \in TaskIds /\ task[worker[w].task].status = "PENDING"
    BY <2>1 DEF TaskInv, RowsNamed, HeldIsUnfinished, Holds
  <2>3. \A t \in TaskIds : /\ task'[t].binding = task[t].binding
                           /\ task'[t].retry_of = task[t].retry_of
                           /\ task'[t].status # "ABSENT" <=> task[t].status # "ABSENT"
    BY <2>1, <2>2 DEF TaskInv, Typed, TaskRecord
  <2>4. /\ worker'[w].pc = "running" /\ worker'[w].binding = worker[w].binding
        /\ \A v \in Workers \ {w} : worker'[v] = worker[v]
    BY <2>1 DEF TaskInv, Typed, WorkerRecord
  <2> QED BY <1>0, <2>1, <2>3, <2>4, WorkerMessages
<1>3. ASSUME NEW status \in {"SUCCESS", "FAILED"}, NEW deliveries \in {0, 1},
             Finish(w, status, deliveries)
      PROVE  MessageInv'
  <2>1. /\ worker[w].pc = "running" /\ worker' = [worker EXCEPT ![w] = IdleWorker]
        /\ task' = [task EXCEPT ![worker[w].task].status = status]
        /\ UNCHANGED <<sent, dispatches, failures, event>>
    BY <1>3 DEF Finish, queues
  <2>2. worker[w].task \in TaskIds /\ task[worker[w].task].status = "RUNNING"
    BY <2>1 DEF TaskInv, RowsNamed, HeldIsUnfinished, Holds
  <2>3. \A t \in TaskIds : /\ task'[t].binding = task[t].binding
                           /\ task'[t].retry_of = task[t].retry_of
                           /\ task'[t].status # "ABSENT" <=> task[t].status # "ABSENT"
    BY <2>1, <2>2 DEF TaskInv, Typed, TaskRecord
  <2>4. /\ worker'[w].pc # "taken" /\ worker'[w].binding = None
        /\ \A v \in Workers \ {w} : worker'[v] = worker[v]
    BY <1>0, <2>1, Emptied
  <2> QED BY <1>0, <2>1, <2>3, <2>4, WorkerMessages
<1> QED BY <1>1, <1>2, <1>3, TakeDispatchMessages, CreateMessages, RejectMessages
        DEF RunTask, Succeed, FailTask

LEMMA WorkMessages ==
    ASSUME TaskInv, MessageInv, NEW w \in Workers, Work(w)
    PROVE  MessageInv'
<1>1. CASE PublishFails(w) \/ CrashWorker(w)
  <2>1. worker' = [worker EXCEPT ![w] = IdleWorker] /\ failures' = failures + 1
    BY <1>1 DEF PublishFails, CrashWorker, Breakdown
  <2>2. worker'[w] = IdleWorker /\ \A v \in Workers \ {w} : worker'[v] = worker[v]
    BY <2>1, OtherWorkers DEF TaskInv
  <2>3. BindingsHeld'
    BY <2>2 DEF MessageInv, BindingsHeld, IdleWorker
  <2> QED BY <2>1, <2>3, MessageFailure DEF TaskInv
<1> QED BY <1>1, SweepMessages, RunMessages DEF Work

LEMMA HandleMessages ==
    ASSUME TaskInv, MessageInv, NEW h \in Handlers, Handle(h)
    PROVE  MessageInv'
<1>0. Typed /\ worker' = worker /\ task' = task
  BY DEF TaskInv, Handle, CommitEvents, DispatchRegistered, DispatchFails, Restore, CrashHandler
<1>1. ASSUME UNCHANGED <<sent, dispatches, failures>>,
             \A e \in Events : event[e] # "ABSENT" => event'[e] # "ABSENT"
      PROVE  MessageInv'
  <2>1. \A e \in Events : Visible(e) => Visible(e)'
    BY <1>0, <1>1 DEF Visible, Locks
  <2>2. \A b \in Bindings : First(b)' = First(b)
    BY <1>0 DEF First, Existing
  <2> QED BY <1>0, <1>1, <2>1, <2>2, MessageFrame
<1>2. CASE (\E now, later \in SUBSET Events : CommitEvents(h, now, later)) \/ Restore(h)
  <2>1. \A e \in Events : event[e] # "ABSENT" => event'[e] # "ABSENT"
    BY <1>2 DEF CommitEvents, Restore
  <2>2. UNCHANGED <<sent, dispatches, failures>>
    BY <1>2 DEF CommitEvents, Restore, queues
  <2> QED BY <1>1, <2>1, <2>2
<1>3. CASE DispatchRegistered(h)
  <2>0. PICK S : S = BindingsOf(Triggered(handler[h].registered))
    OBVIOUS
  <2>1. Publish(S) /\ event' = event /\ failures' = failures
    BY <1>3, <2>0 DEF DispatchRegistered
  <2>2. \A b \in Bindings : IF b \in S
          THEN sent'[b] = sent[b] + 1 /\ dispatches'[b] = dispatches[b] + 1
          ELSE sent'[b] = sent[b] /\ dispatches'[b] = dispatches[b]
    BY <1>0, <2>1, PublishTypes
  <2>3. \A e \in Events : Visible(e) => Visible(e)'
    BY <1>0, <2>1 DEF Visible, Locks
  <2>4. \A b \in Bindings : b \in S => Visible(b[1])'
    BY <2>0, <2>1 DEF Bindings, BindingsOf, Triggered, Visible
  <2> QED BY <1>0, <2>1, <2>2, <2>3, <2>4, MessagePublished
<1>4. CASE DispatchFails(h) \/ CrashHandler(h)
  <2>1. failures' = failures + 1
    BY <1>4 DEF DispatchFails, CrashHandler, Breakdown
  <2>2. BindingsHeld'
    BY <1>0 DEF MessageInv, BindingsHeld
  <2> QED BY <1>0, <2>1, <2>2, MessageFailure
<1> QED BY <1>2, <1>3, <1>4 DEF Handle

LEMMA RetryMessages ==
    ASSUME TaskInv, MessageInv, NEW o \in Operators, Retry(o)
    PROVE  MessageInv'
<1>0. Typed /\ UNCHANGED <<event, worker, sent, dispatches>>
  BY DEF TaskInv, Retry, CheckRetry, InsertRetry, EnqueueRetry, AbandonRetry, queues
<1>1. \A e \in Events : Visible(e) => Visible(e)'
  BY <1>0 DEF Visible, Locks
<1>2. CASE InsertRetry(o)
  <2> DEFINE source == operator[o].task
             row == [status |-> "PENDING", binding |-> task[source].binding, retry_of |-> source]
  <2>0. PICK n : n = NextTask
    OBVIOUS
  <2>1. /\ operator[o].pc = "checked" /\ n \in TaskIds /\ failures' = failures
        /\ task' = [task EXCEPT ![n] = row]
    BY <1>2, <2>0 DEF InsertRetry, WithRow
  <2>2. row.retry_of # 0
    BY <2>1 DEF TaskInv, RowsNamed, Existing, TaskIds
  <2>3. task'[n] = row /\ (\A t \in TaskIds \ {n} : task'[t] = task[t]) /\ n \notin Existing
    BY <2>0, <2>1, NextTaskIsFree DEF TaskInv, Typed, Existing
  <2>4. \A b \in Bindings : First(b)' = First(b)
    BY <2>1, <2>2, <2>3 DEF First, Existing
  <2> QED BY <1>0, <1>1, <2>1, <2>4, MessageFrame
<1>3. CASE (\E t \in TaskIds : CheckRetry(o, t)) \/ EnqueueRetry(o)
  <2>1. UNCHANGED <<task, failures>>
    BY <1>3 DEF CheckRetry, EnqueueRetry
  <2>2. \A b \in Bindings : First(b)' = First(b)
    BY <2>1 DEF First, Existing
  <2> QED BY <1>0, <1>1, <2>1, <2>2, MessageFrame
<1>4. CASE AbandonRetry(o)
  <2>1. failures' = failures + 1
    BY <1>4 DEF AbandonRetry, Breakdown
  <2>2. BindingsHeld'
    BY <1>0 DEF MessageInv, BindingsHeld
  <2> QED BY <1>0, <2>1, <2>2, MessageFailure
<1> QED BY <1>2, <1>3, <1>4 DEF Retry

LEMMA MessageStep ==
    ASSUME TaskInv, MessageInv, [Next]_vars
    PROVE  MessageInv'
<1>1. CASE (\E e \in Events : DelayPasses(e)) \/ UNCHANGED vars
  <2>1. UNCHANGED <<event, worker, task, sent, dispatches, failures>>
    BY <1>1 DEF DelayPasses, vars, queues
  <2>2. \A e \in Events : Visible(e) => Visible(e)'
    BY <2>1 DEF Visible, Locks
  <2>3. \A b \in Bindings : First(b)' = First(b)
    BY <2>1 DEF First, Existing
  <2> QED BY <2>1, <2>2, <2>3, MessageFrame DEF TaskInv
<1> QED BY <1>1, HandleMessages, WorkMessages, RetryMessages DEF Next

(* While nothing breaks, each message published is in the broker, with a   *)
(* worker, or an instance of its own: with the one worker of the           *)
(* deployment, no message is taken before its event is committed.          *)
THEOREM NoMessageLost == Spec => [](OneWorker => NothingIsLost)
<1>1. TaskInv /\ MessageInv /\ [Next]_vars => TaskInv' /\ MessageInv'
  BY TaskStep, MessageStep
<1>2. MessageInv => (OneWorker => NothingIsLost)
  BY DEF MessageInv
<1> QED BY <1>1, <1>2, TaskInit, MessageInit, PTL DEF Spec
=============================================================================
