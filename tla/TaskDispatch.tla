---------------------------- MODULE TaskDispatch ----------------------------
(***************************************************************************)
(* From the events of matched rules to delivered e-mails and webhooks.     *)
(* An API handler or a sweep writes an Event row with its bindings and     *)
(* publishes one Celery message for each binding; a worker turns a message *)
(* into a TaskInstance and executes it; a person may retry a failed one.   *)
(* The rows live in the database, the messages in the broker, and neither  *)
(* commits with the other:  backend/app/modules/events/service.py,         *)
(* events/tasks.py and tasks/service.py.                                   *)
(***************************************************************************)
EXTENDS Naturals, FiniteSets

CONSTANTS
    Events,         \* identities of the Event rows of kind event_rule_dispatch
    Templates,      \* the task templates a rule binds
    Handlers,       \* API requests that change a ticket
    Workers,        \* Celery workers, each runs one task at a time
    Operators,      \* requests to retry a task
    BatchSize,      \* the batch_size of sweep_due_events
    ImmediateTimeoutRules, \* TRUE: rules on timeout trigger points have no delay
    None,           \* no binding
    MaxTasks,       \* bound on the number of TaskInstance rows
    MaxRetries,     \* bound on those made by retry_task
    MaxFailures     \* bound on crashes and broker errors

ASSUME DispatchAssumption ==
    /\ None \notin Events \X Templates
    /\ BatchSize \in Nat \ {0}
    /\ ImmediateTimeoutRules \in BOOLEAN
    /\ MaxTasks \in Nat /\ MaxRetries \in Nat /\ MaxFailures \in Nat

VARIABLES
    event,      \* the status of each Event row, ABSENT before it is committed
    due,        \* the events whose trigger_time has come
    handler,    \* a request between its commit and its dispatch
    worker,     \* what each worker is doing
    dispatches, \* messages dispatch_event_binding in the broker
    executions, \* messages execute_task_instance in the broker
    task,       \* the TaskInstance rows
    operator,   \* a retry request in flight
    sent,       \* how many messages each binding has ever caused
    delivered,  \* how many e-mails or webhooks each task has caused
    failures

vars == <<event, due, handler, worker, dispatches, executions, task, operator,
          sent, delivered, failures>>
queues == <<dispatches, executions>>

Bindings == Events \X Templates
TaskIds  == 1..MaxTasks
EventStates == {"ABSENT", "PENDING", "TRIGGERED"}
TaskStates  == {"ABSENT", "PENDING", "RUNNING", "SUCCESS", "FAILED"}

HandlerRecord  == [pc: {"idle", "committed", "failed"}, registered: SUBSET Events]
WorkerRecord   == [pc: {"idle", "sweeping", "claimed", "published", "taken", "created", "running"},
                   batch: SUBSET Events,    \* listed, not yet claimed
                   claim: SUBSET Events,    \* to be TRIGGERED by the open transaction
                   later: SUBSET Events,    \* to be PENDING by the open transaction
                   binding: Bindings \cup {None},
                   task: TaskIds \cup {0}]
TaskRecord     == [status: TaskStates, binding: Bindings \cup {None}, retry_of: TaskIds \cup {0}]
OperatorRecord == [pc: {"idle", "checked", "inserted"}, task: TaskIds \cup {0}]

IdleHandler  == [pc |-> "idle", registered |-> {}]
IdleWorker   == [pc |-> "idle", batch |-> {}, claim |-> {}, later |-> {},
                 binding |-> None, task |-> 0]
IdleOperator == [pc |-> "idle", task |-> 0]
NoTask       == [status |-> "ABSENT", binding |-> None, retry_of |-> 0]

TypeOK ==
    /\ event \in [Events -> EventStates]
    /\ due \subseteq Events
    /\ handler \in [Handlers -> HandlerRecord]
    /\ worker \in [Workers -> WorkerRecord]
    /\ dispatches \in [Bindings -> Nat]
    /\ executions \in [TaskIds -> Nat]
    /\ task \in [TaskIds -> TaskRecord]
    /\ operator \in [Operators -> OperatorRecord]
    /\ sent \in [Bindings -> Nat]
    /\ delivered \in [TaskIds -> 0..1]  \* no task ever delivers twice
    /\ failures \in Nat

Init ==
    /\ event = [e \in Events |-> "ABSENT"]
    /\ due = {}
    /\ handler = [h \in Handlers |-> IdleHandler]
    /\ worker = [w \in Workers |-> IdleWorker]
    /\ dispatches = [b \in Bindings |-> 0]
    /\ executions = [t \in TaskIds |-> 0]
    /\ task = [t \in TaskIds |-> NoTask]
    /\ operator = [o \in Operators |-> IdleOperator]
    /\ sent = [b \in Bindings |-> 0]
    /\ delivered = [t \in TaskIds |-> 0]
    /\ failures = 0

-----------------------------------------------------------------------------
(* Messages and rows.                                                      *)

BindingsOf(events) == events \X Templates

Publish(bindings) ==
    /\ sent' = [b \in Bindings |-> IF b \in bindings THEN sent[b] + 1 ELSE sent[b]]
    /\ dispatches' = [b \in Bindings |-> IF b \in bindings THEN dispatches[b] + 1 ELSE dispatches[b]]
    /\ UNCHANGED executions

(* The rows some open transaction of a worker has inserted or locked.      *)
InTransaction(e) == \E w \in Workers : e \in worker[w].claim \cup worker[w].later

FreshEvents == {e \in Events : event[e] = "ABSENT" /\ ~InTransaction(e)}

(* queue_matching_ticket_rules: the matched rules without a delay are      *)
(* TRIGGERED at once, the others wait as PENDING.                          *)
Matched(now, later) ==
    /\ now \cup later # {}
    /\ now \cap later = {}
    /\ now \cup later \subseteq FreshEvents

Existing  == {t \in TaskIds : task[t].status # "ABSENT"}
NextTask  == Cardinality(Existing) + 1
Active(t) == task[t].status \in {"PENDING", "RUNNING"}
RetriesOf(t) == {r \in Existing : task[r].retry_of = t}

\* Faulty: the row of a retry does not name the task it repeats.
WithRowUnlinked(t, binding, source) ==
    [task EXCEPT ![t] = [status |-> "PENDING", binding |-> binding, retry_of |-> 0]]

WithRow(t, binding, source) ==
    [task EXCEPT ![t] = [status |-> "PENDING", binding |-> binding, retry_of |-> source]]

Breakdown ==
    /\ failures < MaxFailures
    /\ failures' = failures + 1

-----------------------------------------------------------------------------
(* API handlers.                                                           *)

(* The events are committed with the ticket; the ids of the immediate ones *)
(* are kept in the session.                                                *)
CommitEvents(h, now, later) ==
    /\ handler[h].pc = "idle"
    /\ Matched(now, later)
    /\ event' = [e \in Events |-> IF e \in now THEN "TRIGGERED"
                                  ELSE IF e \in later THEN "PENDING" ELSE event[e]]
    /\ due' = due \cup now
    /\ handler' = [handler EXCEPT ![h] = IF now = {} THEN IdleHandler
                                         ELSE [pc |-> "committed", registered |-> now]]
    /\ UNCHANGED <<worker, queues, task, operator, sent, delivered, failures>>

Triggered(events) == {e \in events : event[e] = "TRIGGERED"}

DispatchRegistered(h) ==
    /\ handler[h].pc = "committed"
    /\ Publish(BindingsOf(Triggered(handler[h].registered)))
    /\ handler' = [handler EXCEPT ![h] = IdleHandler]
    /\ UNCHANGED <<event, due, worker, task, operator, delivered, failures>>

(* The broker fails after it accepted some of the messages of the group.   *)
DispatchFails(h) ==
    /\ handler[h].pc = "committed"
    /\ Breakdown
    /\ \E some \in SUBSET BindingsOf(Triggered(handler[h].registered)) : Publish(some)
    /\ handler' = [handler EXCEPT ![h].pc = "failed"]
    /\ UNCHANGED <<event, due, worker, task, operator, delivered>>

(* _restore_triggered_events_to_pending hands the events to the sweep.     *)
Restore(h) ==
    /\ handler[h].pc = "failed"
    /\ event' = [e \in Events |-> IF e \in Triggered(handler[h].registered)
                                  THEN "PENDING" ELSE event[e]]
    /\ handler' = [handler EXCEPT ![h] = IdleHandler]
    /\ UNCHANGED <<due, worker, queues, task, operator, sent, delivered, failures>>

CrashHandler(h) ==
    /\ handler[h].pc # "idle"
    /\ Breakdown
    /\ handler' = [handler EXCEPT ![h] = IdleHandler]
    /\ UNCHANGED <<event, due, worker, queues, task, operator, sent, delivered>>

-----------------------------------------------------------------------------
(* sweep_due_events.                                                       *)

DelayPasses(e) ==
    /\ event[e] = "PENDING" /\ e \notin due
    /\ due' = due \cup {e}
    /\ UNCHANGED <<event, handler, worker, queues, task, operator, sent, delivered, failures>>

Sweepable == {e \in due : event[e] = "PENDING"}

ListDue(w) ==
    /\ worker[w].pc = "idle"
    /\ \E batch \in SUBSET Sweepable :
        /\ batch # {}
        /\ batch = Sweepable \/ Cardinality(batch) = BatchSize
        /\ Cardinality(batch) <= BatchSize
        /\ worker' = [worker EXCEPT ![w] = [IdleWorker EXCEPT !.pc = "sweeping", !.batch = batch]]
    /\ UNCHANGED <<event, due, handler, queues, task, operator, sent, delivered, failures>>

AfterEvent(batch) ==
    IF batch = {} THEN IdleWorker ELSE [IdleWorker EXCEPT !.pc = "sweeping", !.batch = batch]

\* Faulty: the row is not looked at again.
ClaimListed(w, e) ==
    /\ worker[w].pc = "sweeping" /\ e \in worker[w].batch
    /\ ~InTransaction(e)
    /\ worker' = [worker EXCEPT ![w].pc = "claimed", ![w].claim = {e}, ![w].batch = @ \ {e}]
    /\ UNCHANGED <<event, due, handler, queues, task, operator, sent, delivered, failures>>

(* UPDATE events ... WHERE status = PENDING, not committed yet: it waits   *)
(* for the transaction that holds the row and then looks at it again.      *)
Claim(w, e) ==
    /\ worker[w].pc = "sweeping" /\ e \in worker[w].batch
    /\ ~InTransaction(e)
    /\ e \in Sweepable
    /\ worker' = [worker EXCEPT ![w].pc = "claimed", ![w].claim = {e}, ![w].batch = @ \ {e}]
    /\ UNCHANGED <<event, due, handler, queues, task, operator, sent, delivered, failures>>

SkipEvent(w, e) ==
    /\ worker[w].pc = "sweeping" /\ e \in worker[w].batch
    /\ ~InTransaction(e)
    /\ e \notin Sweepable
    /\ worker' = [worker EXCEPT ![w] = AfterEvent(worker[w].batch \ {e})]
    /\ UNCHANGED <<event, due, handler, queues, task, operator, sent, delivered, failures>>

(* dispatch_timeout_signal, for a signal the sweep has claimed: the events *)
(* of the matched rules are flushed in a transaction of their own.         *)
MatchSignal(w, now, later) ==
    /\ worker[w].pc \in {"idle", "sweeping"}
    /\ Matched(now, later)
    /\ ImmediateTimeoutRules => later = {}
    /\ worker' = [worker EXCEPT ![w].pc = "claimed", ![w].claim = now, ![w].later = later]
    /\ UNCHANGED <<event, due, handler, queues, task, operator, sent, delivered, failures>>

(* The messages of all events go out before the transaction commits, those *)
(* of the delayed ones too.                                                *)
PublishClaimed(w) ==
    /\ worker[w].pc = "claimed"
    /\ Publish(BindingsOf(worker[w].claim \cup worker[w].later))
    /\ worker' = [worker EXCEPT ![w].pc = "published"]
    /\ UNCHANGED <<event, due, handler, task, operator, delivered, failures>>

CommitClaimed(w) ==
    /\ worker[w].pc = "published"
    /\ event' = [e \in Events |-> IF e \in worker[w].claim THEN "TRIGGERED"
                                  ELSE IF e \in worker[w].later THEN "PENDING" ELSE event[e]]
    /\ due' = due \cup worker[w].claim
    /\ worker' = [worker EXCEPT ![w] = AfterEvent(worker[w].batch)]
    /\ UNCHANGED <<handler, queues, task, operator, sent, delivered, failures>>

\* Faulty: the exception is swallowed and the transaction commits.
PublishFailsSilently(w) ==
    /\ worker[w].pc = "claimed"
    /\ Breakdown
    /\ event' = [e \in Events |-> IF e \in worker[w].claim THEN "TRIGGERED" ELSE event[e]]
    /\ worker' = [worker EXCEPT ![w] = IdleWorker]
    /\ UNCHANGED <<due, handler, queues, task, operator, sent, delivered>>

(* apply_async raises: the transaction is rolled back, the sweep ends.     *)
PublishFails(w) ==
    /\ worker[w].pc = "claimed"
    /\ Breakdown
    /\ \E some \in SUBSET BindingsOf(worker[w].claim \cup worker[w].later) : Publish(some)
    /\ worker' = [worker EXCEPT ![w] = IdleWorker]
    /\ UNCHANGED <<event, due, handler, task, operator, delivered>>

-----------------------------------------------------------------------------
(* dispatch_event_binding and execute_task_instance.  A message leaves the *)
(* broker when a worker starts on it.                                      *)

TakeDispatch(w, b) ==
    /\ worker[w].pc = "idle"
    /\ dispatches[b] > 0
    /\ dispatches' = [dispatches EXCEPT ![b] = @ - 1]
    /\ worker' = [worker EXCEPT ![w] = [IdleWorker EXCEPT !.pc = "taken", !.binding = b]]
    /\ UNCHANGED <<event, due, handler, executions, task, operator, sent, delivered, failures>>

\* Faulty: the instance is created and never executed.
CreateOnly(w) ==
    LET b == worker[w].binding
    IN  /\ worker[w].pc = "taken"
        /\ event[b[1]] # "ABSENT"
        /\ NextTask \in TaskIds
        /\ task' = WithRow(NextTask, b, 0)
        /\ worker' = [worker EXCEPT ![w] = IdleWorker]
        /\ UNCHANGED <<event, due, handler, queues, operator, sent, delivered, failures>>

CreateInstance(w) ==
    LET b == worker[w].binding
    IN  /\ worker[w].pc = "taken"
        /\ event[b[1]] # "ABSENT"
        /\ NextTask \in TaskIds
        /\ task' = WithRow(NextTask, b, 0)
        /\ worker' = [worker EXCEPT ![w] = [IdleWorker EXCEPT !.pc = "created", !.task = NextTask]]
        /\ UNCHANGED <<event, due, handler, queues, operator, sent, delivered, failures>>

(* The foreign key to an event that is not committed fails the INSERT.     *)
RejectOrphan(w) ==
    /\ worker[w].pc = "taken"
    /\ event[worker[w].binding[1]] = "ABSENT"
    /\ worker' = [worker EXCEPT ![w] = IdleWorker]
    /\ UNCHANGED <<event, due, handler, queues, task, operator, sent, delivered, failures>>

TakeExecution(w, t) ==
    /\ worker[w].pc = "idle"
    /\ executions[t] > 0
    /\ executions' = [executions EXCEPT ![t] = @ - 1]
    /\ worker' = [worker EXCEPT ![w] = [IdleWorker EXCEPT !.pc = "created", !.task = t]]
    /\ UNCHANGED <<event, due, handler, dispatches, task, operator, sent, delivered, failures>>

(* execute_task_instance does not look at the status it finds. *)
StartTask(w) ==
    /\ worker[w].pc = "created"
    /\ task' = [task EXCEPT ![worker[w].task].status = "RUNNING"]
    /\ worker' = [worker EXCEPT ![w].pc = "running"]
    /\ UNCHANGED <<event, due, handler, queues, operator, sent, delivered, failures>>

Finish(w, status, deliveries) ==
    LET t == worker[w].task
    IN  /\ worker[w].pc = "running"
        /\ delivered' = [delivered EXCEPT ![t] = @ + deliveries]
        /\ task' = [task EXCEPT ![t].status = status]
        /\ worker' = [worker EXCEPT ![w] = IdleWorker]
        /\ UNCHANGED <<event, due, handler, queues, operator, sent, failures>>

Succeed(w)  == Finish(w, "SUCCESS", 1)

(* A template, ticket or recipient is missing, or the server answered with *)
(* an error or not at all: then nobody knows whether it was delivered.     *)
FailTask(w) == \E deliveries \in {0, 1} : Finish(w, "FAILED", deliveries)

(* A lost worker: its message is gone and its transaction is rolled back.  *)
CrashWorker(w) ==
    /\ worker[w].pc # "idle"
    /\ Breakdown
    /\ worker' = [worker EXCEPT ![w] = IdleWorker]
    /\ \/ UNCHANGED delivered
       \/ worker[w].pc = "running" /\ delivered' = [delivered EXCEPT ![worker[w].task] = @ + 1]
    /\ UNCHANGED <<event, due, handler, queues, task, operator, sent>>

-----------------------------------------------------------------------------
(* retry_task.                                                             *)

CheckRetry(o, t) ==
    /\ operator[o].pc = "idle"
    /\ task[t].status = "FAILED"
    /\ \A r \in RetriesOf(t) : ~Active(r)
    /\ operator' = [operator EXCEPT ![o] = [pc |-> "checked", task |-> t]]
    /\ UNCHANGED <<event, due, handler, worker, queues, task, sent, delivered, failures>>

\* Faulty: the failed row itself is set back to PENDING.
RetryInPlace(o) ==
    LET source == operator[o].task
    IN  /\ operator[o].pc = "checked"
        /\ task' = WithRow(source, task[source].binding, 0)
        /\ operator' = [operator EXCEPT ![o].pc = "inserted"]
        /\ UNCHANGED <<event, due, handler, worker, queues, sent, delivered, failures>>

InsertRetry(o) ==
    LET source == operator[o].task
    IN  /\ operator[o].pc = "checked"
        /\ NextTask \in TaskIds
        /\ Cardinality({t \in Existing : task[t].retry_of # 0}) < MaxRetries
        /\ task' = WithRow(NextTask, task[source].binding, source)
        /\ operator' = [operator EXCEPT ![o] = [pc |-> "inserted", task |-> NextTask]]
        /\ UNCHANGED <<event, due, handler, worker, queues, sent, delivered, failures>>

\* Faulty: the message is published twice.
EnqueueTwice(o) ==
    /\ operator[o].pc = "inserted"
    /\ executions' = [executions EXCEPT ![operator[o].task] = @ + 2]
    /\ operator' = [operator EXCEPT ![o] = IdleOperator]
    /\ UNCHANGED <<event, due, handler, worker, dispatches, task, sent, delivered, failures>>

EnqueueRetry(o) ==
    /\ operator[o].pc = "inserted"
    /\ executions' = [executions EXCEPT ![operator[o].task] = @ + 1]
    /\ operator' = [operator EXCEPT ![o] = IdleOperator]
    /\ UNCHANGED <<event, due, handler, worker, dispatches, task, sent, delivered, failures>>

(* A crash or a broker error. *)
AbandonRetry(o) ==
    /\ operator[o].pc # "idle"
    /\ Breakdown
    /\ operator' = [operator EXCEPT ![o] = IdleOperator]
    /\ UNCHANGED <<event, due, handler, worker, queues, task, sent, delivered>>

-----------------------------------------------------------------------------
Handle(h) ==
    \/ \E now, later \in SUBSET Events : CommitEvents(h, now, later)
    \/ DispatchRegistered(h) \/ DispatchFails(h) \/ Restore(h) \/ CrashHandler(h)

Sweep(w) ==
    \/ ListDue(w)
    \/ \E e \in Events : Claim(w, e) \/ SkipEvent(w, e)
    \/ PublishClaimed(w) \/ CommitClaimed(w)

RunTask(w) ==
    \/ \E b \in Bindings : TakeDispatch(w, b)
    \/ CreateInstance(w) \/ RejectOrphan(w)
    \/ \E t \in TaskIds : TakeExecution(w, t)
    \/ StartTask(w) \/ Succeed(w) \/ FailTask(w)

Work(w) ==
    \/ Sweep(w) \/ RunTask(w)
    \/ \E now, later \in SUBSET Events : MatchSignal(w, now, later)
    \/ PublishFails(w) \/ CrashWorker(w)

Retry(o) ==
    \/ \E t \in TaskIds : CheckRetry(o, t)
    \/ InsertRetry(o) \/ EnqueueRetry(o) \/ AbandonRetry(o)

Next ==
    \/ \E h \in Handlers : Handle(h)
    \/ \E e \in Events : DelayPasses(e)
    \/ \E w \in Workers : Work(w)
    \/ \E o \in Operators : Retry(o)

Spec == Init /\ [][Next]_vars

(* The beat keeps scheduling sweeps, a worker that is up takes the next    *)
(* message and ends what it began, and so do the threads of the API.       *)
FairSpec ==
    /\ Spec
    /\ \A w \in Workers : WF_vars(Sweep(w) \/ RunTask(w))
    /\ \A h \in Handlers : WF_vars(DispatchRegistered(h) \/ Restore(h))
    /\ \A o \in Operators : WF_vars(EnqueueRetry(o))

-----------------------------------------------------------------------------
(* Safety.                                                                 *)

Sent(e) == \A template \in Templates : sent[<<e, template>>] > 0

(* A message is published again only after something broke: the row lock   *)
(* and the status check let one of several sweeps have an event, and an    *)
(* event handed back to the sweep is not dispatched by its handler too.    *)
ResentOnlyAfterFailure == \A b \in Bindings : sent[b] <= 1 + failures

(* Nothing broke: every message is in the broker, in the hands of a worker *)
(* or an instance of its own.  It needs the one worker of the deployment:  *)
(* with two, one may take a message before the other committed its event.  *)
NothingIsLost ==
    failures = 0 =>
        \A b \in Bindings :
            sent[b] = dispatches[b] + Cardinality({w \in Workers : worker[w].binding = b})
                        + Cardinality({t \in Existing : task[t].binding = b /\ task[t].retry_of = 0})

(* A task never runs twice: its outcome is final although nothing looks at *)
(* the status, and nothing is delivered after it.                          *)
OutcomeIsFinal ==
    [][\A t \in TaskIds :
        task[t].status \in {"SUCCESS", "FAILED"} =>
            task'[t] = task[t] /\ delivered'[t] = delivered[t]]_vars

(* The messages of a delayed event go out after its delay.                 *)
DelayedWaitsForDelay ==
    \A e \in Events : event[e] = "PENDING" /\ e \notin due =>
        \A template \in Templates : sent[<<e, template>>] = 0

-----------------------------------------------------------------------------
(* Liveness.                                                               *)

(* A due event is sent, whatever breaks meanwhile: a crash between its     *)
(* publication and its commit leaves it to the next sweep.                 *)
DueIsSent == \A e \in Events : e \in Sweepable ~> Sent(e) /\ event[e] = "TRIGGERED"

(* Nothing broke: what is sent is attempted to the end, and so is every    *)
(* retry.                                                                  *)
SentIsAttempted ==
    /\ \A b \in Bindings : sent[b] > 0 ~>
        \/ failures > 0
        \/ \E t \in Existing : task[t].binding = b /\ task[t].status \in {"SUCCESS", "FAILED"}
    /\ \A t \in TaskIds : task[t].status = "PENDING" ~> failures > 0 \/ ~Active(t)
=============================================================================
