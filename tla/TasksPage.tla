------------------------------- MODULE TasksPage -------------------------------
(***************************************************************************)
(* The task instances: the table with its filters, the drawer of one task  *)
(* and the retry of a failed one (pages/TasksPage.tsx).  A task is its     *)
(* identity; the filters are what they hide.                               *)
(***************************************************************************)
EXTENDS PageRequests

CONSTANTS
    Tasks,  \* the task instances the page may meet
    Failed  \* those whose status is FAILED

Maybe == Tasks \cup {None}

UiType ==
    [items : SUBSET Tasks, hidden : SUBSET Tasks, selected : Maybe, task : Maybe,
     loading : BOOLEAN, detailLoading : BOOLEAN, action : Maybe]

(* What the functions that wait for a request still know of it.            *)
Request ==
    [kind : {"list"}, retried : Maybe]
    \cup [kind : {"detail"}, of : Tasks]
    \cup [kind : {"retry"}]

Init ==
    /\ ui = [items |-> {}, hidden |-> {}, selected |-> None, task |-> None,
             loading |-> TRUE, detailLoading |-> FALSE, action |-> None]
    /\ Mounted([kind |-> "list", retried |-> None])

-----------------------------------------------------------------------------
(* The table.  A load is never cancelled, and its failure is swallowed: it *)
(* ends with the loading in either case.                                   *)
Refresh ==
    /\ Set([loading |-> TRUE])
    /\ Call([kind |-> "list", retried |-> None])

loadTasks(r) ==
    /\ Has(r, "list") /\ req[r].retried = None
    /\ \E items \in {ui.items} \cup SUBSET Tasks : Set([items |-> items, loading |-> FALSE])
    /\ Return(r)

ChangeFilter(hidden) ==
    /\ hidden # ui.hidden
    /\ Set([hidden |-> hidden])
    /\ UNCHANGED req

filteredItems == ui.items \ ui.hidden

-----------------------------------------------------------------------------
(* The drawer: the effect on the selection reads the task, and its cleanup *)
(* ignores the answer that was on its way for the selection before.        *)
DetailCall(t) == [kind |-> "detail", of |-> t]

RowIsOffered(t) == ~ui.loading /\ t \in filteredItems

(* Faulty: the effect has no cleanup.                                      *)
SelectWithoutCleanup(t) ==
    /\ RowIsOffered(t) /\ t # ui.selected
    /\ Set([selected |-> t, detailLoading |-> TRUE])
    /\ Call(DetailCall(t))

Select(t) ==
    /\ RowIsOffered(t) /\ t # ui.selected
    /\ Set([selected |-> t, detailLoading |-> TRUE])
    /\ Again(DetailCall(t))

Close ==
    /\ ui.selected # None
    /\ Set([selected |-> None, task |-> None])
    /\ Cancel({"detail"})

loadTaskDetail(r) ==
    /\ Has(r, "detail")
    /\ \E t \in {req[r].of, None} : Set([task |-> t, detailLoading |-> FALSE])
    /\ Return(r)

-----------------------------------------------------------------------------
(* The retry, from a row or from the drawer: a new task is created, the    *)
(* table is read again, and the drawer moves to the new task.              *)
RetryOfRow(t)  == RowIsOffered(t) /\ t \in Failed
RetryOfDrawer(t) == ui.selected # None /\ ~ui.detailLoading /\ ui.task = t /\ t \in Failed

handleRetry(t) ==
    /\ ui.action # t
    /\ t \in {u \in Tasks : RetryOfRow(u) \/ RetryOfDrawer(u)}
    /\ Set([action |-> t])
    /\ Call([kind |-> "retry"])

Retried(r) ==
    /\ Has(r, "retry")
    /\ Set([loading |-> TRUE])
    /\ \E t \in Tasks : Await(r, [kind |-> "list", retried |-> t])

RetryFailed(r) ==
    /\ Has(r, "retry")
    /\ Set([action |-> None])
    /\ Return(r)

RetryShown(r) ==
    /\ Has(r, "list") /\ req[r].retried # None
    /\ LET t == req[r].retried
       IN \E items \in {ui.items} \cup SUBSET Tasks :
            IF t = ui.selected
              THEN /\ Set([items |-> items, loading |-> FALSE, action |-> None])
                   /\ Return(r)
              ELSE /\ Set([items |-> items, loading |-> FALSE, action |-> None,
                           selected |-> t, detailLoading |-> TRUE])
                   /\ req' = [Without({"detail"}) EXCEPT ![r] = DetailCall(t)]

Next ==
    \/ Refresh \/ Close
    \/ \E hidden \in SUBSET Tasks : ChangeFilter(hidden)
    \/ \E t \in Tasks : Select(t) \/ handleRetry(t)
    \/ \E r \in Slots :
         \/ loadTasks(r) \/ loadTaskDetail(r)
         \/ Retried(r) \/ RetryFailed(r) \/ RetryShown(r)

-----------------------------------------------------------------------------
(* A flag that greys a button out or shows a spinner is set only while a   *)
(* request is in flight whose end clears it.  While the drawer is closed   *)
(* its spinner may stay set: opening it reads the task again.              *)
FlagsAreReal ==
    /\ ui.loading => InFlight({"list"})
    /\ ui.selected # None /\ ui.detailLoading => InFlight({"detail"})
    /\ ui.action # None => \E r \in Slots :
         Has(r, "retry") \/ (Has(r, "list") /\ req[r].retried # None)

(* When nothing is being read, the drawer shows the task that is selected, *)
(* whatever answers came late.                                             *)
ShownIsAskedFor ==
    /\ ui.selected = None => ui.task = None
    /\ ui.task # None /\ ~ui.detailLoading => ui.task = ui.selected
=============================================================================
