---------------------------- MODULE EventRulePages ----------------------------
(***************************************************************************)
(* The event rules of an administrator: the list, a rule's detail and the  *)
(* editor (pages/EventsPage.tsx, EventDetailPage.tsx, EventEditorPage.tsx) *)
(* on the routed pages.                                                    *)
(* A rule is its identity, its type and whether it binds the one task      *)
(* template; its filters, tags and texts are left out.                     *)
(***************************************************************************)
EXTENDS RoutedPages

CONSTANT TimerRules  \* the rules whose stored type is timer

EventTypes == {"normal", "timer"}
Modes(type) == IF type = "normal" THEN {"immediate", "delayed"} ELSE {"timer"}
Form   == [of : Maybe, type : EventTypes, mode : Modes("normal") \cup Modes("timer"),
           binds : BOOLEAN]

UiType ==
    [route : Routes, loading : BOOLEAN, error : BOOLEAN, items : SUBSET Records, busy : Maybe,
     detail : Maybe, form : Form, bindable : BOOLEAN, saving : BOOLEAN, applied : BOOLEAN]

(* What the functions that wait for a request still know of it.            *)
Request ==
    [kind : {"load"}, of : Maybe]
    \cup [kind : {"toggle"}, of : Records]
    \cup [kind : {"delete"}, of : Records, leads : BOOLEAN, shown : BOOLEAN]
    \cup [kind : {"reload"}]
    \cup [kind : {"save"}, of : Maybe, form : Form, applied : BOOLEAN, shown : BOOLEAN]

TypeOf(i) == IF i \in TimerRules THEN "timer" ELSE "normal"

defaultTimeRule(type) == IF type = "normal" THEN "immediate" ELSE "timer"

EmptyForm == [of |-> None, type |-> "normal", mode |-> defaultTimeRule("normal"),
              binds |-> FALSE]

(* applied is not a hook: it says that the last load of this URL brought   *)
(* the rule that the editor was opened on.                                 *)
Mount(route) ==
    [route |-> route, loading |-> TRUE, error |-> FALSE, items |-> {}, busy |-> None,
     detail |-> None, form |-> EmptyForm, bindable |-> FALSE, saving |-> FALSE,
     applied |-> FALSE]

Init ==
    /\ ui = Mount(<<"list", None>>)
    /\ Mounted(LoadCall(<<"list", None>>))

-----------------------------------------------------------------------------
applyDetail(i, mode, binds) == [of |-> i, type |-> TypeOf(i), mode |-> mode, binds |-> binds]

ListLoaded ==
    /\ On("list")
    /\ \E items \in SUBSET Records : Set([items |-> items, loading |-> FALSE])

DetailLoaded(i) == On("detail") /\ Set([detail |-> i, loading |-> FALSE])

(* The templates that may be bound and, unless the rule is new, the rule.  *)
EditorLoaded(i) ==
    /\ On("edit")
    /\ \E bindable \in BOOLEAN :
         IF id = None THEN Set([bindable |-> bindable, loading |-> FALSE])
         ELSE \E mode \in Modes(TypeOf(i)), binds \in BOOLEAN :
                Set([bindable |-> bindable, loading |-> FALSE, applied |-> TRUE,
                     form |-> applyDetail(i, mode, binds)])

Loaded(r) ==
    /\ Has(r, "load")
    /\ ListLoaded \/ DetailLoaded(req[r].of) \/ EditorLoaded(req[r].of)
    /\ Return(r)

LoadFailed(r) ==
    /\ Has(r, "load")
    /\ Set([loading |-> FALSE, error |-> TRUE,
            detail |-> IF On("detail") THEN None ELSE ui.detail])
    /\ Return(r)

-----------------------------------------------------------------------------
(* The list shows the error instead of its rows once there has been one.   *)
RowIsOffered(i)  == On("list") /\ ~ui.loading /\ ~ui.error /\ i \in ui.items /\ ui.busy # i
DetailIsOffered  == On("detail") /\ ~ui.loading /\ ui.detail # None /\ ui.busy = None

handleToggle(i) ==
    /\ RowIsOffered(i) \/ (DetailIsOffered /\ ui.detail = i)
    /\ Set([busy |-> i])
    /\ Call([kind |-> "toggle", of |-> i])

handleDelete(i) ==
    /\ RowIsOffered(i) \/ (DetailIsOffered /\ ui.detail = i)
    /\ Set([busy |-> i])
    /\ Call([kind |-> "delete", of |-> i, leads |-> On("detail"), shown |-> TRUE])

(* On the detail page the answer is shown; the list is loaded again.       *)
Changed(r) ==
    /\ Has(r, "toggle") \/ (Has(r, "delete") /\ ~req[r].leads)
    /\ IF On("detail") THEN Set([detail |-> req[r].of, busy |-> None]) /\ Return(r)
                       ELSE Await(r, [kind |-> "reload"]) /\ UNCHANGED ui

reload(r) ==
    /\ Has(r, "reload")
    /\ \E items \in SUBSET Records : Set([items |-> items, busy |-> None])
    /\ Return(r)

Deleted(r) ==
    /\ Has(r, "delete") /\ req[r].leads
    /\ Go(<<"list", None>>, [req EXCEPT ![r] = None], Mount(<<"list", None>>))

ChangeFailed(r) ==
    /\ ~Free(r) /\ req[r].kind \in {"toggle", "delete", "reload"}
    /\ IF req[r].kind = "delete" /\ ~req[r].shown THEN UNCHANGED ui
                                                  ELSE Set([busy |-> None, error |-> TRUE])
    /\ Return(r)

-----------------------------------------------------------------------------
EditorIsOffered == On("edit") /\ ~ui.loading
Edit(form) == EditorIsOffered /\ Set([form |-> form]) /\ UNCHANGED req

chooseType(type) == Edit([ui.form EXCEPT !.type = type, !.mode = defaultTimeRule(type)])

NormalRuleIsOffered == ui.form.type = "normal"
TimerRuleIsOffered  == ui.form.type = "timer"

setTimeRule(mode) ==
    /\ \/ NormalRuleIsOffered /\ mode \in {"immediate", "delayed"}
       \/ TimerRuleIsOffered /\ mode = "timer"
    /\ mode # ui.form.mode
    /\ Edit([ui.form EXCEPT !.mode = mode])

(* The dialog offers the templates that may be bound and are not.          *)
TaskTemplateIsOffered == ui.bindable /\ ~ui.form.binds

addTaskTemplate    == TaskTemplateIsOffered /\ Edit([ui.form EXCEPT !.binds = TRUE])
removeTaskTemplate == ui.form.binds /\ Edit([ui.form EXCEPT !.binds = FALSE])

hasStaleTaskBindings == ui.form.binds /\ ~ui.bindable

(* A normal rule that is not delayed is sent as an immediate one.          *)
buildPayload ==
    [ui.form EXCEPT !.mode = IF ui.form.type = "timer" THEN "timer"
                             ELSE IF ui.form.mode = "delayed" THEN "delayed" ELSE "immediate"]

handleSave ==
    /\ EditorIsOffered /\ ~ui.saving
    /\ IF hasStaleTaskBindings
         THEN Set([error |-> TRUE]) /\ UNCHANGED req
         ELSE /\ Set([saving |-> TRUE, error |-> FALSE])
              /\ Call([kind |-> "save", of |-> id, form |-> buildPayload,
                       applied |-> ui.applied, shown |-> TRUE])

Saved(r) ==
    /\ Has(r, "save")
    /\ \E i \in IF req[r].of = None THEN Records ELSE {req[r].of} :
         Go(<<"detail", i>>, [req EXCEPT ![r] = None], Mount(<<"detail", i>>))

SaveFailed(r) ==
    /\ Has(r, "save")
    /\ IF req[r].shown THEN Set([saving |-> FALSE, error |-> TRUE]) ELSE UNCHANGED ui
    /\ Return(r)

Next ==
    \/ \E route \in Routes : Visit(route, Mount(route))
    \/ \E i \in Records : handleToggle(i) \/ handleDelete(i)
    \/ \E type \in EventTypes : chooseType(type)
    \/ \E mode \in Modes("normal") \cup Modes("timer") : setTimeRule(mode)
    \/ addTaskTemplate \/ removeTaskTemplate \/ handleSave
    \/ \E r \in Slots :
         \/ Loaded(r) \/ LoadFailed(r) \/ Changed(r) \/ reload(r) \/ Deleted(r)
         \/ ChangeFailed(r) \/ Saved(r) \/ SaveFailed(r)

-----------------------------------------------------------------------------
(* A flag that greys a button out or shows a spinner is set only while a   *)
(* request of the page is in flight whose end clears it.                   *)
Waits(r, K) == ~Free(r) /\ req[r].kind \in K

FlagsAreReal ==
    /\ ui.loading => InFlight({"load"})
    /\ ui.busy # None => InFlight({"toggle", "delete", "reload"})
    /\ ui.saving => \E r \in Slots : Has(r, "save") /\ req[r].shown

(* The editor of a rule that could be loaded holds that rule, whatever     *)
(* loads are answered late, and its save is sent to that rule.             *)
FormIsOfTheRecord ==
    /\ On("edit") /\ ~ui.loading /\ ui.applied => ui.form.of = id
    /\ \A r \in OfKind("save") : req[r].applied => req[r].form.of = req[r].of

(* What a save sends is a rule that the server can schedule: a time rule   *)
(* of the type, and no task template that may not be bound any more.       *)
TimeRuleFitsType ==
    /\ ui.form.mode \in Modes(ui.form.type)
    /\ \A r \in OfKind("save") : req[r].form.mode \in Modes(req[r].form.type)
=============================================================================
