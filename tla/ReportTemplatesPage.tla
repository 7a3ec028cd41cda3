-------------------------- MODULE ReportTemplatesPage --------------------------
(***************************************************************************)
(* The report templates of an administrator: a form that uploads one, the  *)
(* list, and a form that edits the selected one or replaces its file       *)
(* (pages/ReportTemplatesPage.tsx).  A template is its identity, and its   *)
(* form says whether something was typed into it.                          *)
(***************************************************************************)
EXTENDS PageRequests

CONSTANT ReportTemplates

Maybe  == ReportTemplates \cup {None}
Writes == {<<"create", None>>} \cup ({"update", "replace"} \X ReportTemplates)

Form   == [of : Maybe, typed : BOOLEAN]

UiType ==
    [items : SUBSET ReportTemplates, loading : BOOLEAN, saving : Writes \cup {None},
     selected : Maybe, file : BOOLEAN, form : Form]

(* What the functions that wait for a request still know of it.            *)
Request ==
    [kind : {"list"}, op : Writes \cup {None}]
    \cup [kind : {"write"}, op : Writes, form : Form]

Init ==
    /\ ui = [items |-> {}, loading |-> TRUE, saving |-> None, selected |-> None,
             file |-> FALSE, form |-> [of |-> None, typed |-> FALSE]]
    /\ Mounted([kind |-> "list", op |-> None])

-----------------------------------------------------------------------------
(* A load or another selection gives the page another selected template:   *)
(* the effect that follows fills the form from it.                         *)
Editing(items, selected) ==
    IF selected \in items THEN [of |-> selected, typed |-> FALSE] ELSE ui.form

Refresh ==
    /\ Set([loading |-> TRUE])
    /\ Call([kind |-> "list", op |-> None])

loadTemplates(r) ==
    /\ Has(r, "list")
    /\ \E items \in SUBSET ReportTemplates :
         \E first \in IF items = {} THEN {None} ELSE items :
           LET selected == IF ui.selected = None THEN first ELSE ui.selected
           IN Set([items |-> items, loading |-> FALSE, selected |-> selected,
                   form |-> Editing(items, selected),
                   saving |-> IF req[r].op = None THEN ui.saving ELSE None])
    /\ Return(r)

LoadFailed(r) ==
    /\ Has(r, "list")
    /\ Set([loading |-> FALSE, saving |-> IF req[r].op = None THEN ui.saving ELSE None])
    /\ Return(r)

Select(t) ==
    /\ ~ui.loading /\ t \in ui.items /\ t # ui.selected
    /\ Set([selected |-> t, form |-> Editing(ui.items, t)])
    /\ UNCHANGED req

selectedTemplate == IF ui.selected \in ui.items THEN ui.selected ELSE None
DetailIsOffered  == selectedTemplate # None

Type ==
    /\ DetailIsOffered /\ ~ui.form.typed
    /\ Set([form |-> [ui.form EXCEPT !.typed = TRUE]])
    /\ UNCHANGED req

ChooseFile ==
    /\ ~ui.file
    /\ Set([file |-> TRUE])
    /\ UNCHANGED req

-----------------------------------------------------------------------------
(* The writes.  One hook says which one the page waits for, and the end of *)
(* any of them clears it.                                                  *)
Write(op) ==
    /\ ui.saving # op \/ op[1] = "replace"
    /\ Set([saving |-> op])
    /\ Call([kind |-> "write", op |-> op, form |-> ui.form])

handleCreate      == ui.file /\ Write(<<"create", None>>)
handleUpdate      == DetailIsOffered /\ Write(<<"update", selectedTemplate>>)
handleReplaceFile == DetailIsOffered /\ Write(<<"replace", selectedTemplate>>)

Written(r) ==
    /\ Has(r, "write")
    /\ Set([loading |-> TRUE, file |-> ui.file /\ req[r].op[1] # "create"])
    /\ Await(r, [kind |-> "list", op |-> req[r].op])

WriteFailed(r) ==
    /\ Has(r, "write")
    /\ Set([saving |-> None])
    /\ Return(r)

Next ==
    \/ Refresh \/ Type \/ ChooseFile
    \/ \E t \in ReportTemplates : Select(t)
    \/ handleCreate \/ handleUpdate \/ handleReplaceFile
    \/ \E r \in Slots : loadTemplates(r) \/ LoadFailed(r) \/ Written(r) \/ WriteFailed(r)

-----------------------------------------------------------------------------
(* A flag that greys a button out or shows a spinner is set only while a   *)
(* request is in flight whose end clears it.                               *)
FlagsAreReal ==
    /\ ui.loading => InFlight({"list"})
    /\ ui.saving # None => \E r \in Slots : ~Free(r) /\ req[r].op = ui.saving

(* The form that edits a template is filled from that template, whatever   *)
(* answers come late, and an update is sent to the template of its form.   *)
FormIsOfTheRecord ==
    /\ DetailIsOffered => ui.form.of = ui.selected
    /\ \A r \in OfKind("write") : req[r].op[1] = "update" => req[r].form.of = req[r].op[2]
=============================================================================
