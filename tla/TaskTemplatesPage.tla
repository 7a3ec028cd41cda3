--------------------------- MODULE TaskTemplatesPage ---------------------------
(***************************************************************************)
(* The task templates: the table with its filters and the panel that       *)
(* creates or edits one (pages/TaskTemplatesPage.tsx).  A template is its  *)
(* identity, its type and its status; the form also has what depends on    *)
(* the type: the recipients and the sender of an e-mail.                   *)
(***************************************************************************)
EXTENDS PageRequests

CONSTANTS
    TaskTemplates,
    EmailTasks  \* those of the type EMAIL, the others are of the type WEBHOOK

Maybe    == TaskTemplates \cup {None}
Types    == {"EMAIL", "WEBHOOK"}
Statuses == {"ACTIVE", "INACTIVE"}
Type(t)  == IF t \in EmailTasks THEN "EMAIL" ELSE "WEBHOOK"

Form     == [of : Maybe, type : Types, status : Statuses, rules : BOOLEAN, sender : BOOLEAN]

UiType ==
    [items : [TaskTemplates -> Statuses \cup {None}], loading : BOOLEAN, saving : BOOLEAN,
     selected : Maybe, panelMode : {"create", "edit"}, action : Maybe,
     form : Form]

(* What the functions that wait for a request still know of it.            *)
Shown   == [panelMode : {"edit"}, selected : TaskTemplates, form : Form]
Request ==
    [kind : {"page"}, saved : Shown \cup {None}]
    \cup [kind : {"save"}, of : Maybe, form : Form, rules : BOOLEAN, setsStatus : BOOLEAN]
    \cup [kind : {"toggle"}, of : TaskTemplates, selected : Maybe, to : Statuses]

defaultFormState ==
    [of |-> None, type |-> "EMAIL", status |-> "ACTIVE", rules |-> TRUE, sender |-> FALSE]

(* An e-mail has a recipient, the server takes none without; a webhook has *)
(* none, and no sender.                                                    *)
fromTaskTemplate(t, status, sender) ==
    [of |-> t, type |-> Type(t), status |-> status, rules |-> Type(t) = "EMAIL",
     sender |-> sender /\ Type(t) = "EMAIL"]

Init ==
    /\ ui = [items |-> [t \in TaskTemplates |-> None], loading |-> TRUE, saving |-> FALSE,
             selected |-> None, panelMode |-> "create", action |-> None,
             form |-> defaultFormState]
    /\ Mounted([kind |-> "page", saved |-> None])

-----------------------------------------------------------------------------
(* The table.                                                              *)
Refresh ==
    /\ Set([loading |-> TRUE])
    /\ Call([kind |-> "page", saved |-> None])

Contents == {ui.items} \cup [TaskTemplates -> Statuses \cup {None}]

loadPage(r) ==
    /\ Has(r, "page") /\ req[r].saved = None
    /\ \E items \in Contents : Set([items |-> items, loading |-> FALSE])
    /\ Return(r)

RowIsOffered(t) == ~ui.loading /\ ui.items[t] # None

openCreatePanel ==
    /\ Set([panelMode |-> "create", selected |-> None, form |-> defaultFormState])
    /\ UNCHANGED req

Opened(t, status, sender) ==
    [panelMode |-> "edit", selected |-> t, form |-> fromTaskTemplate(t, status, sender)]

openEditPanel(t) ==
    /\ RowIsOffered(t)
    /\ \E sender \in BOOLEAN : Set(Opened(t, ui.items[t], sender))
    /\ UNCHANGED req

-----------------------------------------------------------------------------
(* The form.  The type can only be chosen for a new template, and takes    *)
(* along what depends on it.                                               *)
SetForm(form) == form # ui.form /\ Set([form |-> form]) /\ UNCHANGED req

ChooseType(type) ==
    /\ ui.panelMode = "create"
    /\ SetForm([ui.form EXCEPT !.type = type, !.rules = type = "EMAIL", !.sender = FALSE])

ChooseSender(sender) == ui.form.type = "EMAIL" /\ SetForm([ui.form EXCEPT !.sender = sender])
ChooseStatus(status) == SetForm([ui.form EXCEPT !.status = status])
ChooseRules(some)    == ui.form.type = "EMAIL" /\ SetForm([ui.form EXCEPT !.rules = some])

buildRecipientConfig == ui.form.type = "EMAIL" /\ ui.form.rules

handleSave ==
    /\ ~ui.saving
    /\ IF ui.panelMode = "edit" /\ ui.items[ui.selected] = None
         THEN UNCHANGED <<ui, req>>     \* it is not listed: an error at once
         ELSE /\ Set([saving |-> TRUE])
              /\ Call([kind |-> "save", of |-> ui.selected, form |-> ui.form,
                       rules |-> buildRecipientConfig,
                       setsStatus |-> /\ ui.panelMode = "edit"
                                      /\ ui.items[ui.selected] # ui.form.status])

(* The template is written, its status in a second request, and the page   *)
(* is read again before the panel shows what was saved.                    *)
Saved(r) ==
    /\ Has(r, "save")
    /\ IF req[r].setsStatus
         THEN Await(r, [req[r] EXCEPT !.setsStatus = FALSE]) /\ UNCHANGED ui
         ELSE \E t \in {u \in TaskTemplates : req[r].of \in {None, u}} :
                /\ req[r].of = None => Type(t) = req[r].form.type
                /\ Set([loading |-> TRUE])
                /\ Await(r, [kind |-> "page",
                             saved |-> Opened(t, req[r].form.status, req[r].form.sender)])

SaveFailed(r) ==
    /\ Has(r, "save")
    /\ Set([saving |-> FALSE])
    /\ Return(r)

SaveShown(r) ==
    /\ Has(r, "page") /\ req[r].saved # None
    /\ \E items \in Contents :
         Set([items |-> items, loading |-> FALSE, saving |-> FALSE,
              panelMode |-> "edit", selected |-> req[r].saved.selected,
              form |-> req[r].saved.form])
    /\ Return(r)

-----------------------------------------------------------------------------
(* One hook greys out the row whose status is being changed; the answer    *)
(* also changes the form, if its template was selected when the button was *)
(* pressed.                                                                *)
handleToggleStatus(t) ==
    /\ RowIsOffered(t) /\ ui.action # t
    /\ Set([action |-> t])
    /\ Call([kind |-> "toggle", of |-> t, selected |-> ui.selected,
             to |-> IF ui.items[t] = "ACTIVE" THEN "INACTIVE" ELSE "ACTIVE"])

Toggled(r) ==
    /\ Has(r, "toggle")
    /\ LET t == req[r].of
       IN Set([action |-> None,
               items |-> IF ui.items[t] = None THEN ui.items
                         ELSE [ui.items EXCEPT ![t] = req[r].to],
               form |-> IF req[r].selected = t THEN [ui.form EXCEPT !.status = req[r].to]
                        ELSE ui.form])
    /\ Return(r)

ToggleFailed(r) ==
    /\ Has(r, "toggle")
    /\ Set([action |-> None])
    /\ Return(r)

Next ==
    \/ Refresh \/ openCreatePanel \/ handleSave
    \/ \E t \in TaskTemplates : openEditPanel(t) \/ handleToggleStatus(t)
    \/ \E type \in Types : ChooseType(type)
    \/ \E status \in Statuses : ChooseStatus(status)
    \/ \E b \in BOOLEAN : ChooseSender(b) \/ ChooseRules(b)
    \/ \E r \in Slots :
         \/ loadPage(r) \/ Saved(r) \/ SaveFailed(r) \/ SaveShown(r)
         \/ Toggled(r) \/ ToggleFailed(r)

-----------------------------------------------------------------------------
(* A flag that greys a button out or shows a spinner is set only while a   *)
(* request is in flight whose end clears it.                               *)
FlagsAreReal ==
    /\ ui.loading => InFlight({"page"})
    /\ ui.action # None => InFlight({"toggle"})
    /\ ui.saving => \E r \in Slots :
         Has(r, "save") \/ (Has(r, "page") /\ req[r].saved # None)

(* The panel's form is the selected template's, and a save goes to the     *)
(* template whose form it carries, whatever answers come late.             *)
FormIsOfTheRecord ==
    /\ ui.form.of = ui.selected /\ (ui.panelMode = "edit" <=> ui.selected # None)
    /\ \A r \in OfKind("save") : req[r].form.of = req[r].of

(* What a template has fits its type: no recipients and no sender for a    *)
(* webhook, and the type of a template is never changed.                   *)
FormFitsType ==
    /\ ui.form.type = "WEBHOOK" => ~ui.form.rules /\ ~ui.form.sender
    /\ ui.form.of # None => ui.form.type = Type(ui.form.of)
    /\ \A r \in OfKind("save") : req[r].form.type = "WEBHOOK" => ~req[r].rules
=============================================================================
