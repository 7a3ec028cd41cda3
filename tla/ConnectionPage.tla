---------------------------- MODULE ConnectionPage ----------------------------
(***************************************************************************)
(* A page of saved connections: a table, and a panel that creates or edits *)
(* one and tests the saved one.  The mail senders (pages/MailSendersPage   *)
(* .tsx) are this; the alert sources add a query.  A connection is its     *)
(* identity, its settings and its status.  Other administrators change the *)
(* connections, so a load brings any content.                              *)
(***************************************************************************)
EXTENDS PageRequests

CONSTANTS
    Connections,
    Settings    \* what all fields but the status of a connection may be

Statuses == {"ENABLED", "DISABLED"}
Maybe    == Connections \cup {None}
Saves    == Settings \X Statuses
Contents == [Connections -> Saves \cup {None}]
Forms    == [of : Maybe, value : Saves]

defaultForm == [of |-> None, value |-> <<CHOOSE s \in Settings : TRUE, "ENABLED">>]

InitialUi ==
    [items |-> [c \in Connections |-> None], loading |-> TRUE, saving |-> FALSE,
     testing |-> FALSE, querying |-> FALSE, selected |-> None, panelMode |-> "create",
     action |-> None, test |-> None, found |-> None, form |-> defaultForm]

UiType ==
    [items : Contents, loading : BOOLEAN, saving : BOOLEAN, testing : BOOLEAN,
     querying : BOOLEAN, selected : Maybe, panelMode : {"create", "edit"},
     action : Maybe, test : Maybe, found : Maybe, form : Forms]

(* What the functions that wait for a request still know of it.            *)
Request ==
    [kind : {"page"}, after : {"nothing", "test"}]
    \cup [kind : {"page"}, after : {"save"}, form : [of : Connections, value : Saves]]
    \cup [kind : {"save"}, of : Maybe, form : Forms]
    \cup [kind : {"toggle"}, of : Connections, selected : Maybe, to : Saves]
    \cup [kind : {"test", "query"}, of : Connections]

Init ==
    /\ ui = InitialUi
    /\ Mounted([kind |-> "page", after |-> "nothing"])

-----------------------------------------------------------------------------
(* The table.                                                              *)
Refresh ==
    /\ Set([loading |-> TRUE])
    /\ Call([kind |-> "page", after |-> "nothing"])

loadPage(r) ==
    /\ Has(r, "page") /\ req[r].after = "nothing"
    /\ \E items \in Contents \cup {ui.items} : Set([items |-> items, loading |-> FALSE])
    /\ Return(r)

RowIsOffered(c) == ~ui.loading /\ ui.items[c] # None

Panel(form) ==
    [panelMode |-> IF form.of = None THEN "create" ELSE "edit", selected |-> form.of,
     form |-> form, test |-> None, found |-> None]

openCreatePanel == Set(Panel(defaultForm)) /\ UNCHANGED req

openEditPanel(c) ==
    /\ RowIsOffered(c)
    /\ Set(Panel([of |-> c, value |-> ui.items[c]]))
    /\ UNCHANGED req

-----------------------------------------------------------------------------
(* The form.                                                               *)
Edit(value) ==
    /\ value # ui.form.value
    /\ Set([form |-> [ui.form EXCEPT !.value = value]])
    /\ UNCHANGED req

hasUnsavedChanges ==
    /\ ui.panelMode = "edit" /\ ui.items[ui.selected] # None
    /\ ui.form.value # ui.items[ui.selected]

handleSave ==
    /\ ~ui.saving
    /\ Set([saving |-> TRUE])
    /\ Call([kind |-> "save", of |-> ui.selected, form |-> ui.form])

(* The page is read again before the panel shows what was saved.           *)
Saved(r) ==
    /\ Has(r, "save")
    /\ Set([loading |-> TRUE])
    /\ \E c \in {d \in Connections : req[r].of \in {None, d}} :
         Await(r, [kind |-> "page", after |-> "save",
                   form |-> [of |-> c, value |-> req[r].form.value]])

SaveFailed(r) ==
    /\ Has(r, "save")
    /\ Set([saving |-> FALSE])
    /\ Return(r)

SaveShown(r) ==
    /\ Has(r, "page") /\ req[r].after = "save"
    /\ \E items \in Contents \cup {ui.items} :
         Set([items |-> items, loading |-> FALSE, saving |-> FALSE, panelMode |-> "edit",
              selected |-> req[r].form.of, form |-> req[r].form, test |-> None, found |-> None])
    /\ Return(r)

-----------------------------------------------------------------------------
(* One hook greys out the row whose status is being changed; the answer    *)
(* also changes the form, if its connection was selected when the button   *)
(* was pressed.                                                            *)
handleToggleStatus(c) ==
    /\ RowIsOffered(c) /\ ui.action # c
    /\ Set([action |-> c])
    /\ Call([kind |-> "toggle", of |-> c, selected |-> ui.selected,
             to |-> <<ui.items[c][1], IF ui.items[c][2] = "ENABLED" THEN "DISABLED"
                                                                    ELSE "ENABLED">>])

Toggled(r) ==
    /\ Has(r, "toggle")
    /\ LET c == req[r].of
       IN \E s \in Settings :   \* as the server has them now
            LET to == <<s, req[r].to[2]>>
            IN Set([action |-> None,
                    items |-> IF ui.items[c] = None THEN ui.items
                              ELSE [ui.items EXCEPT ![c] = to],
                    form |-> IF req[r].selected # c THEN ui.form
                             ELSE [ui.form EXCEPT !.value[2] = to[2]]])
    /\ Return(r)

ToggleFailed(r) ==
    /\ Has(r, "toggle")
    /\ Set([action |-> None])
    /\ Return(r)

-----------------------------------------------------------------------------
(* The test of the saved connection: the result, then the page again.      *)
TestIsOffered == ui.panelMode = "edit" /\ ~ui.testing

handleTest ==
    /\ TestIsOffered /\ ~hasUnsavedChanges
    /\ Set([testing |-> TRUE, test |-> None])
    /\ Call([kind |-> "test", of |-> ui.selected])

Tested(r) ==
    /\ Has(r, "test")
    /\ Set([test |-> req[r].of, loading |-> TRUE])
    /\ Await(r, [kind |-> "page", after |-> "test"])

TestFailed(r) ==
    /\ Has(r, "test")
    /\ Set([testing |-> FALSE])
    /\ Return(r)

TestShown(r) ==
    /\ Has(r, "page") /\ req[r].after = "test"
    /\ \E items \in Contents \cup {ui.items} :
         Set([items |-> items, loading |-> FALSE, testing |-> FALSE])
    /\ Return(r)

Next ==
    \/ Refresh \/ openCreatePanel \/ handleSave \/ handleTest
    \/ \E c \in Connections : openEditPanel(c) \/ handleToggleStatus(c)
    \/ \E value \in Saves : Edit(value)
    \/ \E r \in Slots :
         \/ loadPage(r) \/ Saved(r) \/ SaveFailed(r) \/ SaveShown(r)
         \/ Toggled(r) \/ ToggleFailed(r)
         \/ Tested(r) \/ TestFailed(r) \/ TestShown(r)

-----------------------------------------------------------------------------
(* A flag that greys a button out or shows a spinner is set only while a   *)
(* request is in flight whose end clears it.                               *)
After(what) == \E r \in Slots : Has(r, "page") /\ req[r].after = what

FlagsAreReal ==
    /\ ui.loading => InFlight({"page"})
    /\ ui.saving => InFlight({"save"}) \/ After("save")
    /\ ui.testing => InFlight({"test"}) \/ After("test")
    /\ ui.action # None => InFlight({"toggle"})

(* The panel's form is the selected connection's, and a save goes to the   *)
(* connection whose form it carries, whatever answers come late.           *)
FormIsOfTheRecord ==
    /\ ui.form.of = ui.selected /\ (ui.panelMode = "edit" <=> ui.selected # None)
    /\ \A r \in OfKind("save") : req[r].form.of = req[r].of
=============================================================================
