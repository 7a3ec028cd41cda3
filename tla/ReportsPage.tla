----------------------------- MODULE ReportsPage -----------------------------
(***************************************************************************)
(* The reports page: a table with filters, a drawer that uploads a report  *)
(* and one that shows, updates, replaces or deletes the selected report    *)
(* (pages/ReportsPage.tsx).  The selection is kept in the page and in the  *)
(* URL, and effects carry it from one to the other; the router moves the   *)
(* URL in a later render.  Other people upload and delete reports, so any  *)
(* set of them may be listed.                                              *)
(***************************************************************************)
EXTENDS PageRequests

CONSTANT Reports    \* the reports the page may meet, each of a ticket of its own

Maybe == Reports \cup {None}
Modes == {"create", "detail", None}
Ops   == {"create", "update", "replace", "delete"}
Hooks == {"items", "sel", "mode", "url", "filter", "ticket"}

UiType ==
    [items : SUBSET Reports, hidden : BOOLEAN, sel : Maybe, mode : Modes, url : Maybe,
     nav : Maybe \cup {"stays"}, due : SUBSET Hooks,
     loading : BOOLEAN, saving : (Ops \X Maybe) \cup {None},
     ticket : BOOLEAN, upload : {None, "its", "old"}, uploadAsks : BOOLEAN,
     context : Maybe, contextAsks : Maybe]

(* What the functions that wait for a request still know of it.            *)
Request ==
    [kind : {"list"}, prefers : Maybe, op : Ops \cup {None}]
    \cup [kind : {"write"}, op : Ops, of : Maybe, url : Maybe]

(* The page as it is after the effects of its first render: no drawer is   *)
(* open yet, so the report that the URL asks for is taken out of the URL,  *)
(* and the load that has been sent prefers it.                             *)
InitialUi(u) ==
    [items |-> {}, hidden |-> FALSE, sel |-> None, mode |-> None, url |-> u,
     nav |-> IF u = None THEN "stays" ELSE None, due |-> {},
     loading |-> TRUE, saving |-> None,
     ticket |-> FALSE, upload |-> None, uploadAsks |-> FALSE,
     context |-> None, contextAsks |-> None]

(* A load looks for the report it prefers, else for the one that was in    *)
(* the URL when it was asked for, else for the selected one.               *)
ListCall(prefers, url, op) ==
    [kind |-> "list", prefers |-> IF prefers = None THEN url ELSE prefers, op |-> op]

Init == \E u \in Maybe :
    /\ ui = InitialUi(u)
    /\ Mounted(ListCall(u, u, None))

-----------------------------------------------------------------------------
(* What a render does after hooks have changed: every effect that depends  *)
(* on one of them runs, all with the values of that render.                *)
filteredItems  == IF ui.hidden THEN {} ELSE ui.items
Due(hooks)     == ui.due \cap hooks # {}
selectedReport == IF ui.sel \in ui.items THEN ui.sel ELSE None

FromUrl      == Due({"items", "url"}) /\ ui.url \in ui.items
IsFilteredOut == /\ Due({"items", "filter", "mode", "sel"})
                 /\ ui.mode = "detail" /\ ui.sel # None /\ ui.sel \notin filteredItems
InUrl        == IF ui.mode = "detail" THEN ui.sel ELSE None

Selected ==
    LET sel  == IF IsFilteredOut THEN None ELSE IF FromUrl THEN ui.url ELSE ui.sel
        mode == IF IsFilteredOut THEN None ELSE IF FromUrl THEN "detail" ELSE ui.mode
    IN [sel |-> sel, mode |-> mode,
        due |-> (IF sel # ui.sel THEN {"sel"} ELSE {})
                \cup (IF mode # ui.mode THEN {"mode"} ELSE {})]

SetSearchParams ==
    IF ~Due({"mode", "url", "sel"}) \/ InUrl = ui.url THEN ui.nav ELSE InUrl

Lookup ==
    IF ~Due({"items", "sel"}) THEN <<ui.contextAsks, ui.context>>
    ELSE <<selectedReport, IF selectedReport = None THEN None ELSE ui.context>>

UploadLookup ==
    IF ~Due({"ticket", "mode"}) THEN <<ui.uploadAsks, ui.upload>>
    ELSE IF ui.mode # "create" THEN <<FALSE, ui.upload>>
    ELSE <<ui.ticket, IF ui.ticket THEN ui.upload ELSE None>>

Effects ==
    /\ ui.due # {}
    /\ Set([sel |-> Selected.sel, mode |-> Selected.mode, due |-> Selected.due,
            nav |-> SetSearchParams,
            contextAsks |-> Lookup[1], context |-> Lookup[2],
            uploadAsks |-> UploadLookup[1], upload |-> UploadLookup[2]])
    /\ UNCHANGED req

(* No event comes before the effects and the renders they cause are done;  *)
(* the router brings the URL that was asked for as an event of its own.    *)
Settled == ui.due = {}

Routed ==
    /\ Settled /\ ui.nav # "stays"
    /\ Set([nav |-> "stays", url |-> ui.nav, due |-> {"url"}])
    /\ UNCHANGED req

-----------------------------------------------------------------------------
(* The list, with what the function that asked for it does next.           *)
Refresh ==
    /\ Settled
    /\ Set([loading |-> TRUE])
    /\ Call(ListCall(ui.sel, ui.url, None))

loadReports(r, prefers) ==
    Await(r, ListCall(prefers, req[r].url, req[r].op))

Ends(r) == IF req[r].op = None THEN ui.saving ELSE None

ListAnswered(r) ==
    /\ Settled /\ Has(r, "list")
    /\ LET target == IF req[r].prefers # None THEN req[r].prefers ELSE ui.sel
           created == req[r].op = "create"
       IN \E items \in SUBSET Reports :
          \E sel \in IF target \in items THEN {target} ELSE IF items = {} THEN {None} ELSE items :
            Set([items |-> items, sel |-> sel, loading |-> FALSE, saving |-> Ends(r),
                 mode |-> IF created THEN "detail" ELSE ui.mode,
                 due |-> {"items", "sel"} \cup (IF created THEN {"mode"} ELSE {})])
    /\ Return(r)

ListFailed(r) ==
    /\ Settled /\ Has(r, "list")
    /\ Set([loading |-> FALSE, saving |-> Ends(r),
            mode |-> IF req[r].op = "create" THEN "detail" ELSE ui.mode,
            due |-> (IF req[r].op = "create" THEN {"mode"} ELSE {})])
    /\ Return(r)

-----------------------------------------------------------------------------
(* Filters and drawers.                                                    *)
ChangeFilter ==
    /\ Settled
    /\ Set([hidden |-> ~ui.hidden, due |-> {"filter"}])
    /\ UNCHANGED req

handleOpenCreateDrawer ==
    /\ Settled
    /\ Set([ticket |-> FALSE, upload |-> None, mode |-> "create",
            due |-> {"ticket", "mode"}])
    /\ UNCHANGED req

handleOpenDetailDrawer(i) ==
    /\ Settled /\ i \in filteredItems /\ ~ui.loading
    /\ Set([sel |-> i, mode |-> "detail", due |-> {"sel", "mode"}])
    /\ UNCHANGED req

(* Escape, the cross, the button and the click beside the drawer.          *)
CloseDrawer ==
    /\ Settled /\ ui.mode # None
    /\ Set([mode |-> None, due |-> {"mode"}])
    /\ UNCHANGED req

TypeTicket(given) ==
    /\ Settled /\ ui.mode = "create" /\ (given \/ ui.ticket)
    /\ Set([ticket |-> given, upload |-> IF ui.upload = None THEN None ELSE "old",
            due |-> {"ticket"}])
    /\ UNCHANGED req

ContextAnswered ==
    /\ Settled /\ ui.contextAsks # None
    /\ \E c \in {ui.contextAsks, None} : \* None: the lookup failed
         Set([context |-> c, contextAsks |-> None])
    /\ UNCHANGED req

UploadAnswered ==
    /\ Settled /\ ui.uploadAsks
    /\ \E c \in {"its", None} :
         Set([upload |-> c, uploadAsks |-> FALSE])
    /\ UNCHANGED req

-----------------------------------------------------------------------------
(* Writes.  One hook says which write the page waits for, and the end of   *)
(* any write clears it.                                                    *)
DetailIsOffered == ui.mode = "detail" /\ selectedReport # None

Write(op, i) ==
    /\ Settled
    /\ Set([saving |-> <<op, i>>])
    /\ Call([kind |-> "write", op |-> op, of |-> i,
             url |-> IF op = "delete" THEN ui.url ELSE None])

handleCreate ==
    /\ ui.mode = "create" /\ ui.ticket /\ ui.saving # <<"create", None>>
    /\ Write("create", None)

handleUpdate == DetailIsOffered /\ ui.saving # <<"update", ui.sel>> /\ Write("update", ui.sel)

handleReplaceFile == DetailIsOffered /\ Write("replace", ui.sel)

handleDelete == DetailIsOffered /\ ui.saving # <<"delete", ui.sel>> /\ Write("delete", ui.sel)

Written(r) ==
    /\ Settled /\ Has(r, "write")
    /\ CASE req[r].op = "create" ->
              /\ Set([loading |-> TRUE, ticket |-> FALSE, upload |-> None,
                      due |-> {"ticket"}])
              /\ \E i \in Reports : loadReports(r, i)
         [] req[r].op = "delete" ->
              /\ Set([loading |-> TRUE, mode |-> None, sel |-> None,
                      due |-> {"mode", "sel"}])
              /\ loadReports(r, None)
         [] OTHER -> Set([loading |-> TRUE]) /\ loadReports(r, req[r].of)

WriteFailed(r) ==
    /\ Settled /\ Has(r, "write")
    /\ Set([saving |-> None])
    /\ Return(r)

Next ==
    \/ Effects \/ Routed \/ Refresh
    \/ ChangeFilter
    \/ \E i \in Reports : handleOpenDetailDrawer(i)
    \/ handleOpenCreateDrawer \/ CloseDrawer
    \/ \E given \in BOOLEAN : TypeTicket(given)
    \/ ContextAnswered \/ UploadAnswered
    \/ handleCreate \/ handleUpdate \/ handleReplaceFile \/ handleDelete
    \/ \E r \in Slots : ListAnswered(r) \/ ListFailed(r) \/ Written(r) \/ WriteFailed(r)

-----------------------------------------------------------------------------
(* A flag that greys a button out or shows a spinner is set only while a   *)
(* request is in flight whose end clears it.                               *)
Waits(r) == ~Free(r) /\ \/ req[r].kind = "write"
                        \/ req[r].op # None

FlagsAreReal ==
    /\ ui.loading => InFlight({"list"})
    /\ ui.saving # None => \E r \in Slots : Waits(r) /\ req[r].op = ui.saving[1]

(* Once the effects of a change have run and nothing is being looked up,   *)
(* the templates that a drawer offers are those of its ticket.             *)
ShownIsAskedFor ==
    Settled =>
        /\ ui.context # None /\ ui.contextAsks = None => ui.context = selectedReport
        /\ ui.mode = "create" /\ ui.upload # None /\ ~ui.uploadAsks => ui.upload = "its"
=============================================================================
