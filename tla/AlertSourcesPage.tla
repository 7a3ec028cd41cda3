--------------------------- MODULE AlertSourcesPage ---------------------------
(***************************************************************************)
(* The alert sources (pages/AlertSourcesPage.tsx): a page of connections   *)
(* that also queries the selected, saved one for the alerts of some ticket *)
(* keys.  The keys are typed next to the button and are left out.          *)
(***************************************************************************)
EXTENDS ConnectionPage

QueryIsOffered == ui.selected # None /\ ~ui.querying

handleRunQuery ==
    /\ QueryIsOffered /\ ~hasUnsavedChanges
    /\ Set([querying |-> TRUE])
    /\ Call([kind |-> "query", of |-> ui.selected])

Queried(r) ==
    /\ Has(r, "query")
    /\ Set([found |-> req[r].of, querying |-> FALSE])
    /\ Return(r)

QueryFailed(r) ==
    /\ Has(r, "query")
    /\ Set([found |-> None, querying |-> FALSE])
    /\ Return(r)

SourcesNext ==
    \/ Next \/ handleRunQuery
    \/ \E r \in Slots : Queried(r) \/ QueryFailed(r)

(* As on the page of connections, and no query is waited for in vain.      *)
QueryFlagIsReal == ui.querying => InFlight({"query"})
=============================================================================
