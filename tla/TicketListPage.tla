---------------------------- MODULE TicketListPage ----------------------------
(***************************************************************************)
(* The ticket list with its filters, pages of rows, pool totals and the    *)
(* drawer of one ticket (pages/TicketListPage.tsx).  Other people change   *)
(* the tickets at any time and an answer may be old when it comes, so an   *)
(* answer holds any content that its question allows.  A ticket is its id  *)
(* and its claim status, the filter stands for all structured filters, and *)
(* the order of the rows is left out.                                      *)
(***************************************************************************)
EXTENDS PageRequests

CONSTANT Tickets

Claims  == {"claimed", "unclaimed"}
Filters == {Claims, {"unclaimed"}}
Rows    == [Tickets -> Claims \cup {None}]

UiType ==
    [items : Rows, filter : Filters, hasMore : BOOLEAN, loading : BOOLEAN,
     loadingMore : BOOLEAN, loadError : BOOLEAN, poolsLoading : BOOLEAN,
     selected : (Tickets \X Claims) \cup {None}, last : Tickets \cup {None}]

(* What the functions that wait for a request still know of it.            *)
Request ==
    [kind : {"list", "pools"}]
    \cup [kind : {"more"}, filter : Filters]
    \cup [kind : {"live"}, of : Tickets]

NoRows    == [t \in Tickets |-> None]
Listed(t) == ui.items[t] # None
Row(t)    == <<t, ui.items[t]>>

listQuery == ui.filter

(* The page that lists all tickets starts with the unclaimed ones.         *)
Init == \E f \in Filters, r \in Slots : \E p \in Slots \ {r} :
    /\ ui = [items |-> NoRows, filter |-> f, hasMore |-> FALSE, loading |-> TRUE,
             loadingMore |-> FALSE, loadError |-> FALSE, poolsLoading |-> TRUE,
             selected |-> None, last |-> None]
    /\ req = [s \in Slots |-> IF s = r THEN [kind |-> "list"]
                              ELSE IF s = p THEN [kind |-> "pools"] ELSE None]

-----------------------------------------------------------------------------
ticketMatchesFilters(claim) == claim \in ui.filter

(* Another filter, term, range or order: a new load takes the next number, *)
(* so the answers to the load and to the next page asked for before count  *)
(* for nothing, and the refresh of the last changed ticket starts again.   *)
ChangeFilter(f) ==
    LET left == Without({"list", "more", "live"})
    IN \E r \in Slots :
         /\ left[r] = None
         /\ \E l \in Slots \ {r} :
              /\ ui.last # None => left[l] = None
              /\ req' = [s \in Slots |->
                           IF s = r THEN [kind |-> "list"]
                           ELSE IF s = l /\ ui.last # None THEN [kind |-> "live", of |-> ui.last]
                           ELSE left[s]]
         /\ Set([filter |-> f, loading |-> TRUE, loadingMore |-> FALSE, loadError |-> FALSE])

ListAnswered(r) ==
    /\ Has(r, "list")
    /\ \E rows \in [Tickets -> listQuery \cup {None}], more \in BOOLEAN :
         LET t == ui.selected[1]
         IN Set([items |-> rows, hasMore |-> more, loading |-> FALSE,
                 selected |-> IF ui.selected = None \/ rows[t] = None THEN None
                              ELSE <<t, rows[t]>>])
    /\ Return(r)

ListFailed(r) ==
    /\ Has(r, "list")
    /\ Set([items |-> NoRows, hasMore |-> FALSE, loading |-> FALSE, loadError |-> TRUE])
    /\ Return(r)

(* Scrolling to the end asks for the rows after those that are there.      *)
handleTableScroll == ~ui.loading /\ ~ui.loadingMore /\ ui.hasMore

loadMoreTickets ==
    /\ handleTableScroll
    /\ Set([loadingMore |-> TRUE, loadError |-> FALSE])
    /\ Call([kind |-> "more", filter |-> listQuery])

MoreAnswered(r) ==
    /\ Has(r, "more")
    /\ \E rows \in [Tickets -> req[r].filter \cup {None}], more \in BOOLEAN :
         Set([items |-> [t \in Tickets |-> IF Listed(t) THEN ui.items[t] ELSE rows[t]],
              hasMore |-> more, loadingMore |-> FALSE])
    /\ Return(r)

MoreFailed(r) ==
    /\ Has(r, "more")
    /\ Set([loadingMore |-> FALSE, loadError |-> TRUE])
    /\ Return(r)

-----------------------------------------------------------------------------
(* A ticket.changed message: its ticket is read again, instead of the one  *)
(* of the message before, and the pool totals are counted again.           *)
EventArrives(t) ==
    LET left == Without({"live"})
    IN \E l \in Slots, p \in Slots :
         /\ l # p /\ left[l] = None /\ left[p] = None
         /\ req' = [left EXCEPT ![l] = [kind |-> "live", of |-> t], ![p] = [kind |-> "pools"]]
         /\ Set([last |-> t, poolsLoading |-> TRUE])

\* Faulty: the drawer stays open on a ticket that was taken out of the list.
ReplaceUnderDrawer(t, claim) ==
    Set([items |-> IF Listed(t) THEN [ui.items EXCEPT ![t] = claim] ELSE ui.items,
         selected |-> IF ui.selected # None /\ ui.selected[1] = t THEN <<t, claim>> ELSE ui.selected])

(* A row is replaced or, when the ticket no longer matches, taken out; a   *)
(* ticket that is not listed is not added.                                 *)
Replace(t, claim) ==
    Set([items |-> IF Listed(t) THEN [ui.items EXCEPT ![t] = claim] ELSE ui.items,
         selected |-> IF ui.selected = None THEN None
                      ELSE IF ui.selected[1] # t THEN ui.selected
                      ELSE IF claim = None THEN None ELSE <<t, claim>>])

LiveAnswered(r) ==
    /\ Has(r, "live")
    /\ \E claim \in Claims :
         Replace(req[r].of, IF ticketMatchesFilters(claim) THEN claim ELSE None)
    /\ Return(r)

(* The ticket may not be read any more, or the request failed.             *)
LiveRefused(r) ==
    /\ Has(r, "live")
    /\ Replace(req[r].of, None) \/ UNCHANGED ui
    /\ Return(r)

loadPoolTotals(r) ==
    /\ Has(r, "pools")
    /\ Set([poolsLoading |-> FALSE])
    /\ Return(r)

-----------------------------------------------------------------------------
RowIsOffered(t) == Listed(t) /\ ~ui.loading

Open(t) ==
    /\ RowIsOffered(t)
    /\ Set([selected |-> Row(t)])
    /\ UNCHANGED req

Close ==
    /\ ui.selected # None
    /\ Set([selected |-> None])
    /\ UNCHANGED req

Next ==
    \/ \E f \in Filters : ChangeFilter(f)
    \/ loadMoreTickets \/ Close
    \/ \E t \in Tickets : EventArrives(t) \/ Open(t)
    \/ \E r \in Slots :
         \/ ListAnswered(r) \/ ListFailed(r) \/ MoreAnswered(r) \/ MoreFailed(r)
         \/ LiveAnswered(r) \/ LiveRefused(r) \/ loadPoolTotals(r)

-----------------------------------------------------------------------------
(* A flag that shows a spinner or stops further loading is set only while  *)
(* a request is in flight whose end clears it.                             *)
FlagsAreReal ==
    /\ ui.loading => InFlight({"list"})
    /\ ui.loadingMore => InFlight({"more"})
    /\ ui.poolsLoading => InFlight({"pools"})

(* When nothing is being loaded, every row matches the filter that is set, *)
(* whatever answers came late.                                             *)
ShownIsAskedFor ==
    ~ui.loading => \A t \in Tickets : Listed(t) => ui.items[t] \in ui.filter

(* The drawer shows what the row of its ticket shows, unless the list      *)
(* could not be loaded.                                                    *)
DrawerShowsTheRow ==
    ui.selected # None /\ ~ui.loading /\ ~ui.loadError =>
        Row(ui.selected[1]) = ui.selected
=============================================================================
