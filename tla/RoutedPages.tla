----------------------------- MODULE RoutedPages -----------------------------
(***************************************************************************)
(* The pages of one kind of record with the router between them: a list, a *)
(* detail and an editor, which is also opened without a record.  Links and *)
(* the browser's history lead from any of them to any other.  The router   *)
(* keeps the state of a component that the next URL shows too: its load    *)
(* effect runs again and cancels the load before.                          *)
(***************************************************************************)
EXTENDS PageRequests

CONSTANT Records    \* the records: event rules, articles

Maybe  == Records \cup {None}
Routes == ({"list", "new"} \X {None}) \cup ({"detail", "edit"} \X Records)

Page(route) == IF route[1] = "new" THEN "edit" ELSE route[1]
On(page)    == Page(ui.route) = page
id          == ui.route[2]

LoadCall(route) == [kind |-> "load", of |-> route[2]]

(* A page that goes away takes its answers with it, except that the        *)
(* function that waits for a save, or for the deletion from a detail page, *)
(* still navigates.                                                        *)
Navigates(c) == c.kind = "save" \/ (c.kind = "delete" /\ c.leads)
Still(c)     == IF c # None /\ Navigates(c) THEN [c EXCEPT !.shown = FALSE] ELSE None

(* Faulty: the load effect has no cleanup.                                 *)
KeptWithoutCleanup(same, calls) ==
    [r \in Slots |-> IF same THEN calls[r] ELSE Still(calls[r])]

Kept(same, calls) ==
    [r \in Slots |-> IF ~same THEN Still(calls[r])
                     ELSE IF calls[r] # None /\ calls[r].kind = "load" THEN None
                     ELSE calls[r]]

(* To another URL, with the requests in flight and the first state of the  *)
(* component in case it is another one; it is loading if it loads at all.  *)
Go(route, calls, mounted) ==
    LET same  == Page(route) = Page(ui.route)
        kept  == Kept(same, calls)
        moved == [ui EXCEPT !.route = route, !.applied = FALSE]
    IN IF same /\ route[2] = id
         THEN ui' = [ui EXCEPT !.route = route] /\ req' = calls
         ELSE IF ~mounted.loading
         THEN ui' = (IF same THEN moved ELSE mounted) /\ req' = kept
         ELSE \E r \in Slots :
                /\ kept[r] = None
                /\ req' = [kept EXCEPT ![r] = LoadCall(route)]
                /\ ui' = IF same THEN [moved EXCEPT !.loading = TRUE, !.error = FALSE]
                                 ELSE mounted

(* Links and the browser's history.                                        *)
Visit(route, mounted) == route # ui.route /\ Go(route, req, mounted)
=============================================================================
