----------------------------- MODULE PageRequests -----------------------------
(***************************************************************************)
(* What the pages of the single-page application share: one React          *)
(* component that is mounted, with the state its hooks keep, and the       *)
(* requests it has in flight.  Requests are answered or lost in any order; *)
(* what happens then is the rest of the async function that waits, so a    *)
(* request is a record of what that function still knows.                  *)
(***************************************************************************)
EXTENDS Naturals, FiniteSets

CONSTANTS
    Slots,  \* slots for the requests in flight
    None    \* no request, nothing selected, nothing shown

VARIABLES
    ui,     \* the state of the page, a record of its hooks
    req     \* per slot, the request in it or None

Free(r) == req[r] = None

(* The requests of one kind that are in flight, one request in a free      *)
(* slot, and the two ends of a request: the function returns, or goes on   *)
(* to its next await.                                                      *)
OfKind(k)      == {r \in Slots : ~Free(r) /\ req[r].kind = k}
InFlight(K)    == \E r \in Slots : ~Free(r) /\ req[r].kind \in K
Call(c)        == \E r \in Slots : Free(r) /\ req' = [req EXCEPT ![r] = c]
Return(r)      == req' = [req EXCEPT ![r] = None]
Await(r, c)    == req' = [req EXCEPT ![r] = c]

(* An effect that runs again: its cleanup makes the answer of the request  *)
(* before ignored, so that request is gone, and the new one is sent.       *)
Without(K) == [r \in Slots |-> IF ~Free(r) /\ req[r].kind \in K THEN None ELSE req[r]]
Cancel(K)  == req' = Without(K)
Again(c)   == \E r \in Slots :
                Without({c.kind})[r] = None /\ req' = [Without({c.kind}) EXCEPT ![r] = c]

(* One request at the start.                                               *)
Mounted(c) == \E r \in Slots : req = [s \in Slots |-> IF s = r THEN c ELSE None]

(* The state with some hooks set.                                          *)
Set(changes) == ui' = [f \in DOMAIN ui |-> IF f \in DOMAIN changes THEN changes[f] ELSE ui[f]]
Has(r, k)    == ~Free(r) /\ req[r].kind = k
=============================================================================
