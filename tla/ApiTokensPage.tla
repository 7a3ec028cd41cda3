----------------------------- MODULE ApiTokensPage -----------------------------
(***************************************************************************)
(* The API tokens: the list, the dialog that creates one, the banner that  *)
(* shows its value once, and the revocation (pages/ApiTokensPage.tsx).  A  *)
(* token is its identity.                                                  *)
(***************************************************************************)
EXTENDS PageRequests

CONSTANT Tokens

Maybe == Tokens \cup {None}

UiType ==
    [tokens : [Tokens -> {"active", "revoked", None}], loading : BOOLEAN,
     showModal : BOOLEAN, submitting : BOOLEAN, newlyCreated : Maybe, revoking : Maybe]

(* What the functions that wait for a request still know of it.            *)
Request ==
    [kind : {"list"}, after : {"nothing", "revoke"}]
    \cup [kind : {"list"}, after : {"create"}, shown : BOOLEAN]
    \cup [kind : {"create"}, shown : BOOLEAN]
    \cup [kind : {"revoke"}]

Init ==
    /\ ui = [tokens |-> [t \in Tokens |-> None], loading |-> TRUE, showModal |-> FALSE,
             submitting |-> FALSE, newlyCreated |-> None, revoking |-> None]
    /\ Mounted([kind |-> "list", after |-> "nothing"])

-----------------------------------------------------------------------------
Contents == {ui.tokens} \cup [Tokens -> {"active", "revoked", None}]

Refresh ==
    /\ Set([loading |-> TRUE])
    /\ Call([kind |-> "list", after |-> "nothing"])

load(r) ==
    /\ Has(r, "list") /\ req[r].after = "nothing"
    /\ \E tokens \in Contents : Set([tokens |-> tokens, loading |-> FALSE])
    /\ Return(r)

-----------------------------------------------------------------------------
(* The dialog has a submitting flag of its own; when it is closed the      *)
(* function that waits for its answer goes on without it, and at its end   *)
(* closes the dialog, also one that has been opened since.                 *)

(* Faulty: the dialog that is opened again has the flag of the one before. *)
OpenAgain ==
    /\ ~ui.showModal
    /\ Set([showModal |-> TRUE, submitting |-> \E r \in Slots : Has(r, "create")])
    /\ UNCHANGED req

Open ==
    /\ ~ui.showModal
    /\ Set([showModal |-> TRUE, submitting |-> FALSE])
    /\ UNCHANGED req

Detached(calls) ==
    [r \in Slots |-> IF calls[r] # None /\ "shown" \in DOMAIN calls[r]
                       THEN [calls[r] EXCEPT !.shown = FALSE] ELSE calls[r]]

CloseDialog ==
    /\ ui.showModal
    /\ Set([showModal |-> FALSE, submitting |-> FALSE])
    /\ req' = Detached(req)

handleSubmit ==
    /\ ui.showModal /\ ~ui.submitting
    /\ Set([submitting |-> TRUE])
    /\ Call([kind |-> "create", shown |-> TRUE])

handleCreate(r) ==
    /\ Has(r, "create")
    /\ \E t \in Tokens : Set([newlyCreated |-> t, loading |-> TRUE])
    /\ Await(r, [kind |-> "list", after |-> "create", shown |-> req[r].shown])

CreateFailed(r) ==
    /\ Has(r, "create")
    /\ IF req[r].shown THEN Set([submitting |-> FALSE]) ELSE UNCHANGED ui
    /\ Return(r)

CreateShown(r) ==
    /\ Has(r, "list") /\ req[r].after = "create"
    /\ \E tokens \in Contents :
         Set([tokens |-> tokens, loading |-> FALSE, showModal |-> FALSE, submitting |-> FALSE])
    /\ req' = Detached([req EXCEPT ![r] = None])

Dismiss ==
    /\ ui.newlyCreated # None
    /\ Set([newlyCreated |-> None])
    /\ UNCHANGED req

-----------------------------------------------------------------------------
(* One hook greys out the row that is being revoked.                       *)
RevokeIsOffered(t) == ~ui.loading /\ ui.tokens[t] = "active" /\ ui.revoking # t

handleRevoke(t) ==
    /\ RevokeIsOffered(t)
    /\ Set([revoking |-> t])
    /\ Call([kind |-> "revoke"])

Revoked(r) ==
    /\ Has(r, "revoke")
    /\ Set([loading |-> TRUE])
    /\ Await(r, [kind |-> "list", after |-> "revoke"])

RevokeFailed(r) ==
    /\ Has(r, "revoke")
    /\ Set([revoking |-> None])
    /\ Return(r)

RevokeShown(r) ==
    /\ Has(r, "list") /\ req[r].after = "revoke"
    /\ \E tokens \in Contents :
         Set([tokens |-> tokens, loading |-> FALSE, revoking |-> None])
    /\ Return(r)

Next ==
    \/ Refresh \/ Open \/ CloseDialog \/ handleSubmit \/ Dismiss
    \/ \E t \in Tokens : handleRevoke(t)
    \/ \E r \in Slots :
         \/ load(r) \/ handleCreate(r) \/ CreateFailed(r) \/ CreateShown(r)
         \/ Revoked(r) \/ RevokeFailed(r) \/ RevokeShown(r)

-----------------------------------------------------------------------------
(* A flag that greys a button out or shows a spinner is set only while a   *)
(* request is in flight whose end clears it.                               *)
After(what) == \E r \in Slots : Has(r, "list") /\ req[r].after = what

FlagsAreReal ==
    /\ ui.loading => InFlight({"list"})
    /\ ui.revoking # None => InFlight({"revoke"}) \/ After("revoke")
    /\ ui.submitting => /\ ui.showModal
                        /\ \E r \in Slots : ~Free(r) /\ "shown" \in DOMAIN req[r] /\ req[r].shown
=============================================================================
