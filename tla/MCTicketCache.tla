----------------------------- MODULE MCTicketCache -----------------------------
(* TicketCache on a small instance; its liveness leaves no symmetry.       *)
EXTENDS TicketCache
=============================================================================
