-------------------------- MODULE MCTicketTimeouts --------------------------
(* A small instance of TicketTimeouts for TLC: TicketTimeouts_timeouts.cfg *)
(* gives the constants.  No symmetry, since liveness is checked.           *)
EXTENDS TicketTimeouts
=============================================================================
