---------------------------- MODULE MCAuthSession ----------------------------
(* A small instance of AuthSession for TLC.  Calls, request handlers and   *)
(* timer ticks are interchangeable, and only safety is checked.            *)
EXTENDS AuthSession, TLC

Symmetry == Permutations(Slots) \cup Permutations(Handlers) \cup Permutations(Ticks)
=============================================================================
