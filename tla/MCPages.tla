------------------------------- MODULE MCPages -------------------------------
(* The two slots that every page has but one are interchangeable, and so   *)
(* are records of which no page asks for the type.                         *)
EXTENDS Pages, TLC
Symmetry == Permutations(Slots) \cup Permutations(Plain)
=============================================================================
