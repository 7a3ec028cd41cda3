--------------------------- MODULE MCTaskDispatch ---------------------------
(* Small instances of TaskDispatch for TLC.                                *)
EXTENDS TaskDispatch, TLC

Symmetry ==
    Permutations(Events) \cup Permutations(Templates) \cup Permutations(Handlers)
        \cup Permutations(Workers) \cup Permutations(Operators)
=============================================================================
