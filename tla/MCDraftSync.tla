----------------------------- MODULE MCDraftSync -----------------------------
(* The terminals and the accounts are interchangeable.                       *)
EXTENDS DraftSync, TLC
Twins == Permutations(Procs) \union Permutations(Owners)
=============================================================================
