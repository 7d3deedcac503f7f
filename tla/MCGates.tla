------------------------------ MODULE MCGates ------------------------------
(* Instances of Gates for TLC. *)
EXTENDS Gates, TLC

\* The API gate and the write gate; a navigation and a write.
Spacings == (1 :> 1) @@ (2 :> 2)
Lanes == {{1}, {1, 2}}

\* Requests are alike.
Alike == Permutations(Requests)
=============================================================================
