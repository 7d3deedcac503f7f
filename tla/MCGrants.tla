------------------------------ MODULE MCGrants ------------------------------
(* Instances of Grants for TLC. *)
EXTENDS Grants, TLC

\* Terminals are alike, and so are members.
Alike == Permutations(Terminals) \cup Permutations(Accounts)

\* Bound: a terminal exits only in the middle of a refresh or a recovery.
ExitsHalfway ==
  \A p \in Terminals :
    (app[p].on /\ ~app'[p].on) =>
      \/ \E c \in {Main(p), Candidate(p)} : client[c].at # "idle"
      \/ app[p].stage = "verified"
=============================================================================
