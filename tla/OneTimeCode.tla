---------------------------- MODULE OneTimeCode ----------------------------
(***************************************************************************)
(* What the login relay promises: the code a browser leaves for a link is   *)
(* handed out once at most, while the link lives, and never comes back.     *)
(***************************************************************************)
EXTENDS Naturals

CONSTANT Links

VARIABLES
  box,      \* what the link holds
  handed    \* how many answers have carried its code

Boxes == {"unborn", "empty", "filled", "taken", "closed"}

Init ==
  /\ box = [l \in Links |-> "unborn"]
  /\ handed = [l \in Links |-> 0]

Move(l, from, to) == box[l] \in from /\ box' = [box EXCEPT ![l] = to]

Register(l) == Move(l, {"unborn"}, "empty") /\ UNCHANGED handed
Fill(l) == Move(l, {"empty", "filled"}, "filled") /\ UNCHANGED handed
Close(l) == Move(l, {"empty", "filled", "taken"}, "closed") /\ UNCHANGED handed
Take(l) ==
  /\ Move(l, {"filled"}, "taken")
  /\ handed' = [handed EXCEPT ![l] = @ + 1]

Next == \E l \in Links : Register(l) \/ Fill(l) \/ Close(l) \/ Take(l)

Spec == Init /\ [][Next]_<<box, handed>>
=============================================================================
