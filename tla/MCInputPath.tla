---------------------------- MODULE MCInputPath ----------------------------
(***************************************************************************)
(* InputPath for TLC: a picture of 8 x 4 pixels, as high as the primary    *)
(* screen and wider, shown once with bands at the sides and once,          *)
(* scrolled, with bands above and below, and a pointer that may be on a    *)
(* band.  A user uses the mouse or the keyboard, and of the mouse the      *)
(* buttons that are injected or the one that is not: what the three do to  *)
(* the state is disjoint, but for their order in the queue.                *)
(***************************************************************************)
EXTENDS InputPath

MCPicture == [w |-> 8, h |-> 4]
MCPrimary == [w |-> 6, h |-> 4]
MCBoxes == {[left |-> 0, top |-> 0, w |-> 12, h |-> 4],
            [left |-> 1, top |-> -1, w |-> 4, h |-> 3]}
MCPoints == {[x |-> 0, y |-> 3], [x |-> 5, y |-> 1]}

InUse == held \cup blind \cup {About(queue[i]) : i \in 1 .. Len(queue)}
Untouched(devices) == InUse \cap devices = {}
OneDevice ==
  \/ Untouched(Keys) /\ hostKeys = {} /\ (Untouched({"X1"}) \/ Untouched(Buttons \ {"X1"}))
  \/ Untouched(Buttons \cup {"none"}) /\ hostButtons = {} /\ hostAt = None

MCSpec == Init /\ [][Next /\ OneDevice']_vars
=============================================================================
