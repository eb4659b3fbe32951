--------------------------- MODULE ReleaseContract ---------------------------
(***************************************************************************)
(* What the release engine promises (release_engine.py:4-6): no message is *)
(* released unless its release condition has been satisfied, and a         *)
(* release is for good.  met says that the condition has been satisfied at *)
(* some instant so far, released that the recipient can read the message.  *)
(***************************************************************************)
VARIABLES met, released

vars == <<met, released>>

Init == met \in BOOLEAN /\ released = FALSE

Satisfy == /\ ~ met
           /\ met' = TRUE
           /\ UNCHANGED released

Release == /\ met
           /\ ~ released
           /\ released' = TRUE
           /\ UNCHANGED met

Next == Satisfy \/ Release

Spec == Init /\ [][Next]_vars

=============================================================================
