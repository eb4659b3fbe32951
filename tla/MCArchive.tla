------------------------------ MODULE MCArchive ------------------------------
(***************************************************************************)
(* Instances of Archive: the demo user, whose rows are seeded, and another *)
(* one; the titles, the texts and the workers are interchangeable.         *)
(* overlapped is a history variable: it tells what the endpoints guarantee *)
(* to requests that are served one by one from the races that void it.     *)
(***************************************************************************)
EXTENDS Archive, TLC

VARIABLE overlapped     \* has a step been taken beside another's request?

WatchedInit == Init /\ overlapped = FALSE

WatchedNext ==
    /\ Next
    /\ overlapped' = (overlapped
          \/ \E w \in Workers : request[w] # Idle /\ request'[w] = request[w])

WatchedSpec == WatchedInit /\ [][WatchedNext]_<<vars, overlapped>>

Interchangeable == Permutations(Workers) \cup Permutations(Titles) \cup Permutations(Texts)

(* Unless two requests overlapped, a listing shows the title committed     *)
(* last: no change of update_memory is lost.                               *)
LastTitleShowsAlone == overlapped \/ LastTitleShows

(* Unless two requests overlapped, the deletion of a contact leaves no     *)
(* message to them (the relationship at models.py:154).                    *)
LeftToNobodyAlone == [][overlapped' \/ LeftToNobody]_<<vars, overlapped>>

=============================================================================
