----------------------------- MODULE MCSessions -----------------------------
(***************************************************************************)
(* Instances of Sessions: the workers are interchangeable, and so are the  *)
(* passwords.                                                              *)
(* overlapped is a history variable: it tells what the endpoints guarantee *)
(* to requests that are served one by one from the races that void it.     *)
(***************************************************************************)
EXTENDS Sessions, TLC

VARIABLE overlapped     \* have two requests ever been in flight at once?

WatchedInit == Init /\ overlapped = FALSE

WatchedNext ==
    /\ Next
    /\ overlapped' = (overlapped
          \/ \E v, w \in Workers : v # w /\ request'[v] # Idle /\ request'[w] # Idle)

WatchedSpec == WatchedInit /\ [][WatchedNext]_<<vars, overlapped>>

Interchangeable == Permutations(Workers) \cup Permutations(Passwords)

(* Unless two requests overlapped, whoever can refresh has proved the      *)
(* password the account has now: change_password revokes all sessions      *)
(* (V2_SECURITY.md:125).                                                   *)
SessionsProvePasswordAlone == overlapped \/ SessionsProvePassword

(* Unless two requests overlapped, a login is one session: however often   *)
(* refresh rotates its tokens, one of them is usable (SECURITY.md:9).      *)
OneSessionPerLoginAlone == overlapped \/ OneSessionPerLogin

=============================================================================
