----------------------------- MODULE MCAuditLog -----------------------------
(***************************************************************************)
(* Instances of AuditLog: the workers are interchangeable.                 *)
(* overlapped is a history variable: it tells what the endpoints guarantee *)
(* to requests that are served one by one from the races that void it.     *)
(***************************************************************************)
EXTENDS AuditLog, TLC

VARIABLE overlapped     \* have two requests ever been in flight at once?

WatchedInit == Init /\ overlapped = FALSE

WatchedNext ==
    /\ Next
    /\ overlapped' = (overlapped
          \/ \E v, w \in Workers : v # w /\ request'[v] # Idle /\ request'[w] # Idle)

WatchedSpec == WatchedInit /\ [][WatchedNext]_<<vars, overlapped>>

Interchangeable == Permutations(Workers)

(* Unless two requests overlapped, what log_action wrote verifies, however *)
(* often a request failed between its two transactions (audit.py:2).       *)
ChainVerifiesAlone == overlapped \/ VerifyAuditChain

=============================================================================
