---------------------------- MODULE OneTimeTokens ----------------------------
(***************************************************************************)
(* Both kinds of token that are good for one use, in one server.  The two  *)
(* sets of used tokens, _consumed_jtis of core/step_up.py and              *)
(* _consumed_nonces of services/release_engine.py, are memory of the same  *)
(* process: the same threads use them, and a restart loses both at once.   *)
(***************************************************************************)
EXTENDS StepUp

CONSTANTS
    Messages,       \* the messages confirmation tokens are issued for
    Contacts,       \* the contacts they are issued to
    States,         \* release states of those messages
    MaxSlips,       \* bound of the number of confirmation tokens issued
    MaxHonoured     \* bound of the number of them honoured

ASSUME ConfirmingAssumption == MaxSlips \in Nat /\ MaxHonoured \in Nat

VARIABLES
    slips,          \* the confirmation tokens issued
    state,          \* the release state of each message
    nonces,         \* _consumed_nonces
    honoured,       \* the uses that consumed a nonce
    call,           \* the confirmation call each worker is serving
    overlapped      \* history: was a step ever taken beside another request?

Confirming == INSTANCE ConfirmationTokens

stepUpVars == <<tokens, consumed, grants, request>>

confirmingVars == <<slips, state, nonces, honoured, call>>

serverVars == <<stepUpVars, confirmingVars, restarts, overlapped>>

InFlight(w) == request[w] # Idle \/ call[w] # Confirming!Unused

ServerInit == Init /\ Confirming!Init /\ overlapped = FALSE

(* A thread serves one caller at a time.                                   *)
ServeStepUp(w) == call[w] = Confirming!Unused /\ Serve(w) /\ UNCHANGED confirmingVars

ServeConfirming(w) == request[w] = Idle /\ Confirming!Serve(w) /\ UNCHANGED stepUpVars

ServerRestart == Restart /\ Confirming!Restart

(* overlapped guards nothing: it tells what is guaranteed to callers that  *)
(* are served one by one from the races that void it.                      *)
Watch ==
    overlapped' = (overlapped
        \/ \E w \in Workers : InFlight(w) /\ UNCHANGED <<request[w], call[w]>>)

ServerNext ==
    /\ \/ \E w \in Workers : ServeStepUp(w) \/ ServeConfirming(w)
       \/ Environment /\ UNCHANGED confirmingVars
       \/ Confirming!Environment /\ UNCHANGED stepUpVars
       \/ ServerRestart
    /\ Watch

ServerSpec == ServerInit /\ [][ServerNext]_serverVars

-----------------------------------------------------------------------------

(* Both parts have the types they have alone.                              *)
ServerTypeOK == TypeOK /\ Confirming!TypeOK /\ overlapped \in BOOLEAN

(* How many requests may have been in flight at once.                      *)
Width == IF overlapped THEN Cardinality(Workers) ELSE 1

(* A step-up token is spent once in every run of the server by requests    *)
(* served one by one (test_attacker_release.py:307), and at most once per  *)
(* request in flight by others: the set of consumed tokens stops it.       *)
SpendingBounded ==
    \A t \in DOMAIN tokens : Cardinality(PaidWith(t)) <= Width * (restarts + 1)

(* A confirmation token is honoured once in every run of the server for    *)
(* callers served one by one (release_engine.py:37), and at most once per  *)
(* caller in flight otherwise: the set of nonces stops it.                 *)
ReplayBounded ==
    \A n \in DOMAIN slips :
        Cardinality(Confirming!UsesOf(n)) <= Width * (restarts + 1)

(* Unless something happened between its verification and its use, a       *)
(* confirmation token is honoured in the state it names                    *)
(* (V2_SECURITY.md:126).                                                   *)
InExpectedStateAlone == overlapped \/ Confirming!InExpectedState

=============================================================================
