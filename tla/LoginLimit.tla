------------------------------ MODULE LoginLimit ------------------------------
(***************************************************************************)
(* The limit on failed logins: services/rate_limit.py and its use in login *)
(* of main.py, for one key (an email address and a client address).  The   *)
(* list of attempts is in memory, and each access to it is under a lock;   *)
(* nothing is held between them, while the password is hashed.             *)
(*                                                                         *)
(* An attempt is known by its age.  Ages beyond the window are one, so     *)
(* time goes on without a bound.                                           *)
(*                                                                         *)
(* Its names are not those of Sessions, the endpoints the limit guards:    *)
(* one module holds the proofs about both.                                 *)
(***************************************************************************)
EXTENDS Integers, Sequences, FiniteSets

CONSTANTS
    Threads,        \* the threads that serve requests
    MaxAttempts,    \* RATE_LIMIT_LOGIN_ATTEMPTS
    Window,         \* RATE_LIMIT_LOGIN_WINDOW_SECONDS
    MaxClears       \* bound of how often the list is lost in one window

ASSUME LimitAssumption ==
    /\ IsFiniteSet(Threads)
    /\ MaxAttempts \in Nat \ {0}
    /\ Window \in Nat \ {0}
    /\ MaxClears \in Nat

VARIABLES
    attempts,       \* _attempts[key], as ages
    decided,        \* history: the ages of the logins of the last window that
                    \* failed on their password or succeeded, in their order
    cleared,        \* history: the ages of the successes and restarts of the
                    \* last window, each of which empties the list
    verifying       \* the threads whose request passed the limit

limitVars == <<attempts, decided, cleared, verifying>>

LimitTypeOK ==
    /\ attempts \in Seq(0..Window)
    /\ decided \in Seq(0..(Window - 1))
    /\ cleared \in Seq(0..(Window - 1)) /\ Len(cleared) <= MaxClears
    /\ verifying \subseteq Threads

LimitInit ==
    /\ attempts = <<>>
    /\ decided = <<>>
    /\ cleared = <<>>
    /\ verifying = {}

-----------------------------------------------------------------------------

(* The attempts of the window, in the order of the list.                   *)
Prune(ages) ==
    LET recent == {i \in DOMAIN ages : ages[i] < Window}
        Rank(i) == Cardinality({k \in recent : k <= i})
    IN  [n \in 1..Cardinality(recent) |-> ages[CHOOSE i \in recent : Rank(i) = n]]

(* Fault: one attempt too many. *)
AdmitOneMore(w) ==
    /\ w \notin verifying
    /\ attempts' = Prune(attempts)
    /\ verifying' = IF Len(attempts') > MaxAttempts THEN verifying
                    ELSE verifying \cup {w}
    /\ UNCHANGED <<decided, cleared>>

(* Fault: a request that is refused counts as the last attempt.            *)
AdmitRenews(w) ==
    LET recent == Prune(attempts)
    IN  /\ w \notin verifying
        /\ attempts' = IF Len(recent) >= MaxAttempts THEN Append(Tail(recent), 0)
                       ELSE recent
        /\ verifying' = IF Len(recent) >= MaxAttempts THEN verifying
                        ELSE verifying \cup {w}
        /\ UNCHANGED <<decided, cleared>>

(* is_rate_limited, and the request goes on unless it is.                  *)
Admit(w) ==
    /\ w \notin verifying
    /\ attempts' = Prune(attempts)
    /\ verifying' = IF Len(attempts') >= MaxAttempts THEN verifying
                    ELSE verifying \cup {w}
    /\ UNCHANGED <<decided, cleared>>

(* Fault: the instant an attempt is forgotten is recorded.                 *)
FailRecordsExpiry(w) ==
    /\ w \in verifying
    /\ attempts' = Append(attempts, - Window)
    /\ decided' = Append(decided, 0)
    /\ verifying' = verifying \ {w}
    /\ UNCHANGED cleared

(* The password is wrong: record_attempt.                                  *)
Fail(w) ==
    /\ w \in verifying
    /\ attempts' = Append(attempts, 0)
    /\ decided' = Append(decided, 0)
    /\ verifying' = verifying \ {w}
    /\ UNCHANGED cleared

(* The password is right: clear_attempts.                                  *)
Succeed(w) ==
    /\ w \in verifying
    /\ Len(cleared) < MaxClears
    /\ attempts' = <<>>
    /\ decided' = Append(decided, 0)
    /\ cleared' = Append(cleared, 0)
    /\ verifying' = verifying \ {w}

(* The account is deactivated, or an error ends the request: the list is   *)
(* neither longer nor cleared.                                             *)
GiveUp(w) ==
    /\ w \in verifying
    /\ verifying' = verifying \ {w}
    /\ UNCHANGED <<attempts, decided, cleared>>

(* The list is lost, as are the requests under way.                        *)
Restart ==
    /\ Len(cleared) < MaxClears
    /\ attempts' = <<>>
    /\ cleared' = Append(cleared, 0)
    /\ verifying' = {}
    /\ UNCHANGED decided

Older(age) == IF age < Window THEN age + 1 ELSE age

Aged(ages) == [i \in DOMAIN ages |-> Older(ages[i])]

(* External: the clock.                                                    *)
Tick == /\ attempts' = Aged(attempts)
        /\ decided' = Prune(Aged(decided))
        /\ cleared' = Prune(Aged(cleared))
        /\ UNCHANGED verifying

LimitNext ==
    \/ \E w \in Threads : Admit(w) \/ Fail(w) \/ Succeed(w) \/ GiveUp(w)
    \/ Restart
    \/ Tick

LimitSpec == LimitInit /\ [][LimitNext]_limitVars

(* Time passes.                                                            *)
Fairness == WF_limitVars(Tick)

-----------------------------------------------------------------------------

LockedOut == Len(Prune(attempts)) >= MaxAttempts

(* A lockout ends by itself, even if somebody goes on trying and requests  *)
(* that were let in before it still fail (is_rate_limited records nothing  *)
(* for a request it refuses).                                              *)
LockoutEnds == LockedOut ~> ~ LockedOut

=============================================================================
