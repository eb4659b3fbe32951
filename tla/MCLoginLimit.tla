---------------------------- MODULE MCLoginLimit ----------------------------
(***************************************************************************)
(* Instances of LoginLimit.                                                *)
(* contended is a history variable: it tells what the endpoints guarantee  *)
(* to requests that are served one by one from the races that void it.     *)
(***************************************************************************)
EXTENDS LoginLimit

VARIABLE contended      \* have two requests ever been in flight at once?

WatchedLimitInit == LimitInit /\ contended = FALSE

WatchedLimitNext ==
    /\ LimitNext
    /\ contended' = (contended \/ Cardinality(verifying') > 1)

WatchedLimitSpec ==
    /\ WatchedLimitInit
    /\ [][WatchedLimitNext]_<<limitVars, contended>>
    /\ Fairness

(* Between two successes or restarts, which empty the list, no more than   *)
(* MaxAttempts logins of a window fail or, as the last of them, succeed    *)
(* (SECURITY.md:10, as rate_limit.py:26 reads it), if requests are served  *)
(* one by one.  Otherwise every request in flight beside the last one may  *)
(* be one more, and nothing else is.                                       *)
LoginsBounded ==
    LET beside == IF contended THEN Cardinality(Threads) - 1 ELSE 0
    IN  Len(decided) <= (MaxAttempts + beside) * (Len(cleared) + 1)

=============================================================================
