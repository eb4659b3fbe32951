-------------------------------- MODULE StepUp --------------------------------
(***************************************************************************)
(* Step-up authentication: the signed tokens of core/step_up.py, the set   *)
(* of consumed ones it keeps in memory, and the two endpoints of main.py   *)
(* that ask for one, create_family and release_legacy_message, as          *)
(* concurrent requests of a server that may restart.                       *)
(*                                                                         *)
(* A token cannot be forged; the ones issued are numbered in the order of  *)
(* their issue.  What a request does besides spending a token is left out. *)
(***************************************************************************)
EXTENDS Integers, Sequences, FiniteSets

CONSTANTS
    Users,          \* the users of the server
    Workers,        \* the threads that serve requests
    MaxTokens,      \* bound of the number of tokens issued
    MaxGrants,      \* bound of the number of requests granted
    MaxRestarts     \* bound of the number of restarts

ASSUME StepUpAssumption ==
    /\ IsFiniteSet(Workers)
    /\ MaxTokens \in Nat
    /\ MaxGrants \in Nat
    /\ MaxRestarts \in Nat

VARIABLES
    tokens,         \* the tokens issued
    consumed,       \* _consumed_jtis
    grants,         \* the requests committed that a token paid for
    restarts,       \* how often the server restarted
    request         \* the request each worker is serving

vars == <<tokens, consumed, grants, restarts, request>>

(* The scopes create_family and release_legacy_message ask for;            *)
(* "password_change" is offered, and nothing asks for it.                  *)
Required == {"release_finalize", "beneficiary_change", "trusted_contact_change",
             "sensitive"}

Scope == Required \cup {"password_change"}

Token == [sub : Users, scope : Scope, expired : BOOLEAN]

Grant == [user : Users, scope : Required, token : Nat]

(* verified: the token was found good; consumed: it is marked as used, and *)
(* only the commit is left.                                                *)
Request == [user  : Users,
            scope : Required,
            token : Nat,
            phase : {"verified", "consumed"}]

Idle == [phase |-> "idle"]

TypeOK ==
    /\ tokens \in Seq(Token)
    /\ consumed \subseteq Nat
    /\ grants \in Seq(Grant)
    /\ restarts \in 0..MaxRestarts
    /\ request \in [Workers -> Request \cup {Idle}]

Init ==
    /\ tokens = <<>>
    /\ consumed = {}
    /\ grants = <<>>
    /\ restarts = 0
    /\ request = [w \in Workers |-> Idle]

-----------------------------------------------------------------------------

(* step_up: the user has given the password again.                         *)
Issue(u, scope) ==
    /\ Len(tokens) < MaxTokens
    /\ tokens' = Append(tokens, [sub |-> u, scope |-> scope, expired |-> FALSE])
    /\ UNCHANGED <<consumed, grants, restarts, request>>

Covers(scope, required) == scope = required \/ scope = "sensitive"

Begin(w, u, scope, t) ==
    /\ request[w] = Idle
    /\ request' = [request EXCEPT ![w] =
          [user |-> u, scope |-> scope, token |-> t, phase |-> "verified"]]
    /\ UNCHANGED <<tokens, consumed, grants, restarts>>

(* Fault: any scope will do. *)
VerifyAnyScope(w, u, scope, t) ==
    /\ t \in DOMAIN tokens
    /\ ~ tokens[t].expired
    /\ tokens[t].sub = u
    /\ t \notin consumed
    /\ Begin(w, u, scope, t)

(* Fault: the consumed tokens are not consulted. *)
VerifyConsumed(w, u, scope, t) ==
    /\ t \in DOMAIN tokens
    /\ ~ tokens[t].expired
    /\ tokens[t].sub = u
    /\ Covers(tokens[t].scope, scope)
    /\ Begin(w, u, scope, t)

(* Fault: the scope is the one the token was issued for.                   *)
VerifyTrustsScope(w, u, scope, t) ==
    /\ t \in DOMAIN tokens
    /\ ~ tokens[t].expired
    /\ tokens[t].sub = u
    /\ t \notin consumed
    /\ Begin(w, u, tokens[t].scope, t)

(* verify_step_up_token *)
Verify(w, u, scope, t) ==
    /\ t \in DOMAIN tokens
    /\ ~ tokens[t].expired
    /\ tokens[t].sub = u
    /\ t \notin consumed
    /\ Covers(tokens[t].scope, scope)
    /\ Begin(w, u, scope, t)

(* consume_step_up_token.  It decodes the token once more, and does        *)
(* nothing for one that has expired since it was verified.                 *)
Consume(w) ==
    LET t == request[w].token
    IN  /\ request[w].phase = "verified"
        /\ consumed' = IF tokens[t].expired THEN consumed ELSE consumed \cup {t}
        /\ request' = [request EXCEPT ![w].phase = "consumed"]
        /\ UNCHANGED <<tokens, grants, restarts>>

(* db.commit(), after the token was consumed.                              *)
Commit(w) ==
    LET r == request[w]
    IN  /\ r.phase = "consumed"
        /\ Len(grants) < MaxGrants
        /\ grants' = Append(grants, [user |-> r.user, scope |-> r.scope,
                                     token |-> r.token])
        /\ request' = [request EXCEPT ![w] = Idle]
        /\ UNCHANGED <<tokens, consumed, restarts>>

(* The release engine refuses, or the commit fails.                        *)
Abort(w) == /\ request[w] # Idle
            /\ request' = [request EXCEPT ![w] = Idle]
            /\ UNCHANGED <<tokens, consumed, grants, restarts>>

(* The set of consumed tokens is lost, as are the requests under way; the  *)
(* key that signs the tokens is configured, and stays.                     *)
Restart ==
    /\ restarts < MaxRestarts
    /\ restarts' = restarts + 1
    /\ consumed' = {}
    /\ request' = [w \in Workers |-> Idle]
    /\ UNCHANGED <<tokens, grants>>

(* External: the five minutes of a token pass.                             *)
Expire(t) == /\ ~ tokens[t].expired
             /\ tokens' = [tokens EXCEPT ![t].expired = TRUE]
             /\ UNCHANGED <<consumed, grants, restarts, request>>

Serve(w) ==
    \/ \E u \in Users, scope \in Required, t \in DOMAIN tokens :
          Verify(w, u, scope, t)
    \/ Consume(w)
    \/ Commit(w)
    \/ Abort(w)

Environment ==
    \/ \E u \in Users, scope \in Scope : Issue(u, scope)
    \/ \E t \in DOMAIN tokens : Expire(t)

Next ==
    \/ \E w \in Workers : Serve(w)
    \/ Environment
    \/ Restart

Spec == Init /\ [][Next]_vars

-----------------------------------------------------------------------------

(* Whatever the interleaving and however often the server restarts, a      *)
(* committed request was paid for by the user who made it, with a token of *)
(* its scope or of the general one (V2_SECURITY.md:124).                   *)
PaidByOwnToken ==
    \A g \in DOMAIN grants :
        LET t == grants[g].token
        IN  /\ t \in DOMAIN tokens
            /\ tokens[t].sub = grants[g].user
            /\ Covers(tokens[t].scope, grants[g].scope)

PaidWith(t) == {g \in DOMAIN grants : grants[g].token = t}

=============================================================================
