-------------------------- MODULE ConfirmationTokens --------------------------
(***************************************************************************)
(* The signed tokens of core/confirmation_tokens.py, with which a trusted  *)
(* contact is to confirm a release, and consume_confirmation_token_nonce   *)
(* of services/release_engine.py, which is to make each good for one use.  *)
(*                                                                         *)
(* No endpoint calls them yet: as the tests do, a caller verifies a token  *)
(* against the message, its contact and its state, then consumes the       *)
(* nonce.  A token cannot be forged; those issued are numbered in the      *)
(* order of their issue, and so are their nonces.                          *)
(***************************************************************************)
EXTENDS Integers, Sequences, FiniteSets

CONSTANTS
    Messages,       \* the messages tokens are issued for
    Contacts,       \* the contacts they are issued to
    States,         \* release states of those messages
    Workers,        \* the threads that serve callers
    MaxSlips,       \* bound of the number of tokens issued
    MaxHonoured,    \* bound of the number of tokens honoured
    MaxRestarts     \* bound of the number of restarts

VARIABLES
    slips,          \* the tokens issued
    state,          \* the release state of each message
    nonces,         \* _consumed_nonces
    honoured,       \* the uses that consumed a nonce, and what they were for
    restarts,       \* how often the server restarted
    call            \* what each worker is doing for its caller

vars == <<slips, state, nonces, honoured, restarts, call>>

ConfirmationClaims ==
    [message : Messages, contact : Contacts, expected : States, expired : BOOLEAN]

(* The state is the one the message is in as its nonce is consumed.        *)
Use == [slip : Nat, message : Messages, contact : Contacts, state : States]

Call == [phase   : {"verified", "unused"},
         slip    : Nat,
         message : Messages,
         contact : Contacts]

Unused == [phase |-> "idle"]

TypeOK ==
    /\ slips \in Seq(ConfirmationClaims)
    /\ state \in [Messages -> States]
    /\ nonces \subseteq Nat
    /\ honoured \in Seq(Use)
    /\ restarts \in 0..MaxRestarts
    /\ call \in [Workers -> Call \cup {Unused}]

Init ==
    /\ slips = <<>>
    /\ state \in [Messages -> States]
    /\ nonces = {}
    /\ honoured = <<>>
    /\ restarts = 0
    /\ call = [w \in Workers |-> Unused]

-----------------------------------------------------------------------------

(* issue_confirmation_token *)
Issue(m, c, s) ==
    /\ Len(slips) < MaxSlips
    /\ slips' = Append(slips, [message |-> m, contact |-> c, expected |-> s,
                               expired |-> FALSE])
    /\ UNCHANGED <<state, nonces, honoured, restarts, call>>

Begin(w, m, c, n) ==
    /\ call[w] = Unused
    /\ call' = [call EXCEPT ![w] =
          [phase |-> "verified", slip |-> n, message |-> m, contact |-> c]]
    /\ UNCHANGED <<slips, state, nonces, honoured, restarts>>

(* Fault: the message may have left the state the token was issued for. *)
VerifyAnyState(w, m, c, n) ==
    /\ ~ slips[n].expired
    /\ slips[n].message = m
    /\ slips[n].contact = c
    /\ Begin(w, m, c, n)

(* verify_confirmation_token *)
Verify(w, m, c, n) ==
    /\ ~ slips[n].expired
    /\ slips[n].message = m
    /\ slips[n].contact = c
    /\ slips[n].expected = state[m]
    /\ Begin(w, m, c, n)

(* Fault: only the database is asked, which never holds the nonce. *)
CheckDatabaseOnly(w) ==
    /\ call[w].phase = "verified"
    /\ call' = [call EXCEPT ![w].phase = "unused"]
    /\ UNCHANGED <<slips, state, nonces, honoured, restarts>>

(* consume_confirmation_token_nonce: the nonce is not in the set, nor in   *)
(* the database, whose confirmations have random nonces of their own ...   *)
CheckNonce(w) ==
    /\ call[w].phase = "verified"
    /\ call[w].slip \notin nonces
    /\ call' = [call EXCEPT ![w].phase = "unused"]
    /\ UNCHANGED <<slips, state, nonces, honoured, restarts>>

(* ... and then it is added to the set.                                    *)
MarkNonce(w) ==
    LET r == call[w]
    IN  /\ r.phase = "unused"
        /\ Len(honoured) < MaxHonoured
        /\ nonces' = nonces \cup {r.slip}
        /\ honoured' = Append(honoured,
              [slip |-> r.slip, message |-> r.message, contact |-> r.contact,
               state |-> state[r.message]])
        /\ call' = [call EXCEPT ![w] = Unused]
        /\ UNCHANGED <<slips, state, restarts>>

(* The nonce was used, or the database does not answer.                    *)
Abort(w) == /\ call[w] # Unused
            /\ call' = [call EXCEPT ![w] = Unused]
            /\ UNCHANGED <<slips, state, nonces, honoured, restarts>>

(* The set of nonces is lost, as are the calls under way; the key that     *)
(* signs the tokens is configured, and stays.                              *)
Restart ==
    /\ restarts < MaxRestarts
    /\ restarts' = restarts + 1
    /\ nonces' = {}
    /\ call' = [w \in Workers |-> Unused]
    /\ UNCHANGED <<slips, state, honoured>>

(* External: the hour of a token passes; the release engine moves on.      *)
Expire(n) == /\ ~ slips[n].expired
             /\ slips' = [slips EXCEPT ![n].expired = TRUE]
             /\ UNCHANGED <<state, nonces, honoured, restarts, call>>

Move(m, s) == /\ s # state[m]
              /\ state' = [state EXCEPT ![m] = s]
              /\ UNCHANGED <<slips, nonces, honoured, restarts, call>>

Serve(w) ==
    \/ \E m \in Messages, c \in Contacts, n \in DOMAIN slips : Verify(w, m, c, n)
    \/ CheckNonce(w)
    \/ MarkNonce(w)
    \/ Abort(w)

Environment ==
    \/ \E m \in Messages, c \in Contacts, s \in States : Issue(m, c, s)
    \/ \E n \in DOMAIN slips : Expire(n)
    \/ \E m \in Messages, s \in States : Move(m, s)

Next ==
    \/ \E w \in Workers : Serve(w)
    \/ Environment
    \/ Restart

Spec == Init /\ [][Next]_vars

-----------------------------------------------------------------------------

UsesOf(n) == {u \in DOMAIN honoured : honoured[u].slip = n}

(* A token is honoured while the message is in the state it was issued for *)
(* (V2_SECURITY.md:126).                                                   *)
InExpectedState ==
    \A u \in DOMAIN honoured : honoured[u].state = slips[honoured[u].slip].expected

=============================================================================
