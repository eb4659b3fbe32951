------------------------------- MODULE Sessions -------------------------------
(***************************************************************************)
(* The account endpoints of main.py: register, login, refresh, logout and  *)
(* change-password, as concurrent requests on the one row of users and the *)
(* rows of refresh_tokens of one email address.  Accounts share nothing    *)
(* but the uniqueness of the address.                                      *)
(*                                                                         *)
(* Each request is a worker with a database session of its own.  It reads  *)
(* what is committed, and writes at its commits only (database.py).  The   *)
(* bearer of an access token is whoever holds one: access tokens are not   *)
(* stored and nothing but time ends them, so they guard nothing here.  No  *)
(* endpoint deactivates an account; is_active is left out.                 *)
(***************************************************************************)
EXTENDS Integers, Sequences, FiniteSets

CONSTANTS
    Passwords,      \* the passwords somebody may try or choose
    NoPassword,     \* the address has no account
    Workers,        \* the threads that serve requests
    MaxTokens,      \* bound of the number of refresh tokens
    MaxExpired      \* bound of the number of those that expire

ASSUME SessionsAssumption ==
    /\ NoPassword \notin Passwords
    /\ IsFiniteSet(Workers)
    /\ MaxTokens \in Nat
    /\ MaxExpired \in Nat

VARIABLES
    password,       \* the password of users.password_hash
    tokens,         \* the rows of refresh_tokens, in the order of their commits
    request         \* the request each worker is serving

vars == <<password, tokens, request>>

(* revoked is revoked_at; expired, whether expires_at has passed.  The     *)
(* rotation that issued a token is not stored, these three tell its        *)
(* history: from is the token it replaced, or 0; login the first token of  *)
(* the session, however often it was rotated since; and proof the password *)
(* the session began with.                                                 *)
Token == [from    : Nat,
          login   : Nat,
          proof   : Passwords,
          revoked : BOOLEAN,
          expired : BOOLEAN]

NewToken(from, login, proof) ==
    [from |-> from, login |-> login, proof |-> proof,
     revoked |-> FALSE, expired |-> FALSE]

Operation == {"register", "login", "refresh", "change_password"}

(* checked: the password was right; ready: only a commit is left; issuing: *)
(* the account is committed, its first token is not.                       *)
Phase == {"checked", "ready", "issuing"}

Request == [op     : Operation,
            phase  : Phase,
            proof  : Passwords,    \* the password the request came with
            new    : Passwords,    \* change_password: the one it leaves
            token  : Nat,          \* refresh: the token it presents
            loaded : SUBSET Nat]   \* change_password: the tokens to revoke

Idle == [phase |-> "idle"]

TypeOK ==
    /\ password \in Passwords \cup {NoPassword}
    /\ tokens \in Seq(Token)
    /\ request \in [Workers -> Request \cup {Idle}]

Init ==
    /\ password = NoPassword
    /\ tokens = <<>>
    /\ request = [w \in Workers |-> Idle]

-----------------------------------------------------------------------------
(* What the queries find. *)

Unrevoked == {i \in DOMAIN tokens : ~ tokens[i].revoked}

Expired == {i \in DOMAIN tokens : tokens[i].expired}

Usable == Unrevoked \ Expired

At(w, op, phase) == request[w].phase = phase /\ request[w].op = op

Begin(w, op, phase, proof, new, token) ==
    /\ request[w] = Idle
    /\ request' = [request EXCEPT ![w] =
          [op |-> op, phase |-> phase, proof |-> proof, new |-> new,
           token |-> token, loaded |-> {}]]
    /\ UNCHANGED <<password, tokens>>

(* Fault: the password is taken from the account, not from the request.    *)
BeginRegisterEmpty(w, p) ==
    /\ password = NoPassword
    /\ Begin(w, "register", "ready", password, p, 0)

(* register: the address is not taken.                                     *)
BeginRegister(w, p) ==
    /\ password = NoPassword
    /\ Begin(w, "register", "ready", p, p, 0)

(* login: the password is verified.                                        *)
BeginLogin(w, p) ==
    /\ password = p
    /\ Begin(w, "login", "ready", p, p, 0)

(* Fault: a revoked token is still accepted. *)
BeginRefreshRevoked(w, i) ==
    /\ i \in DOMAIN tokens
    /\ ~ tokens[i].expired
    /\ Begin(w, "refresh", "ready", tokens[i].proof, tokens[i].proof, i)

(* refresh: the token presented is neither revoked nor expired.            *)
BeginRefresh(w, i) ==
    /\ i \in Usable
    /\ Begin(w, "refresh", "ready", tokens[i].proof, tokens[i].proof, i)

(* change_password: the current password is verified ...                   *)
BeginChange(w, p, new) ==
    /\ password = p
    /\ Begin(w, "change_password", "checked", p, new, 0)

(* ... and the tokens to revoke are loaded.                                *)
LoadTokens(w) ==
    /\ At(w, "change_password", "checked")
    /\ request' = [request EXCEPT ![w].phase = "ready", ![w].loaded = Unrevoked]
    /\ UNCHANGED <<password, tokens>>

-----------------------------------------------------------------------------
(* Commits. *)

Done(w) == request' = [request EXCEPT ![w] = Idle]

RevokeAll(rows, ids) ==
    [i \in DOMAIN rows |->
        IF i \in ids THEN [rows[i] EXCEPT !.revoked = TRUE] ELSE rows[i]]

(* The session a new token belongs to: that of the token it replaces, or   *)
(* one of its own.                                                         *)
LoginOf(from) == IF from \in DOMAIN tokens THEN tokens[from].login ELSE Len(tokens) + 1

Issue(w, from) ==
    /\ Len(tokens) < MaxTokens
    /\ tokens' = Append(RevokeAll(tokens, {from}),
                        NewToken(from, LoginOf(from), request[w].proof))
    /\ Done(w)
    /\ UNCHANGED password

(* register commits the account; the address is UNIQUE, so a second commit *)
(* for it fails (and the request is aborted).                              *)
CommitAccount(w) ==
    /\ At(w, "register", "ready")
    /\ password = NoPassword
    /\ password' = request[w].proof
    /\ request' = [request EXCEPT ![w].phase = "issuing"]
    /\ UNCHANGED tokens

(* ... and, in a second transaction, the first refresh token.              *)
CommitFirstToken(w) == At(w, "register", "issuing") /\ Issue(w, 0)

CommitLogin(w) == At(w, "login", "ready") /\ Issue(w, 0)

(* refresh rotates: it revokes the token presented and issues another.     *)
CommitRefresh(w) == At(w, "refresh", "ready") /\ Issue(w, request[w].token)

(* Fault: the sessions survive the change of password. *)
CommitOnlyPassword(w) ==
    /\ At(w, "change_password", "ready")
    /\ password' = request[w].new
    /\ Done(w)
    /\ UNCHANGED tokens

CommitChange(w) ==
    /\ At(w, "change_password", "ready")
    /\ password' = request[w].new
    /\ tokens' = RevokeAll(tokens, request[w].loaded)
    /\ Done(w)

(* logout revokes the token presented, whatever its state.  The row it     *)
(* loads is never deleted, so its load and its commit are one step.        *)
Logout(i) ==
    /\ tokens' = RevokeAll(tokens, {i})
    /\ UNCHANGED <<password, request>>

(* A refusal, an error, a locked database, a restart of the server.        *)
Abort(w) == /\ request[w] # Idle
            /\ Done(w)
            /\ UNCHANGED <<password, tokens>>

(* External: time passes, and a token expires.                             *)
Expire(i) == /\ ~ tokens[i].expired
             /\ Cardinality(Expired) < MaxExpired
             /\ tokens' = [tokens EXCEPT ![i].expired = TRUE]
             /\ UNCHANGED <<password, request>>

-----------------------------------------------------------------------------

Serve(w) ==
    \/ \E p \in Passwords : BeginRegister(w, p) \/ BeginLogin(w, p)
    \/ \E p, new \in Passwords : BeginChange(w, p, new)
    \/ \E i \in DOMAIN tokens : BeginRefresh(w, i)
    \/ LoadTokens(w)
    \/ CommitAccount(w)
    \/ CommitFirstToken(w)
    \/ CommitLogin(w)
    \/ CommitRefresh(w)
    \/ CommitChange(w)
    \/ Abort(w)

Next ==
    \/ \E w \in Workers : Serve(w)
    \/ \E i \in DOMAIN tokens : Logout(i) \/ Expire(i)

Spec == Init /\ [][Next]_vars

-----------------------------------------------------------------------------
(* What holds whatever the interleaving *)

Successors(i) == {j \in DOMAIN tokens : tokens[j].from = i}

(* A refresh token that has been rotated buys nothing more, but for the    *)
(* requests that had it in hand at that moment: however they interleave,   *)
(* it is replaced at most once per request in flight (refresh_token).      *)
RotationBounded ==
    \A i \in DOMAIN tokens : Cardinality(Successors(i)) <= Cardinality(Workers)

(* What one request at a time guarantees, and concurrent requests do not   *)

(* Whoever can refresh has proved the password the account has now:        *)
(* changing it revokes all sessions (V2_SECURITY.md:125).                  *)
SessionsProvePassword == \A i \in Usable : tokens[i].proof = password

(* A login is one session: however often its tokens are rotated, only one  *)
(* of them is usable at any time (SECURITY.md:9).                          *)
OneSessionPerLogin ==
    \A i, j \in Usable : tokens[i].login = tokens[j].login => i = j

=============================================================================
