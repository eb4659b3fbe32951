---------------------------- MODULE SessionsProofs ----------------------------
(***************************************************************************)
(* Proofs about Sessions, for any number of passwords, threads and tokens: *)
(* how often a refresh token buys another however requests interleave, and *)
(* what a change of password ends and that a login stays one session when  *)
(* they are served one by one. The last part is about LoginLimit: how many *)
(* logins a window may hold before a session can begin.                    *)
(***************************************************************************)
EXTENDS MCSessions, MCLoginLimit, FiniteSetTheorems, WellFoundedInduction, TLAPS

(* The workers that satisfy something are finitely many, at most all.      *)
LEMMA SomeWorkers ==
    ASSUME NEW S \in SUBSET Workers
    PROVE  /\ IsFiniteSet(S)
           /\ Cardinality(S) \in Nat
           /\ Cardinality(S) <= Cardinality(Workers)
  BY SessionsAssumption, FS_Subset, FS_CardinalityType

LEMMA OneMore ==
    ASSUME NEW S, NEW x, IsFiniteSet(S)
    PROVE  /\ IsFiniteSet(S \cup {x})
           /\ Cardinality(S) \in Nat /\ Cardinality(S \cup {x}) \in Nat
           /\ Cardinality(S \cup {x}) <= Cardinality(S) + 1
  BY FS_AddElement, FS_CardinalityType

LEMMA OneLess ==
    ASSUME NEW S, NEW x \in S, IsFiniteSet(S)
    PROVE  /\ IsFiniteSet(S \ {x})
           /\ Cardinality(S) \in Nat /\ Cardinality(S \ {x}) \in Nat
           /\ Cardinality(S \ {x}) = Cardinality(S) - 1
  BY FS_RemoveElement, FS_CardinalityType

LEMMA Rebuilt ==
    ASSUME NEW S, NEW s \in Seq(S), NEW f, DOMAIN f = DOMAIN s,
           f = [i \in DOMAIN s |-> f[i]], \A i \in DOMAIN s : f[i] \in S
    PROVE  f \in Seq(S)
<1>1. Len(s) \in Nat /\ DOMAIN s = 1..Len(s)
    OBVIOUS
<1> QED
    BY <1>1

-----------------------------------------------------------------------------
(* Rows *)

(* What revoking some tokens leaves of each.                               *)
LEMMA RevokeSome ==
    ASSUME NEW rows \in Seq(Token), NEW ids
    PROVE  /\ RevokeAll(rows, ids) \in Seq(Token)
           /\ DOMAIN RevokeAll(rows, ids) = DOMAIN rows
           /\ Len(RevokeAll(rows, ids)) = Len(rows)
           /\ \A i \in DOMAIN rows :
                 /\ RevokeAll(rows, ids)[i].from = rows[i].from
                 /\ RevokeAll(rows, ids)[i].login = rows[i].login
                 /\ RevokeAll(rows, ids)[i].proof = rows[i].proof
                 /\ RevokeAll(rows, ids)[i].expired = rows[i].expired
                 /\ rows[i].revoked => RevokeAll(rows, ids)[i].revoked
                 /\ i \in ids => RevokeAll(rows, ids)[i].revoked
<1> DEFINE f == RevokeAll(rows, ids)
<1>1. /\ DOMAIN f = DOMAIN rows /\ f = [i \in DOMAIN rows |-> f[i]]
      /\ \A i \in DOMAIN rows :
            f[i] = IF i \in ids THEN [rows[i] EXCEPT !.revoked = TRUE] ELSE rows[i]
    BY DEF RevokeAll
<1> HIDE DEF f
<1>2. ASSUME NEW i \in DOMAIN rows
      PROVE  /\ f[i] \in Token
             /\ f[i].from = rows[i].from /\ f[i].login = rows[i].login
             /\ f[i].proof = rows[i].proof
             /\ f[i].expired = rows[i].expired
             /\ rows[i].revoked => f[i].revoked
             /\ i \in ids => f[i].revoked
  <2>1. rows[i] \in Token
      OBVIOUS
  <2>2. PICK r : r = [rows[i] EXCEPT !.revoked = TRUE]
      OBVIOUS
  <2>3. /\ r \in Token /\ r.revoked /\ r.from = rows[i].from /\ r.login = rows[i].login
        /\ r.proof = rows[i].proof /\ r.expired = rows[i].expired
      BY <2>1, <2>2 DEF Token
  <2>4. f[i] = IF i \in ids THEN r ELSE rows[i]
      BY <1>1, <2>2
  <2> QED
      BY <2>1, <2>3, <2>4
<1>3. f \in Seq(Token)
    BY <1>1, <1>2, Rebuilt
<1>4. Len(f) = Len(rows)
  <2>1. /\ DOMAIN f = 1..Len(f) /\ DOMAIN rows = 1..Len(rows)
        /\ Len(f) \in Nat /\ Len(rows) \in Nat
      BY <1>3
  <2> QED
      BY <1>1, <2>1
<1> QED
    BY <1>1, <1>2, <1>3, <1>4 DEF f

(* Issuing a token revokes the one it replaces, and adds one row.          *)
LEMMA Issues ==
    ASSUME TypeOK, NEW w \in Workers, request[w] \in Request, NEW from \in Nat,
           Issue(w, from)
    PROVE  /\ tokens' \in Seq(Token)
           /\ DOMAIN tokens' = DOMAIN tokens \cup {Len(tokens) + 1}
           /\ Len(tokens) + 1 \notin DOMAIN tokens
           /\ tokens'[Len(tokens) + 1] = NewToken(from, LoginOf(from), request[w].proof)
           /\ \A i \in DOMAIN tokens :
                 /\ tokens'[i].from = tokens[i].from
                 /\ tokens'[i].login = tokens[i].login
                 /\ tokens'[i].proof = tokens[i].proof
                 /\ tokens'[i].expired = tokens[i].expired
                 /\ tokens[i].revoked => tokens'[i].revoked
                 /\ i = from => tokens'[i].revoked
           /\ request' = [request EXCEPT ![w] = Idle] /\ password' = password
<1>1. request[w].proof \in Passwords /\ LoginOf(from) \in Nat
  <2>1. \A t \in Token : t.login \in Nat
      BY DEF Token
  <2>2. Len(tokens) + 1 \in Nat /\ \A i \in DOMAIN tokens : tokens[i].login \in Nat
      BY <2>1 DEF TypeOK
  <2> QED
      BY <2>2 DEF LoginOf, Request
<1>2. PICK new : new = NewToken(from, LoginOf(from), request[w].proof)
    OBVIOUS
<1>3. new \in Token
    BY <1>1, <1>2 DEF NewToken, Token
<1>4. PICK rows : rows = RevokeAll(tokens, {from})
    OBVIOUS
<1>5. /\ rows \in Seq(Token) /\ DOMAIN rows = DOMAIN tokens /\ Len(rows) = Len(tokens)
      /\ \A i \in DOMAIN tokens :
            /\ rows[i].from = tokens[i].from
            /\ rows[i].login = tokens[i].login
            /\ rows[i].proof = tokens[i].proof
            /\ rows[i].expired = tokens[i].expired
            /\ tokens[i].revoked => rows[i].revoked
            /\ i = from => rows[i].revoked
    BY <1>4, RevokeSome DEF TypeOK
<1>6. tokens' = Append(rows, new)
    BY <1>2, <1>4 DEF Issue
<1>7. /\ tokens' \in Seq(Token)
      /\ DOMAIN tokens' = DOMAIN rows \cup {Len(rows) + 1}
      /\ Len(rows) + 1 \notin DOMAIN rows
      /\ tokens'[Len(rows) + 1] = new
      /\ \A i \in DOMAIN rows : tokens'[i] = rows[i]
    BY <1>3, <1>5, <1>6
<1>8. request' = [request EXCEPT ![w] = Idle] /\ password' = password
    BY DEF Issue, Done
<1> QED
    BY <1>2, <1>5, <1>7, <1>8

-----------------------------------------------------------------------------
(* Steps *)

LEMMA InFlight ==
    ASSUME TypeOK, NEW w \in Workers
    PROVE  /\ request[w] # Idle => request[w] \in Request
           /\ request[w] \in Request => /\ request[w].phase \in Phase
                                        /\ request[w] # Idle
           /\ \A op, phase : phase \in Phase /\ At(w, op, phase) => request[w] \in Request
           /\ Idle.phase = "idle" /\ "idle" \notin Phase
  BY DEF TypeOK, Request, Phase, Idle, At

(* What a request has just begun with.                                     *)
LEMMA Begins ==
    ASSUME TypeOK, NEW w \in Workers, NEW op \in Operation, NEW phase \in Phase,
           NEW proof \in Passwords, NEW new \in Passwords, NEW token \in Nat,
           Begin(w, op, phase, proof, new, token)
    PROVE  /\ request[w] = Idle /\ request'[w] \in Request
           /\ request'[w].op = op /\ request'[w].phase = phase
           /\ request'[w].proof = proof /\ request'[w].new = new
           /\ request'[w].token = token
           /\ request' = [request EXCEPT ![w] = request'[w]]
           /\ password' = password /\ tokens' = tokens
<1>1. PICK r : r = [op |-> op, phase |-> phase, proof |-> proof, new |-> new,
                    token |-> token, loaded |-> {}]
    OBVIOUS
<1>2. /\ r \in Request /\ r.op = op /\ r.phase = phase /\ r.proof = proof
      /\ r.new = new /\ r.token = token
    BY <1>1 DEF Request
<1>3. request' = [request EXCEPT ![w] = r]
    BY <1>1 DEF Begin
<1> QED
    BY <1>2, <1>3 DEF Begin, TypeOK

LEMMA Changes ==
    ASSUME TypeOK, NEW w \in Workers
    PROVE  /\ LoadTokens(w) =>
                 /\ request[w] \in Request /\ request'[w] \in Request
                 /\ request[w].op = "change_password"
                 /\ request'[w].op = "change_password" /\ request'[w].phase = "ready"
                 /\ request'[w].proof = request[w].proof
                 /\ request'[w].loaded = Unrevoked
                 /\ request' = [request EXCEPT ![w] = request'[w]]
           /\ CommitAccount(w) =>
                 /\ request[w] \in Request /\ request'[w] \in Request
                 /\ request'[w].op = "register" /\ request'[w].phase = "issuing"
                 /\ request'[w].proof = request[w].proof
                 /\ request' = [request EXCEPT ![w] = request'[w]]
<1>1. ASSUME LoadTokens(w)
      PROVE  /\ request[w] \in Request /\ request'[w] \in Request
             /\ request[w].op = "change_password"
             /\ request'[w].op = "change_password" /\ request'[w].phase = "ready"
             /\ request'[w].proof = request[w].proof
             /\ request'[w].loaded = Unrevoked
             /\ request' = [request EXCEPT ![w] = request'[w]]
  <2>1. request[w] \in Request /\ request[w].op = "change_password"
      BY <1>1, InFlight DEF LoadTokens, At, Phase
  <2>2. PICK r : r = [request[w] EXCEPT !.phase = "ready", !.loaded = Unrevoked]
      OBVIOUS
  <2>3. Unrevoked \in SUBSET Nat
      BY DEF Unrevoked, TypeOK
  <2>4. /\ r \in Request /\ r.op = request[w].op /\ r.phase = "ready"
        /\ r.proof = request[w].proof /\ r.loaded = Unrevoked
      BY <2>1, <2>2, <2>3 DEF Request, Phase
  <2>5. request' = [request EXCEPT ![w] = r]
    <3>1. \A s : [request EXCEPT ![w].phase = "ready", ![w].loaded = s]
               = [request EXCEPT ![w] = [request[w] EXCEPT !.phase = "ready",
                                                           !.loaded = s]]
        OBVIOUS
    <3> QED
        BY <1>1, <2>2, <3>1 DEF LoadTokens
  <2> QED
      BY <2>1, <2>4, <2>5 DEF TypeOK
<1>2. ASSUME CommitAccount(w)
      PROVE  /\ request[w] \in Request /\ request'[w] \in Request
             /\ request'[w].op = "register" /\ request'[w].phase = "issuing"
             /\ request'[w].proof = request[w].proof
             /\ request' = [request EXCEPT ![w] = request'[w]]
  <2>1. request[w] \in Request /\ request[w].op = "register"
      BY <1>2, InFlight DEF CommitAccount, At, Phase
  <2>2. PICK r : r = [request[w] EXCEPT !.phase = "issuing"]
      OBVIOUS
  <2>3. /\ r \in Request /\ r.op = request[w].op /\ r.phase = "issuing"
        /\ r.proof = request[w].proof
      BY <2>1, <2>2 DEF Request, Phase
  <2>4. request' = [request EXCEPT ![w] = r]
    <3>1. [request EXCEPT ![w].phase = "issuing"]
        = [request EXCEPT ![w] = [request[w] EXCEPT !.phase = "issuing"]]
        OBVIOUS
    <3> QED
        BY <1>2, <2>2, <3>1 DEF CommitAccount
  <2> QED
      BY <2>1, <2>3, <2>4 DEF TypeOK
<1> QED
    BY <1>1, <1>2

(* The commits that issue a token, and what it replaces.                   *)
LEMMA Commits ==
    ASSUME TypeOK, NEW w \in Workers
    PROVE  /\ CommitFirstToken(w) \/ CommitLogin(w) =>
                 request[w] \in Request /\ request[w].op # "refresh" /\ Issue(w, 0)
           /\ CommitRefresh(w) =>
                 /\ request[w] \in Request /\ request[w].token \in Nat
                 /\ At(w, "refresh", "ready") /\ Issue(w, request[w].token)
<1>1. CommitFirstToken(w) \/ CommitLogin(w) \/ CommitRefresh(w) => request[w] \in Request
    BY InFlight DEF CommitFirstToken, CommitLogin, CommitRefresh, Phase
<1>2. request[w] \in Request => request[w].token \in Nat
    BY DEF Request
<1> QED
    BY <1>1, <1>2 DEF CommitFirstToken, CommitLogin, CommitRefresh, At

(* What a refresh has in hand.                                             *)
LEMMA Refreshes ==
    ASSUME TypeOK, NEW w \in Workers, NEW i \in DOMAIN tokens, BeginRefresh(w, i)
    PROVE  /\ i \in Usable /\ request[w] = Idle
           /\ request'[w] \in Request /\ request'[w].phase = "ready"
           /\ request'[w].op = "refresh" /\ request'[w].token = i
           /\ request'[w].proof = tokens[i].proof
           /\ request' = [request EXCEPT ![w] = request'[w]]
           /\ password' = password /\ tokens' = tokens
<1>1. tokens[i].proof \in Passwords /\ i \in Nat
  <2>1. \A t \in Token : t.proof \in Passwords
      BY DEF Token
  <2> QED
      BY <2>1 DEF TypeOK
<1> QED
    BY <1>1, Begins DEF BeginRefresh, Operation, Phase

(* What the requests that present no token have in hand.                   *)
LEMMA OthersBegin ==
    ASSUME TypeOK, NEW w \in Workers, NEW p \in Passwords, NEW new \in Passwords,
           BeginRegister(w, p) \/ BeginLogin(w, p) \/ BeginChange(w, p, new)
    PROVE  /\ request[w] = Idle
           /\ request'[w] \in Request /\ request'[w].op # "refresh"
           /\ request'[w].proof = p
           /\ BeginRegister(w, p) => /\ request'[w].op = "register"
                                     /\ request'[w].phase = "ready"
           /\ BeginLogin(w, p) => request'[w].op = "login" /\ password = p
           /\ BeginChange(w, p, new) => /\ request'[w].op = "change_password"
                                        /\ request'[w].phase = "checked"
           /\ request' = [request EXCEPT ![w] = request'[w]]
           /\ password' = password /\ tokens' = tokens
<1>1. CASE BeginRegister(w, p)
  <2>1. Begin(w, "register", "ready", p, p, 0)
      BY <1>1 DEF BeginRegister
  <2>2. request'[w].op = "register" /\ request'[w].phase = "ready"
      BY <2>1, Begins DEF Operation, Phase
  <2>3. ~ BeginLogin(w, p) /\ ~ BeginChange(w, p, new)
      BY <2>2, Begins DEF BeginLogin, BeginChange, Operation, Phase
  <2> QED
      BY <2>1, <2>2, <2>3, Begins DEF Operation, Phase
<1>2. CASE BeginLogin(w, p)
  <2>1. Begin(w, "login", "ready", p, p, 0) /\ password = p
      BY <1>2 DEF BeginLogin
  <2>2. request'[w].op = "login" /\ request'[w].phase = "ready"
      BY <2>1, Begins DEF Operation, Phase
  <2>3. ~ BeginRegister(w, p) /\ ~ BeginChange(w, p, new)
      BY <2>2, Begins DEF BeginRegister, BeginChange, Operation, Phase
  <2> QED
      BY <2>1, <2>2, <2>3, Begins DEF Operation, Phase
<1>3. CASE BeginChange(w, p, new)
  <2>1. Begin(w, "change_password", "checked", p, new, 0)
      BY <1>3 DEF BeginChange
  <2>2. request'[w].op = "change_password" /\ request'[w].phase = "checked"
      BY <2>1, Begins DEF Operation, Phase
  <2>3. ~ BeginRegister(w, p) /\ ~ BeginLogin(w, p)
      BY <2>2, Begins DEF BeginRegister, BeginLogin, Operation, Phase
  <2> QED
      BY <2>1, <2>2, <2>3, Begins DEF Operation, Phase
<1> QED
    BY <1>1, <1>2, <1>3

LEMMA OneRequest ==
    ASSUME TypeOK, NEW w \in Workers, Serve(w)
    PROVE  /\ request'[w] \in Request \cup {Idle}
           /\ request' = [request EXCEPT ![w] = request'[w]]
           /\ request' \in [Workers -> Request \cup {Idle}]
           /\ \A v \in Workers : v # w => request'[v] = request[v]
<1>1. /\ request'[w] \in Request \cup {Idle}
      /\ request' = [request EXCEPT ![w] = request'[w]]
  <2>1. ASSUME NEW p \in Passwords, BeginRegister(w, p) \/ BeginLogin(w, p)
        PROVE  /\ request'[w] \in Request
               /\ request' = [request EXCEPT ![w] = request'[w]]
      BY <2>1, OthersBegin
  <2>2. ASSUME NEW p \in Passwords, NEW new \in Passwords, BeginChange(w, p, new)
        PROVE  /\ request'[w] \in Request
               /\ request' = [request EXCEPT ![w] = request'[w]]
      BY <2>2, OthersBegin
  <2>3. ASSUME NEW i \in DOMAIN tokens, BeginRefresh(w, i)
        PROVE  /\ request'[w] \in Request
               /\ request' = [request EXCEPT ![w] = request'[w]]
      BY <2>3, Refreshes
  <2>4. ASSUME request' = [request EXCEPT ![w] = Idle]
        PROVE  /\ request'[w] = Idle
               /\ request' = [request EXCEPT ![w] = request'[w]]
      BY <2>4 DEF TypeOK
  <2>5. CASE LoadTokens(w) \/ CommitAccount(w)
      BY <2>5, Changes
  <2>6. CASE \/ CommitFirstToken(w) \/ CommitLogin(w) \/ CommitRefresh(w)
             \/ CommitChange(w) \/ Abort(w)
      BY <2>4, <2>6 DEF CommitFirstToken, CommitLogin, CommitRefresh, CommitChange,
                        Abort, Issue, Done
  <2> QED
      BY <2>1, <2>2, <2>3, <2>5, <2>6 DEF Serve
<1> QED
    BY <1>1 DEF TypeOK

-----------------------------------------------------------------------------
(* Types *)

LEMMA TypeInit == Init => TypeOK
  BY DEF Init, TypeOK

LEMMA ExpiredToken ==
    ASSUME TypeOK, NEW i \in DOMAIN tokens, Expire(i)
    PROVE  /\ tokens' \in Seq(Token) /\ DOMAIN tokens' = DOMAIN tokens
           /\ \A j \in DOMAIN tokens :
                 /\ tokens'[j].from = tokens[j].from
                 /\ tokens'[j].login = tokens[j].login
                 /\ tokens'[j].proof = tokens[j].proof
                 /\ tokens'[j].revoked = tokens[j].revoked
                 /\ tokens[j].expired => tokens'[j].expired
           /\ request' = request /\ password' = password
<1>1. tokens[i] \in Token
    BY DEF TypeOK
<1>2. PICK r : r = [tokens[i] EXCEPT !.expired = TRUE]
    OBVIOUS
<1>3. /\ r \in Token /\ r.from = tokens[i].from /\ r.login = tokens[i].login
      /\ r.proof = tokens[i].proof /\ r.revoked = tokens[i].revoked /\ r.expired
    BY <1>1, <1>2 DEF Token
<1>4. tokens' = [tokens EXCEPT ![i] = r]
    BY <1>2 DEF Expire
<1>5. /\ DOMAIN tokens' = DOMAIN tokens
      /\ tokens' = [j \in DOMAIN tokens |-> tokens'[j]]
      /\ \A j \in DOMAIN tokens : tokens'[j] = IF j = i THEN r ELSE tokens[j]
    BY <1>4
<1>6. tokens \in Seq(Token) /\ \A j \in DOMAIN tokens : tokens[j] \in Token
    BY DEF TypeOK
<1>7. tokens' \in Seq(Token)
    BY <1>3, <1>5, <1>6, Rebuilt
<1> QED
    BY <1>3, <1>5, <1>7 DEF Expire

LEMMA TypeNext == TypeOK /\ [Next]_vars => TypeOK'
<1> SUFFICES ASSUME TypeOK, [Next]_vars PROVE TypeOK'
    OBVIOUS
<1>1. ASSUME NEW w \in Workers, Serve(w) PROVE TypeOK'
  <2>1. request' \in [Workers -> Request \cup {Idle}]
      BY <1>1, OneRequest
  <2>2. CASE CommitFirstToken(w) \/ CommitLogin(w) \/ CommitRefresh(w)
    <3>1. \E from \in Nat : Issue(w, from) /\ request[w] \in Request
        BY <2>2, Commits
    <3> QED
        BY <2>1, <3>1, Issues DEF TypeOK
  <2>3. CASE CommitChange(w)
    <3>1. request[w] \in Request
        BY <2>3, InFlight DEF CommitChange, Phase
    <3>2. request[w].new \in Passwords
        BY <3>1 DEF Request
    <3>3. tokens' \in Seq(Token)
        BY <2>3, RevokeSome DEF CommitChange, TypeOK
    <3> QED
        BY <2>1, <2>3, <3>2, <3>3 DEF CommitChange, TypeOK
  <2>4. CASE CommitAccount(w)
    <3>1. request[w].proof \in Passwords /\ tokens' = tokens
        BY <2>4, Changes DEF CommitAccount, Request
    <3> QED
        BY <2>1, <2>4, <3>1 DEF CommitAccount, TypeOK
  <2>5. CASE /\ ~ CommitFirstToken(w) /\ ~ CommitLogin(w) /\ ~ CommitRefresh(w)
             /\ ~ CommitChange(w) /\ ~ CommitAccount(w)
    <3>1. password' = password /\ tokens' = tokens
        BY <1>1, <2>5 DEF Serve, BeginRegister, BeginLogin, BeginChange, BeginRefresh,
                          Begin, LoadTokens, Abort
    <3> QED
        BY <2>1, <3>1 DEF TypeOK
  <2> QED
      BY <2>2, <2>3, <2>4, <2>5
<1>2. ASSUME NEW i \in DOMAIN tokens, Logout(i) PROVE TypeOK'
    BY <1>2, RevokeSome DEF Logout, TypeOK
<1>3. ASSUME NEW i \in DOMAIN tokens, Expire(i) PROVE TypeOK'
    BY <1>3, ExpiredToken DEF TypeOK
<1>4. CASE UNCHANGED vars
    BY <1>4 DEF vars, TypeOK
<1> QED
    BY <1>1, <1>2, <1>3, <1>4 DEF Next

(* The account, its tokens and the requests keep their types.              *)
THEOREM TypeCorrect == Spec => []TypeOK
  BY TypeInit, TypeNext, PTL DEF Spec

-----------------------------------------------------------------------------
(* How often a token is rotated *)

(* The requests that present a token.                                      *)
Presenting(w) == At(w, "refresh", "ready")

Presented(i) == {w \in Workers : Presenting(w) /\ request[w].token = i}

(* A token that was replaced is revoked, and a row replaces an older one.  *)
Rotated ==
    /\ \A i, j \in DOMAIN tokens : tokens[j].from = i => tokens[i].revoked
    /\ \A j \in DOMAIN tokens : tokens[j].from \in DOMAIN tokens \cup {0}
    /\ \A w \in Workers : Presenting(w) => request[w].token \in DOMAIN tokens

(* Every request that may still replace a token has a place among the      *)
(* workers.                                                                *)
Narrow ==
    \A i \in DOMAIN tokens :
        Cardinality(Successors(i)) + Cardinality(Presented(i)) <= Cardinality(Workers)

LEMMA Counts ==
    ASSUME TypeOK, NEW i
    PROVE  /\ IsFiniteSet(Successors(i)) /\ Cardinality(Successors(i)) \in Nat
           /\ IsFiniteSet(Presented(i)) /\ Cardinality(Presented(i)) \in Nat
           /\ Cardinality(Presented(i)) <= Cardinality(Workers)
           /\ Cardinality(Workers) \in Nat
<1>1. Successors(i) \in SUBSET (1..Len(tokens)) /\ Len(tokens) \in Nat
    BY DEF Successors, TypeOK
<1>2. IsFiniteSet(1..Len(tokens))
    BY <1>1, FS_Interval
<1>3. Presented(i) \in SUBSET Workers
    BY DEF Presented
<1> QED
    BY <1>1, <1>2, <1>3, SomeWorkers, FS_Subset, FS_CardinalityType, SessionsAssumption

(* A step that issues no token and takes none in hand rotates nothing.     *)
LEMMA NotRotating ==
    ASSUME TypeOK, Rotated, Narrow,
           DOMAIN tokens' = DOMAIN tokens,
           \A i \in DOMAIN tokens : /\ tokens'[i].from = tokens[i].from
                                    /\ tokens[i].revoked => tokens'[i].revoked,
           \A w \in Workers : Presenting(w)' => /\ Presenting(w)
                                                /\ request'[w] = request[w]
    PROVE  Rotated' /\ Narrow'
<1>1. Rotated'
    BY DEF Rotated
<1>2. ASSUME NEW i \in DOMAIN tokens
      PROVE  Cardinality(Successors(i)') + Cardinality(Presented(i)')
                <= Cardinality(Workers)
  <2>1. Successors(i)' = Successors(i)
      BY DEF Successors
  <2>2. Presented(i)' \in SUBSET Presented(i)
      BY DEF Presented
  <2>3. /\ Cardinality(Presented(i)') \in Nat
        /\ Cardinality(Presented(i)') <= Cardinality(Presented(i))
      BY <2>2, Counts, FS_Subset, FS_CardinalityType
  <2>4. Cardinality(Successors(i)) + Cardinality(Presented(i)) <= Cardinality(Workers)
      BY DEF Narrow
  <2> QED
      BY <2>1, <2>3, <2>4, Counts
<1> QED
    BY <1>1, <1>2 DEF Narrow

(* A token that may be taken in hand has not been replaced.                *)
LEMMA TakingInHand ==
    ASSUME TypeOK, Rotated, Narrow, NEW w \in Workers, NEW i \in DOMAIN tokens,
           BeginRefresh(w, i)
    PROVE  Rotated' /\ Narrow'
<1>1. /\ i \in Usable /\ request[w] = Idle /\ tokens' = tokens
      /\ request'[w].op = "refresh" /\ request'[w].token = i
    BY Refreshes
<1>2. \A v \in Workers : v # w => /\ request'[v] = request[v]
                                  /\ Presenting(v)' <=> Presenting(v)
  <2>1. request' = [request EXCEPT ![w] = request'[w]]
      BY Refreshes
  <2> QED
      BY <2>1 DEF TypeOK, Presenting, At
<1>3. Rotated'
    BY <1>1, <1>2 DEF Rotated
<1>4. ASSUME NEW j \in DOMAIN tokens
      PROVE  Cardinality(Successors(j)') + Cardinality(Presented(j)')
                <= Cardinality(Workers)
  <2>1. Successors(j)' = Successors(j)
      BY <1>1 DEF Successors
  <2>2. CASE j = i
    <3>1. Successors(j) = {}
        BY <1>1, <2>2 DEF Rotated, Successors, Usable, Unrevoked
    <3>2. Presented(j)' \in SUBSET Workers
        BY DEF Presented
    <3>3. Cardinality(Presented(j)') \in Nat
          /\ Cardinality(Presented(j)') <= Cardinality(Workers)
        BY <3>2, SomeWorkers
    <3> QED
        BY <2>1, <3>1, <3>3, FS_EmptySet
  <2>3. CASE j # i
    <3>1. ~ Presenting(w)
        BY <1>1, InFlight DEF Presenting, At
    <3>2. Presented(j)' = Presented(j)
        BY <1>1, <1>2, <2>3, <3>1 DEF Presented
    <3> QED
        BY <2>1, <3>2 DEF Narrow
  <2> QED
      BY <2>2, <2>3
<1> QED
    BY <1>1, <1>3, <1>4 DEF Narrow

(* A request that presents a token issues its successor; another begins a  *)
(* line of its own.                                                        *)
LEMMA Issuing ==
    ASSUME TypeOK, Rotated, Narrow, NEW w \in Workers, request[w] \in Request,
           NEW from \in Nat, Issue(w, from),
           IF Presenting(w) THEN from = request[w].token ELSE from = 0
    PROVE  Rotated' /\ Narrow'
<1> DEFINE n == Len(tokens) + 1
<1>1. /\ DOMAIN tokens' = DOMAIN tokens \cup {n} /\ n \notin DOMAIN tokens
      /\ tokens'[n].from = from
      /\ \A i \in DOMAIN tokens : /\ tokens'[i].from = tokens[i].from
                                  /\ tokens[i].revoked => tokens'[i].revoked
                                  /\ i = from => tokens'[i].revoked
  <2>1. NewToken(from, LoginOf(from), request[w].proof).from = from
      BY DEF NewToken
  <2> QED
      BY <2>1, Issues
<1>2. /\ n \in Nat \ {0} /\ 0 \notin DOMAIN tokens
    BY DEF TypeOK
<1>3. request'[w] = Idle /\ \A v \in Workers : v # w => request'[v] = request[v]
  <2>1. request' = [request EXCEPT ![w] = Idle]
      BY Issues
  <2> QED
      BY <2>1 DEF TypeOK
<1> HIDE DEF n
<1>4. /\ ~ Presenting(w)'
      /\ \A v \in Workers : v # w => (Presenting(v)' <=> Presenting(v))
    BY <1>3, InFlight DEF Presenting, At
<1>5. from \in DOMAIN tokens \cup {0}
    BY DEF Rotated
<1>6. Rotated'
  <2>1. \A j \in DOMAIN tokens' : tokens'[j].from \in DOMAIN tokens \cup {0}
      BY <1>1, <1>5 DEF Rotated
  <2>2. \A i, j \in DOMAIN tokens' : tokens'[j].from = i => tokens'[i].revoked
      BY <1>1, <1>2, <1>5, <2>1 DEF Rotated
  <2>3. \A v \in Workers : Presenting(v)' => request'[v].token \in DOMAIN tokens'
      BY <1>1, <1>3, <1>4 DEF Rotated
  <2> QED
      BY <1>1, <2>1, <2>2, <2>3 DEF Rotated
<1>7. ASSUME NEW i \in DOMAIN tokens'
      PROVE  Cardinality(Successors(i)') + Cardinality(Presented(i)')
                <= Cardinality(Workers)
  <2>1. Presented(i)' = Presented(i) \ {w}
      BY <1>3, <1>4 DEF Presented
  <2>2. CASE i = n
    <3>1. \A j \in DOMAIN tokens' : tokens'[j].from # n
        BY <1>1, <1>2, <1>5 DEF Rotated
    <3>2. Successors(i)' = {}
        BY <2>2, <3>1 DEF Successors
    <3>3. Presented(i)' \in SUBSET Workers
        BY <2>1 DEF Presented
    <3>4. Cardinality(Presented(i)') \in Nat
          /\ Cardinality(Presented(i)') <= Cardinality(Workers)
        BY <3>3, SomeWorkers
    <3> QED
        BY <3>2, <3>4, FS_EmptySet
  <2>3. CASE i \in DOMAIN tokens /\ from = i
    <3>1. Successors(i)' = Successors(i) \cup {n}
        BY <1>1, <2>3 DEF Successors
    <3>2. w \in Presented(i)
        BY <1>2, <2>3 DEF Presented
    <3>3. /\ Cardinality(Successors(i)') \in Nat
          /\ Cardinality(Successors(i)') <= Cardinality(Successors(i)) + 1
        BY <3>1, Counts, OneMore
    <3>4. /\ Cardinality(Presented(i)') \in Nat
          /\ Cardinality(Presented(i)') = Cardinality(Presented(i)) - 1
        BY <2>1, <3>2, Counts, OneLess
    <3>5. Cardinality(Successors(i)) + Cardinality(Presented(i)) <= Cardinality(Workers)
        BY <2>3 DEF Narrow
    <3> QED
        BY <3>3, <3>4, <3>5, Counts
  <2>4. CASE i \in DOMAIN tokens /\ from # i
    <3>1. Successors(i)' = Successors(i)
        BY <1>1, <2>4 DEF Successors
    <3>2. Presented(i)' = Presented(i)
        BY <2>1, <2>4 DEF Presented
    <3> QED
        BY <2>4, <3>1, <3>2 DEF Narrow
  <2> QED
      BY <1>1, <2>2, <2>3, <2>4
<1> QED
    BY <1>6, <1>7 DEF Narrow

LEMMA RotationNext ==
    TypeOK /\ Rotated /\ Narrow /\ [Next]_vars => Rotated' /\ Narrow'
<1> SUFFICES ASSUME TypeOK, Rotated, Narrow, [Next]_vars PROVE Rotated' /\ Narrow'
    OBVIOUS
<1>1. ASSUME NEW w \in Workers, Serve(w) PROVE Rotated' /\ Narrow'
  <2>1. \A v \in Workers : v # w => /\ request'[v] = request[v]
                                    /\ Presenting(v)' <=> Presenting(v)
      BY <1>1, OneRequest DEF Presenting, At
  <2>2. ASSUME ~ Presenting(w)', tokens' = tokens PROVE Rotated' /\ Narrow'
      BY <2>1, <2>2, NotRotating
  <2>3. ASSUME NEW p \in Passwords, NEW new \in Passwords,
               BeginRegister(w, p) \/ BeginLogin(w, p) \/ BeginChange(w, p, new)
        PROVE  Rotated' /\ Narrow'
      BY <2>2, <2>3, OthersBegin DEF Presenting, At
  <2>4. ASSUME NEW p \in Passwords, BeginRegister(w, p) \/ BeginLogin(w, p)
        PROVE  Rotated' /\ Narrow'
      BY <2>3, <2>4
  <2>5. ASSUME NEW i \in DOMAIN tokens, BeginRefresh(w, i)
        PROVE  Rotated' /\ Narrow'
      BY <2>5, TakingInHand
  <2>6. CASE LoadTokens(w) \/ CommitAccount(w)
      BY <2>2, <2>6, Changes DEF Presenting, At, LoadTokens, CommitAccount
  <2>7. CASE Abort(w)
    <3>1. request'[w] = Idle /\ tokens' = tokens
        BY <2>7 DEF Abort, Done, TypeOK
    <3> QED
        BY <2>2, <3>1, InFlight DEF Presenting, At
  <2>8. CASE CommitFirstToken(w) \/ CommitLogin(w)
    <3>1. ~ Presenting(w)
        BY <2>8, Commits DEF Presenting, At
    <3> QED
        BY <2>8, <3>1, Commits, Issuing
  <2>9. CASE CommitRefresh(w)
      BY <2>9, Commits, Issuing DEF Presenting
  <2>10. CASE CommitChange(w)
    <3>1. request'[w] = Idle /\ tokens' = RevokeAll(tokens, request[w].loaded)
        BY <2>10 DEF CommitChange, Done, TypeOK
    <3>2. ~ Presenting(w)'
        BY <3>1, InFlight DEF Presenting, At
    <3>3. /\ DOMAIN tokens' = DOMAIN tokens
          /\ \A i \in DOMAIN tokens : /\ tokens'[i].from = tokens[i].from
                                      /\ tokens[i].revoked => tokens'[i].revoked
        BY <3>1, RevokeSome DEF TypeOK
    <3> QED
        BY <2>1, <3>2, <3>3, NotRotating
  <2> QED
      BY <1>1, <2>3, <2>4, <2>5, <2>6, <2>7, <2>8, <2>9, <2>10 DEF Serve
<1>2. ASSUME NEW i \in DOMAIN tokens, Logout(i) PROVE Rotated' /\ Narrow'
  <2>1. tokens' = RevokeAll(tokens, {i}) /\ request' = request
      BY <1>2 DEF Logout
  <2>2. /\ DOMAIN tokens' = DOMAIN tokens
        /\ \A j \in DOMAIN tokens : /\ tokens'[j].from = tokens[j].from
                                    /\ tokens[j].revoked => tokens'[j].revoked
      BY <2>1, RevokeSome DEF TypeOK
  <2> QED
      BY <2>1, <2>2, NotRotating DEF Presenting, At
<1>3. ASSUME NEW i \in DOMAIN tokens, Expire(i) PROVE Rotated' /\ Narrow'
    BY <1>3, ExpiredToken, NotRotating DEF Presenting, At
<1>4. CASE UNCHANGED vars
    BY <1>4, NotRotating DEF vars, Presenting, At
<1> QED
    BY <1>1, <1>2, <1>3, <1>4 DEF Next

(* A refresh token is replaced at most once per thread: once it has been   *)
(* replaced nobody takes it in hand any more.                              *)
THEOREM RotationsAreBounded == Spec => []RotationBounded
<1>1. Init => Rotated /\ Narrow
    BY InFlight, TypeInit DEF Init, Rotated, Narrow, Presenting, At
<1>2. TypeOK /\ Narrow => RotationBounded
  <2> SUFFICES ASSUME TypeOK, Narrow, NEW i \in DOMAIN tokens
               PROVE  Cardinality(Successors(i)) <= Cardinality(Workers)
      BY DEF RotationBounded
  <2>1. Cardinality(Successors(i)) + Cardinality(Presented(i)) <= Cardinality(Workers)
      BY DEF Narrow
  <2> QED
      BY <2>1, Counts
<1> QED
    BY <1>1, <1>2, TypeInit, TypeNext, RotationNext, PTL DEF Spec

-----------------------------------------------------------------------------
(* Requests that are served one by one *)

OneByOne == \A v, w \in Workers : request[v] # Idle /\ request[w] # Idle => v = w

(* Whoever can go on has proved the password the account has now, and      *)
(* whoever changes it has every session in hand.                           *)
Proves(w) ==
    /\ At(w, "refresh", "ready") \/ At(w, "login", "ready") \/ At(w, "register", "issuing")
          => request[w].proof = password
    /\ At(w, "change_password", "ready") => Unrevoked \subseteq request[w].loaded

Proven == SessionsProvePassword /\ \A w \in Workers : Proves(w)

LEMMA UsableTokens ==
    /\ \A i : i \in Usable <=> i \in DOMAIN tokens /\ ~ tokens[i].revoked
                                                   /\ ~ tokens[i].expired
    /\ \A i : i \in Unrevoked <=> i \in DOMAIN tokens /\ ~ tokens[i].revoked
  BY DEF Usable, Unrevoked, Expired

(* A step that neither issues a token nor changes the password.            *)
LEMMA NothingNew ==
    ASSUME TypeOK, Proven, password' = password, DOMAIN tokens' = DOMAIN tokens,
           \A i \in DOMAIN tokens : tokens'[i].proof = tokens[i].proof,
           \A i \in DOMAIN tokens : tokens[i].revoked => tokens'[i].revoked,
           \A i \in DOMAIN tokens : tokens[i].expired => tokens'[i].expired
    PROVE  /\ SessionsProvePassword'
           /\ \A w \in Workers : request'[w] = request[w] => Proves(w)'
<1>1. \A i : i \in Usable' => i \in Usable
    BY UsableTokens DEF Usable, Unrevoked, Expired
<1>2. \A i : i \in Unrevoked' => i \in Unrevoked
    BY DEF Unrevoked
<1>3. SessionsProvePassword'
    BY <1>1 DEF Proven, SessionsProvePassword, Usable, Unrevoked
<1>4. ASSUME NEW w \in Workers, request'[w] = request[w] PROVE Proves(w)'
    BY <1>2, <1>4 DEF Proven, Proves, At
<1> QED
    BY <1>3, <1>4

(* A request that is over is over for all: nobody else is served.          *)
LEMMA Over ==
    ASSUME TypeOK, OneByOne, NEW w \in Workers, request[w] # Idle,
           request' = [request EXCEPT ![w] = Idle]
    PROVE  \A v \in Workers : Proves(v)'
<1>1. \A v \in Workers : request'[v] = Idle
    BY DEF OneByOne, TypeOK
<1> QED
    BY <1>1, InFlight DEF Proves, At

LEMMA ProvenNext == TypeOK /\ Proven /\ OneByOne /\ [Next]_vars => Proven'
<1> SUFFICES ASSUME TypeOK, Proven, OneByOne, [Next]_vars PROVE Proven'
    OBVIOUS
<1>1. ASSUME NEW w \in Workers, Serve(w) PROVE Proven'
  <2>1. \A v \in Workers : v # w => request'[v] = request[v]
      BY <1>1, OneRequest
  <2>2. ASSUME tokens' = tokens, password' = password, Proves(w)' PROVE Proven'
      BY <2>1, <2>2, NothingNew DEF Proven
  <2>3. ASSUME NEW p \in Passwords, NEW new \in Passwords,
               BeginRegister(w, p) \/ BeginLogin(w, p) \/ BeginChange(w, p, new)
        PROVE  Proven'
    <3>1. /\ tokens' = tokens /\ password' = password /\ request'[w].proof = p
          /\ \/ request'[w].op = "register" /\ request'[w].phase = "ready"
             \/ request'[w].op = "login" /\ password = p
             \/ request'[w].op = "change_password" /\ request'[w].phase = "checked"
        BY <2>3, OthersBegin
    <3> QED
        BY <2>2, <3>1 DEF Proves, At
  <2>4. ASSUME NEW p \in Passwords, BeginRegister(w, p) \/ BeginLogin(w, p)
        PROVE  Proven'
      BY <2>3, <2>4
  <2>5. ASSUME NEW i \in DOMAIN tokens, BeginRefresh(w, i) PROVE Proven'
    <3>1. /\ tokens' = tokens /\ password' = password /\ request'[w].op = "refresh"
          /\ request'[w].proof = password
        BY <2>5, Refreshes DEF Proven, SessionsProvePassword
    <3> QED
        BY <2>2, <3>1 DEF Proves, At
  <2>6. CASE LoadTokens(w)
    <3>1. /\ tokens' = tokens /\ password' = password
          /\ request'[w].op = "change_password" /\ request'[w].loaded = Unrevoked
        BY <2>6, Changes DEF LoadTokens
    <3>2. Unrevoked' = Unrevoked
        BY <3>1 DEF Unrevoked
    <3> QED
        BY <2>2, <3>1, <3>2 DEF Proves, At
  <2>7. CASE CommitAccount(w)
    <3>1. /\ tokens' = tokens /\ password' = request[w].proof
          /\ request'[w].op = "register" /\ request'[w].proof = request[w].proof
          /\ password \notin Passwords /\ request[w] \in Request
        BY <2>7, Changes, SessionsAssumption DEF CommitAccount
    <3>2. \A i \in DOMAIN tokens : tokens[i].proof \in Passwords
      <4>1. \A t \in Token : t.proof \in Passwords
          BY DEF Token
      <4> QED
          BY <4>1 DEF TypeOK
    <3>3. Usable = {}
        BY <3>1, <3>2, UsableTokens DEF Proven, SessionsProvePassword
    <3>4. Usable' = {}
        BY <3>1, <3>3 DEF Usable, Unrevoked, Expired
    <3>5. \A v \in Workers : v # w => request'[v] = Idle
        BY <2>1, <3>1, InFlight DEF OneByOne
    <3>6. \A v \in Workers : Proves(v)'
        BY <3>1, <3>5, InFlight DEF Proves, At
    <3> QED
        BY <3>4, <3>6 DEF Proven, SessionsProvePassword
  <2>8. CASE CommitFirstToken(w) \/ CommitLogin(w) \/ CommitRefresh(w)
    <3>1. request[w] \in Request /\ \E from \in Nat : Issue(w, from)
        BY <2>8, Commits
    <3>2. PICK from \in Nat : Issue(w, from)
        BY <3>1
    <3>3. request[w].proof = password
        BY <2>8 DEF CommitFirstToken, CommitLogin, CommitRefresh, Proven, Proves
    <3>4. /\ DOMAIN tokens' = DOMAIN tokens \cup {Len(tokens) + 1}
          /\ tokens'[Len(tokens) + 1].proof = password
          /\ \A i \in DOMAIN tokens : /\ tokens'[i].proof = tokens[i].proof
                                      /\ tokens'[i].expired = tokens[i].expired
                                      /\ tokens[i].revoked => tokens'[i].revoked
          /\ password' = password /\ request' = [request EXCEPT ![w] = Idle]
      <4>1. NewToken(from, LoginOf(from), request[w].proof).proof = request[w].proof
          BY DEF NewToken
      <4> QED
          BY <3>1, <3>2, <3>3, <4>1, Issues
    <3>5. \A i \in DOMAIN tokens' : ~ tokens'[i].revoked /\ ~ tokens'[i].expired =>
                                       tokens'[i].proof = password
        BY <3>4, UsableTokens DEF Proven, SessionsProvePassword
    <3>6. SessionsProvePassword'
        BY <3>4, <3>5 DEF SessionsProvePassword, Usable, Unrevoked, Expired
    <3>7. request[w] # Idle
        BY <3>1, InFlight
    <3> QED
        BY <3>4, <3>6, <3>7, Over DEF Proven
  <2>9. CASE CommitChange(w)
    <3>1. /\ tokens' = RevokeAll(tokens, request[w].loaded)
          /\ request' = [request EXCEPT ![w] = Idle]
        BY <2>9 DEF CommitChange, Done
    <3>2. Unrevoked \subseteq request[w].loaded
        BY <2>9 DEF CommitChange, Proven, Proves
    <3>3. \A i \in DOMAIN tokens' : tokens'[i].revoked
        BY <3>1, <3>2, RevokeSome, UsableTokens DEF TypeOK
    <3>4. SessionsProvePassword'
        BY <3>3 DEF SessionsProvePassword, Usable, Unrevoked
    <3>5. request[w] # Idle
        BY <2>9, InFlight DEF CommitChange, Phase
    <3> QED
        BY <3>1, <3>4, <3>5, Over DEF Proven
  <2>10. CASE Abort(w)
    <3>1. /\ request[w] # Idle /\ request' = [request EXCEPT ![w] = Idle]
          /\ tokens' = tokens /\ password' = password
        BY <2>10 DEF Abort, Done
    <3>2. \A v \in Workers : Proves(v)'
        BY <3>1, Over
    <3> QED
        BY <2>2, <3>1, <3>2
  <2> QED
      BY <1>1, <2>3, <2>4, <2>5, <2>6, <2>7, <2>8, <2>9, <2>10 DEF Serve
<1>2. ASSUME NEW i \in DOMAIN tokens, Logout(i) PROVE Proven'
  <2>1. /\ tokens' = RevokeAll(tokens, {i}) /\ password' = password
        /\ request' = request
      BY <1>2 DEF Logout
  <2>2. /\ DOMAIN tokens' = DOMAIN tokens
        /\ \A j \in DOMAIN tokens : /\ tokens'[j].proof = tokens[j].proof
                                    /\ tokens'[j].expired = tokens[j].expired
                                    /\ tokens[j].revoked => tokens'[j].revoked
      BY <2>1, RevokeSome DEF TypeOK
  <2> QED
      BY <2>1, <2>2, NothingNew DEF Proven
<1>3. ASSUME NEW i \in DOMAIN tokens, Expire(i) PROVE Proven'
    BY <1>3, ExpiredToken, NothingNew DEF Proven
<1>4. CASE UNCHANGED vars
    BY <1>4, NothingNew DEF vars, Proven
<1> QED
    BY <1>1, <1>2, <1>3, <1>4 DEF Next

-----------------------------------------------------------------------------
(* One session per login *)

(* The tokens that can be used, and those that a refresh has in hand: one  *)
(* that is revoked or expires meanwhile is replaced all the same.          *)
Live == Usable \cup {request[w].token : w \in {v \in Workers : Presenting(v)}}

(* No two of them go back to one login, and a login is its first token.    *)
SingleLine ==
    /\ \A i \in DOMAIN tokens : tokens[i].login \in DOMAIN tokens
    /\ Live \subseteq DOMAIN tokens
    /\ \A i, j \in Live : tokens[i].login = tokens[j].login => i = j

(* A step that issues no token and takes in hand only what is usable.      *)
LEMMA NoneIssued ==
    ASSUME TypeOK, SingleLine, DOMAIN tokens' = DOMAIN tokens,
           \A i \in DOMAIN tokens : /\ tokens'[i].login = tokens[i].login
                                    /\ tokens[i].revoked => tokens'[i].revoked
                                    /\ tokens[i].expired => tokens'[i].expired,
           \A w \in Workers : Presenting(w)' => request'[w].token \in Live
    PROVE  SingleLine'
<1>1. \A i : i \in Usable' => i \in Usable
    BY UsableTokens DEF Usable, Unrevoked, Expired
<1>2. Live' \subseteq Live
    BY <1>1 DEF Live
<1> QED
    BY <1>2 DEF SingleLine

(* What a request that serves nobody has in hand is in nobody's.           *)
LEMMA StillInHand ==
    ASSUME NEW w \in Workers, Presenting(w), request'[w] = request[w]
    PROVE  request'[w].token \in Live
  BY DEF Live

(* A new token takes the place of the one it replaces, or begins a login.  *)
LEMMA OneForOne ==
    ASSUME TypeOK, SingleLine, OneByOne, NEW w \in Workers, request[w] \in Request,
           NEW from \in Nat, Issue(w, from),
           IF Presenting(w) THEN from = request[w].token ELSE from = 0
    PROVE  SingleLine'
<1> DEFINE n == Len(tokens) + 1
<1>1. /\ DOMAIN tokens' = DOMAIN tokens \cup {n} /\ n \notin DOMAIN tokens
      /\ tokens'[n].login = LoginOf(from)
      /\ \A i \in DOMAIN tokens : /\ tokens'[i].login = tokens[i].login
                                  /\ tokens'[i].expired = tokens[i].expired
                                  /\ tokens[i].revoked => tokens'[i].revoked
                                  /\ i = from => tokens'[i].revoked
  <2>1. NewToken(from, LoginOf(from), request[w].proof).login = LoginOf(from)
      BY DEF NewToken
  <2> QED
      BY <2>1, Issues
<1>2. LoginOf(from) = IF from \in DOMAIN tokens THEN tokens[from].login ELSE n
    BY DEF LoginOf
<1> HIDE DEF n
<1>3. \A v \in Workers : ~ Presenting(v)'
  <2>1. request[w] # Idle /\ request' = [request EXCEPT ![w] = Idle]
      BY Issues, InFlight
  <2>2. \A v \in Workers : request'[v] = Idle
      BY <2>1 DEF OneByOne, TypeOK
  <2> QED
      BY <2>2, InFlight DEF Presenting, At
<1>4. Live' = Usable'
    BY <1>3 DEF Live
<1>5. ASSUME NEW i \in Live'
      PROVE  /\ i \in DOMAIN tokens'
             /\ i # n => i \in DOMAIN tokens /\ i \in Live /\ i # from
  <2>1. /\ i \in DOMAIN tokens' /\ ~ tokens'[i].revoked /\ ~ tokens'[i].expired
      BY <1>4 DEF Usable, Unrevoked, Expired
  <2>2. CASE i # n
    <3>1. i \in DOMAIN tokens /\ i # from
        BY <1>1, <2>1, <2>2
    <3>2. i \in Usable
        BY <1>1, <2>1, <3>1, UsableTokens
    <3> QED
        BY <2>1, <3>1, <3>2 DEF Live
  <2> QED
      BY <2>1, <2>2
<1>6. from \in DOMAIN tokens => from \in Live
  <2>1. 0 \notin DOMAIN tokens
      BY DEF TypeOK
  <2> QED
      BY <2>1 DEF Live
<1>7. ASSUME NEW i \in Live', i # n PROVE tokens'[i].login # tokens'[n].login
  <2>1. i \in Live /\ i # from /\ tokens'[i].login = tokens[i].login
      BY <1>1, <1>5, <1>7
  <2>2. CASE from \in DOMAIN tokens
      BY <1>1, <1>2, <1>6, <2>1, <2>2 DEF SingleLine
  <2>3. CASE from \notin DOMAIN tokens
      BY <1>1, <1>2, <1>5, <1>7, <2>1, <2>3 DEF SingleLine
  <2> QED
      BY <2>2, <2>3
<1>8. \A i \in DOMAIN tokens' : tokens'[i].login \in DOMAIN tokens'
    BY <1>1, <1>2 DEF SingleLine
<1>9. \A i, j \in Live' : tokens'[i].login = tokens'[j].login => i = j
    BY <1>1, <1>5, <1>7 DEF SingleLine
<1> QED
    BY <1>5, <1>8, <1>9 DEF SingleLine

LEMMA SingleLineNext ==
    TypeOK /\ SingleLine /\ OneByOne /\ [Next]_vars => SingleLine'
<1> SUFFICES ASSUME TypeOK, SingleLine, OneByOne, [Next]_vars PROVE SingleLine'
    OBVIOUS
<1>1. ASSUME NEW w \in Workers, Serve(w) PROVE SingleLine'
  <2>1. \A v \in Workers : v # w =>
           /\ request'[v] = request[v]
           /\ Presenting(v)' => request'[v].token \in Live
    <3>1. ASSUME NEW v \in Workers, v # w PROVE request'[v] = request[v]
        BY <1>1, <3>1, OneRequest
    <3> QED
        BY <3>1, StillInHand DEF Presenting, At
  <2>2. ASSUME Presenting(w)' => request'[w].token \in Live, tokens' = tokens
        PROVE  SingleLine'
      BY <2>1, <2>2, NoneIssued
  <2>3. ASSUME NEW p \in Passwords, NEW new \in Passwords,
               BeginRegister(w, p) \/ BeginLogin(w, p) \/ BeginChange(w, p, new)
        PROVE  SingleLine'
      BY <2>2, <2>3, OthersBegin DEF Presenting, At
  <2>4. ASSUME NEW p \in Passwords, BeginRegister(w, p) \/ BeginLogin(w, p)
        PROVE  SingleLine'
      BY <2>3, <2>4
  <2>5. ASSUME NEW i \in DOMAIN tokens, BeginRefresh(w, i) PROVE SingleLine'
    <3>1. /\ tokens' = tokens /\ request'[w].token = i /\ i \in Live
        BY <2>5, Refreshes DEF Live
    <3> QED
        BY <2>2, <3>1
  <2>6. CASE LoadTokens(w) \/ CommitAccount(w)
      BY <2>2, <2>6, Changes DEF Presenting, At, LoadTokens, CommitAccount
  <2>7. CASE Abort(w)
    <3>1. request'[w] = Idle /\ tokens' = tokens
        BY <2>7 DEF Abort, Done, TypeOK
    <3> QED
        BY <2>2, <3>1, InFlight DEF Presenting, At
  <2>8. CASE CommitFirstToken(w) \/ CommitLogin(w)
    <3>1. ~ Presenting(w)
        BY <2>8, Commits DEF Presenting, At
    <3> QED
        BY <2>8, <3>1, Commits, OneForOne
  <2>9. CASE CommitRefresh(w)
      BY <2>9, Commits, OneForOne DEF Presenting
  <2>10. CASE CommitChange(w)
    <3>1. request'[w] = Idle /\ tokens' = RevokeAll(tokens, request[w].loaded)
        BY <2>10 DEF CommitChange, Done, TypeOK
    <3>2. ~ Presenting(w)'
        BY <3>1, InFlight DEF Presenting, At
    <3> QED
        BY <2>1, <3>1, <3>2, RevokeSome, NoneIssued DEF TypeOK
  <2> QED
      BY <1>1, <2>3, <2>4, <2>5, <2>6, <2>7, <2>8, <2>9, <2>10 DEF Serve
<1>2. ASSUME UNCHANGED request PROVE \A w \in Workers : Presenting(w)' =>
                                        request'[w].token \in Live
    BY <1>2, StillInHand DEF Presenting, At
<1>3. ASSUME NEW i \in DOMAIN tokens, Logout(i) PROVE SingleLine'
    BY <1>2, <1>3, RevokeSome, NoneIssued DEF Logout, TypeOK
<1>4. ASSUME NEW i \in DOMAIN tokens, Expire(i) PROVE SingleLine'
    BY <1>2, <1>4, ExpiredToken, NoneIssued
<1>5. CASE UNCHANGED vars
    BY <1>2, <1>5, NoneIssued DEF vars
<1> QED
    BY <1>1, <1>3, <1>4, <1>5 DEF Next

-----------------------------------------------------------------------------
(* The watched specification: until two requests overlap *)

LEMMA WatchedOneByOne ==
    /\ WatchedInit => OneByOne
    /\ [WatchedNext]_<<vars, overlapped>> /\ ~ overlapped' /\ (~ overlapped => OneByOne)
          => ~ overlapped /\ OneByOne'
<1>1. WatchedInit => OneByOne
    BY DEF WatchedInit, Init, OneByOne
<1>2. ASSUME WatchedNext, ~ overlapped' PROVE ~ overlapped /\ OneByOne'
    BY <1>2 DEF WatchedNext, OneByOne
<1>3. ASSUME UNCHANGED <<vars, overlapped>>, ~ overlapped', ~ overlapped => OneByOne
      PROVE  ~ overlapped /\ OneByOne'
    BY <1>3 DEF vars, OneByOne
<1> QED
    BY <1>1, <1>2, <1>3

Alone == ~ overlapped => OneByOne /\ Proven /\ SingleLine

LEMMA AloneInductive ==
    /\ WatchedInit => TypeOK /\ Alone
    /\ TypeOK /\ Alone /\ [WatchedNext]_<<vars, overlapped>> => TypeOK' /\ Alone'
<1>1. WatchedInit => TypeOK /\ Proven /\ SingleLine
  <2> SUFFICES ASSUME WatchedInit PROVE TypeOK /\ Proven /\ SingleLine
      OBVIOUS
  <2>1. TypeOK /\ tokens = <<>> /\ \A w \in Workers : request[w] = Idle
      BY TypeInit DEF WatchedInit, Init
  <2>2. Usable = {} /\ \A w \in Workers : ~ Presenting(w)
      BY <2>1, InFlight DEF Usable, Unrevoked, Presenting, At
  <2>3. Proven
      BY <2>1, <2>2, InFlight DEF Proven, Proves, SessionsProvePassword, At
  <2>4. SingleLine
      BY <2>1, <2>2 DEF SingleLine, Live
  <2> QED
      BY <2>1, <2>3, <2>4
<1>2. [WatchedNext]_<<vars, overlapped>> => [Next]_vars
    BY DEF WatchedNext
<1>3. ASSUME TypeOK, Alone, [WatchedNext]_<<vars, overlapped>> PROVE TypeOK' /\ Alone'
  <2>1. TypeOK'
      BY <1>2, <1>3, TypeNext
  <2>2. ASSUME ~ overlapped' PROVE OneByOne' /\ Proven' /\ SingleLine'
    <3>1. ~ overlapped /\ OneByOne'
        BY <1>3, <2>2, WatchedOneByOne DEF Alone
    <3> QED
        BY <1>2, <1>3, <3>1, ProvenNext, SingleLineNext DEF Alone
  <2> QED
      BY <2>1, <2>2 DEF Alone
<1> QED
    BY <1>1, <1>3, WatchedOneByOne DEF Alone

(* Until two requests overlap, whoever can refresh has proved the password *)
(* the account has now, however often it was changed.                      *)
THEOREM PasswordsEndSessions == WatchedSpec => []SessionsProvePasswordAlone
<1>1. Alone => SessionsProvePasswordAlone
    BY DEF Alone, Proven, SessionsProvePasswordAlone
<1> QED
    BY <1>1, AloneInductive, PTL DEF WatchedSpec

(* Until two requests overlap, one token of a login can be used, however   *)
(* often it is refreshed and whatever is logged out or expires meanwhile.  *)
THEOREM LoginsAreSingleSessions == WatchedSpec => []OneSessionPerLoginAlone
<1>1. Alone => OneSessionPerLoginAlone
    BY DEF Alone, SingleLine, Live, OneSessionPerLogin, OneSessionPerLoginAlone
<1> QED
    BY <1>1, AloneInductive, PTL DEF WatchedSpec

-----------------------------------------------------------------------------
(* The limit on failed logins                                              *)

(* The threads that satisfy something are finitely many, at most all.      *)
LEMMA SomeThreads ==
    ASSUME NEW S \in SUBSET Threads
    PROVE  /\ IsFiniteSet(S)
           /\ Cardinality(S) \in Nat
           /\ Cardinality(S) <= Cardinality(Threads)
  BY LimitAssumption, FS_Subset, FS_CardinalityType

LEMMA LimitConstants ==
    /\ MaxAttempts \in Nat /\ MaxAttempts > 0
    /\ Window \in Nat /\ Window > 0
    /\ MaxClears \in Nat
  BY LimitAssumption

(* A set of numbers has a least element: what is said of the oldest recent  *)
(* attempt needs no induction over the list of attempts.                    *)
LEMMA Least ==
    ASSUME NEW S \in SUBSET Nat, S # {}
    PROVE  \E x \in S : \A y \in S : x <= y
<1> DEFINE R == OpToRel(<, Nat)
<1>1. IsWellFoundedOn(R, Nat)
    BY NatLessThanWellFounded
<1>2. \A x, y \in Nat : x < y => <<x, y>> \in R
    BY DEF OpToRel
<1> HIDE DEF R
<1>3. PICK x \in S : \A y \in S : ~ <<y, x>> \in R
    BY <1>1, WFMin
<1>4. \A y \in S : ~ y < x
    BY <1>2, <1>3
<1> QED
    BY <1>3, <1>4

(* Attempts are in the order of time, the oldest first.                    *)
InOrder(ages) == \A i, j \in 1..Len(ages) : i <= j => ages[i] >= ages[j]

(* The first a attempts have left the window, and the others have not.     *)
Splits(ages, a) == /\ a \in 0..Len(ages)
                   /\ \A i \in 1..Len(ages) : ages[i] < Window <=> a < i

LEMMA SplitExists ==
    ASSUME Window \in Nat, NEW ages \in Seq(0..Window), InOrder(ages)
    PROVE  \E a \in 0..Len(ages) : Splits(ages, a)
<1> DEFINE recent == {i \in 1..Len(ages) : ages[i] < Window}
<1>0. Len(ages) \in Nat /\ \A i \in 1..Len(ages) : ages[i] \in Int
    OBVIOUS
<1>1. CASE recent = {}
  <2>1. Splits(ages, Len(ages))
      BY <1>0, <1>1 DEF Splits
  <2> QED
      BY <1>0, <2>1
<1>2. CASE recent # {}
  <2>1. recent \in SUBSET Nat
      OBVIOUS
  <2>2. PICK x \in recent : \A y \in recent : x <= y
      BY <1>2, <2>1, Least
  <2>3. \A i \in 1..Len(ages) : x <= i => ages[i] < Window
      BY <1>0, <2>2 DEF InOrder
  <2>4. \A i \in 1..Len(ages) : ages[i] < Window => x <= i
      BY <2>2
  <2>5. Splits(ages, x - 1)
      BY <1>0, <2>2, <2>3, <2>4 DEF Splits
  <2> QED
      BY <1>0, <2>2, <2>5
<1> QED
    BY <1>1, <1>2

LEMMA Between ==
    ASSUME NEW a \in Int, NEW b \in Int, a <= b
    PROVE  Cardinality((a + 1)..b) = b - a
<1>1. a + 1 \in Int
    OBVIOUS
<1>2. Cardinality((a + 1)..b) = IF a + 1 > b THEN 0 ELSE b - (a + 1) + 1
    BY <1>1, FS_Interval
<1> QED
    BY <1>2

(* Pruning drops the first attempts and keeps the others.                  *)
LEMMA PruneDrops ==
    ASSUME Window \in Nat, NEW ages \in Seq(0..Window), NEW a, Splits(ages, a)
    PROVE  Prune(ages) = [n \in 1..(Len(ages) - a) |-> ages[n + a]]
<1> DEFINE recent == {i \in DOMAIN ages : ages[i] < Window}
           Upto(i) == {k \in recent : k <= i}
<1>0. /\ Len(ages) \in Nat /\ a \in Nat /\ a <= Len(ages)
      /\ DOMAIN ages = 1..Len(ages)
    BY DEF Splits
<1>1. recent = (a + 1)..Len(ages)
    BY <1>0 DEF Splits
<1>2. Cardinality(recent) = Len(ages) - a
  <2>0. Len(ages) \in Int /\ a \in Int /\ a <= Len(ages)
      BY <1>0
  <2>1. Cardinality((a + 1)..Len(ages)) = Len(ages) - a
      BY <2>0, Between
  <2> QED
      BY <1>1, <2>1
<1>3. ASSUME NEW i \in recent PROVE Cardinality(Upto(i)) = i - a
  <2>1. Upto(i) = (a + 1)..i
      BY <1>0, <1>1, <1>3
  <2>2. i \in Int /\ a \in Int /\ a <= i
      BY <1>0, <1>1, <1>3
  <2> HIDE DEF Upto, recent
  <2>3. Cardinality((a + 1)..i) = i - a
      BY <2>2, Between
  <2> QED
      BY <2>1, <2>3
<1> HIDE DEF recent
<1>4. ASSUME NEW n \in 1..(Len(ages) - a)
      PROVE  (CHOOSE i \in recent : Cardinality(Upto(i)) = n) = n + a
  <2>1. n + a \in recent /\ Cardinality(Upto(n + a)) = n
      BY <1>0, <1>1, <1>3, <1>4
  <2>2. \A i \in recent : Cardinality(Upto(i)) = n => i = n + a
      BY <1>0, <1>1, <1>3, <1>4
  <2> QED
      BY <2>1, <2>2
<1>5. Prune(ages) =
          [n \in 1..Cardinality(recent) |->
              ages[CHOOSE i \in recent : Cardinality(Upto(i)) = n]]
    BY Zenon DEF Prune, recent, Cardinality, Cardinality
<1> HIDE DEF Upto
<1> QED
    BY <1>2, <1>4, <1>5

(* How many attempts of the window the list and the requests that passed   *)
(* the limit make together, at most.                                       *)
Room == MaxAttempts + (IF contended THEN Cardinality(Threads) - 1 ELSE 0)

(* How many logins there is room for while the list is emptied k times.    *)
Share(room, k) == room * k

(* How many logins of the window were decided when the list was emptied:   *)
(* pos[j] at the j-th time, none before the first.  Between two of them no *)
(* more are than there is room for.                                        *)
Marks(pos) ==
    /\ \A j \in 0..Len(cleared) : pos[j] \in 0..Len(decided)
    /\ pos[0] = 0
    /\ \A j \in 0..Len(cleared) : \A i \in 0..j :
          pos[i] <= pos[j] /\ pos[j] - pos[i] <= Share(Room, j - i)
    /\ \A j \in 1..Len(cleared) : \A i \in 1..pos[j] : decided[i] >= cleared[j]

(* The attempts of the window, all but the first a of the list, are the    *)
(* logins decided since the list was emptied last.                         *)
Fits(a, pos) ==
    /\ Splits(attempts, a)
    /\ Marks(pos)
    /\ pos[Len(cleared)] = Len(decided) - (Len(attempts) - a)
    /\ \A i \in (a + 1)..Len(attempts) :
          /\ i + (Len(decided) - Len(attempts)) \in 1..Len(decided)
          /\ decided[i + (Len(decided) - Len(attempts))] = attempts[i]
    /\ Len(attempts) - a + Cardinality(verifying) <= Room

LimitInv ==
    /\ LimitTypeOK
    /\ contended \in BOOLEAN
    /\ contended => Cardinality(Threads) >= 2
    /\ ~ contended => Cardinality(verifying) <= 1
    /\ InOrder(attempts) /\ InOrder(decided) /\ InOrder(cleared)
    /\ \E a \in Nat : \E pos : Fits(a, pos)

LEMMA LimitTypes ==
    ASSUME LimitTypeOK
    PROVE  /\ Len(attempts) \in Nat /\ Len(decided) \in Nat /\ Len(cleared) \in Nat
           /\ \A i \in 1..Len(attempts) : attempts[i] \in 0..Window
           /\ \A i \in 1..Len(decided) : decided[i] \in 0..(Window - 1)
           /\ \A i \in 1..Len(cleared) : cleared[i] \in 0..(Window - 1)
           /\ verifying \subseteq Threads
           /\ IsFiniteSet(verifying) /\ Cardinality(verifying) \in Nat
           /\ Cardinality(verifying) <= Cardinality(Threads)
           /\ Cardinality(Threads) \in Nat
<1>1. /\ IsFiniteSet(verifying) /\ Cardinality(verifying) \in Nat
      /\ Cardinality(verifying) <= Cardinality(Threads)
      /\ Cardinality(Threads) \in Nat
    BY SomeThreads DEF LimitTypeOK
<1>2. /\ Len(attempts) \in Nat
      /\ \A i \in 1..Len(attempts) : attempts[i] \in 0..Window
    BY LimitConstants DEF LimitTypeOK
<1>3. /\ Len(decided) \in Nat
      /\ \A i \in 1..Len(decided) : decided[i] \in 0..(Window - 1)
    BY LimitConstants DEF LimitTypeOK
<1>4. /\ Len(cleared) \in Nat
      /\ \A i \in 1..Len(cleared) : cleared[i] \in 0..(Window - 1)
    BY LimitConstants DEF LimitTypeOK
<1> QED
    BY <1>1, <1>2, <1>3, <1>4 DEF LimitTypeOK

LEMMA Shares ==
    /\ \A r, k \in Nat : Share(r, k) \in Nat
    /\ \A r \in Nat : Share(r, 0) = 0
    /\ \A r, k \in Nat : Share(r, k + 1) = Share(r, k) + r
    /\ \A r, q, k \in Nat : r <= q => Share(r, k) <= Share(q, k)
  BY DEF Share

(* A step may be the first to overlap another; the room is then wider.     *)
LEMMA Widens ==
    ASSUME LimitInv, verifying' \subseteq Threads,
           contended' = (contended \/ Cardinality(verifying') > 1)
    PROVE  /\ contended' \in BOOLEAN
           /\ contended' => Cardinality(Threads) >= 2
           /\ ~ contended' => Cardinality(verifying') <= 1
           /\ Cardinality(verifying') \in Nat
           /\ Cardinality(verifying') <= Cardinality(Threads)
           /\ Room \in Nat /\ Room' \in Nat /\ Room <= Room'
<1>1. /\ Cardinality(verifying') \in Nat
      /\ Cardinality(verifying') <= Cardinality(Threads)
      /\ Cardinality(Threads) \in Nat
    BY SomeThreads
<1>2. contended' = (contended \/ Cardinality(verifying') > 1)
    OBVIOUS
<1>3. /\ contended' \in BOOLEAN
      /\ contended' => Cardinality(Threads) >= 2
      /\ ~ contended' => Cardinality(verifying') <= 1
      /\ contended => contended'
  <2>1. contended => Cardinality(Threads) >= 2
      BY DEF LimitInv
  <2>2. CASE contended
      BY <1>2, <2>1, <2>2
  <2>3. CASE ~ contended
    <3>1. contended' <=> Cardinality(verifying') > 1
        BY <1>2, <2>3
    <3>2. contended' \in BOOLEAN
        BY <1>2, <2>3, Zenon
    <3> QED
        BY <1>1, <2>3, <3>1, <3>2
  <2> QED
      BY <2>2, <2>3
<1>4. Room \in Nat /\ Room' \in Nat /\ Room <= Room'
    BY <1>1, <1>3, LimitConstants DEF LimitInv, Room
<1> QED
    BY <1>1, <1>3, <1>4

(* Logins that are decided later, and a wider room, leave the marks true.  *)
LEMMA MarksKept ==
    ASSUME NEW pos, Marks(pos), cleared' = cleared,
           Len(cleared) \in Nat, Len(decided) \in Nat, Len(decided') \in Nat,
           Len(decided) <= Len(decided'),
           \A i \in 1..Len(decided) : decided'[i] = decided[i],
           Room \in Nat, Room' \in Nat, Room <= Room'
    PROVE  Marks(pos)'
<1> DEFINE L == Len(cleared)
           m == Len(decided)
<1>1. /\ pos[0] = 0 /\ \A j \in 0..L : pos[j] \in 0..m
      /\ \A j \in 0..L : \A i \in 0..j :
            pos[i] <= pos[j] /\ pos[j] - pos[i] <= Share(Room, j - i)
      /\ \A j \in 1..L : \A i \in 1..pos[j] : decided[i] >= cleared[j]
    BY DEF Marks
<1>2. ASSUME NEW j \in 0..L PROVE pos[j] \in 0..Len(decided')
  <2>1. pos[j] \in 0..m
      BY <1>1
  <2> QED
      BY <2>1
<1>3. ASSUME NEW j \in 0..L, NEW i \in 0..j
      PROVE  pos[i] <= pos[j] /\ pos[j] - pos[i] <= Share(Room', j - i)
  <2>1. j - i \in Nat /\ i \in 0..L
      OBVIOUS
  <2>2. Share(Room, j - i) <= Share(Room', j - i)
      BY <2>1, Shares
  <2>3. Share(Room, j - i) \in Nat /\ Share(Room', j - i) \in Nat
      BY <2>1, Shares
  <2>4. pos[i] \in Nat /\ pos[j] \in Nat
      BY <1>2, <2>1
  <2>5. pos[i] <= pos[j] /\ pos[j] - pos[i] <= Share(Room, j - i)
      BY <1>1
  <2> QED
      BY <2>2, <2>3, <2>4, <2>5
<1>4. ASSUME NEW j \in 1..L, NEW i \in 1..pos[j]
      PROVE  decided'[i] >= cleared[j]
  <2>1. j \in 0..L
      OBVIOUS
  <2>2. pos[j] \in 0..m
      BY <1>1, <2>1
  <2>3. i \in 1..m
      BY <2>2
  <2> QED
      BY <1>1, <2>3
<1> QED
    BY <1>1, <1>2, <1>3, <1>4 DEF Marks

LEMMA AdmitFits ==
    ASSUME LimitInv, NEW w \in Threads, Admit(w),
           contended' = (contended \/ Cardinality(verifying') > 1)
    PROVE  LimitInv'
<1>0. PICK a, pos : a \in Nat /\ Fits(a, pos)
    BY DEF LimitInv
<1> DEFINE n == Len(attempts) - a
<1>1. /\ attempts \in Seq(0..Window) /\ n \in Nat /\ Splits(attempts, a)
      /\ \A i \in 1..Len(attempts) : attempts[i] \in 0..Window
    BY <1>0, LimitTypes DEF LimitInv, LimitTypeOK, Fits, Splits
<1>2. attempts' = [i \in 1..n |-> attempts[i + a]]
    BY <1>1, LimitConstants, PruneDrops DEF Admit
<1>3. /\ attempts' \in Seq(0..Window) /\ Len(attempts') = n
      /\ \A i \in 1..n : attempts'[i] = attempts[i + a] /\ i + a \in 1..Len(attempts)
    BY <1>0, <1>1, <1>2
<1>4. InOrder(attempts')
  <2> SUFFICES ASSUME NEW i \in 1..n, NEW j \in 1..n, i <= j
               PROVE  attempts'[i] >= attempts'[j]
      BY <1>3 DEF InOrder
  <2>1. i + a <= j + a /\ i + a \in 1..Len(attempts) /\ j + a \in 1..Len(attempts)
      BY <1>0, <1>3
  <2> QED
      BY <1>3, <2>1 DEF LimitInv, InOrder
<1>5. /\ verifying' \subseteq Threads
      /\ verifying' = verifying \/ (n < MaxAttempts /\ verifying' = verifying \cup {w})
      /\ UNCHANGED <<decided, cleared>>
    BY <1>1, <1>3, LimitConstants, LimitTypes DEF Admit, LimitInv
<1>6. Splits(attempts', 0)
  <2>1. ASSUME NEW i \in 1..n PROVE attempts'[i] < Window /\ 0 < i
    <3>1. attempts'[i] = attempts[i + a] /\ i + a \in 1..Len(attempts) /\ a < i + a
        BY <1>0, <1>3
    <3> QED
        BY <1>1, <3>1 DEF Splits
  <2> QED
      BY <1>1, <1>3, <2>1 DEF Splits
<1>w. /\ Room \in Nat /\ Room' \in Nat /\ Room <= Room'
      /\ Cardinality(verifying') \in Nat
      /\ Cardinality(verifying') <= Cardinality(Threads)
      /\ ~ contended' => Cardinality(verifying') <= 1
    BY <1>5, Widens
<1>f. /\ Len(attempts) \in Nat /\ Len(decided) \in Nat /\ Len(cleared) \in Nat
      /\ pos[Len(cleared)] = Len(decided) - n
      /\ n + Cardinality(verifying) <= Room
    BY <1>0, LimitTypes DEF Fits, LimitInv
<1>7. n + Cardinality(verifying') <= Room'
  <2>1. CASE verifying' = verifying
      BY <1>w, <1>f, <1>1, <2>1
  <2>2. CASE n < MaxAttempts
    <3>1. Cardinality(verifying') <= IF contended' THEN Cardinality(Threads) ELSE 1
        BY <1>w
    <3> QED
        BY <1>w, <1>1, <2>2, <3>1, LimitConstants, SomeThreads DEF Room
  <2> QED
      BY <1>5, <2>1, <2>2
<1>8. Fits(0, pos)'
  <2>1. Marks(pos)'
      BY <1>0, <1>5, <1>w, <1>f, MarksKept DEF Fits
  <2>2. ASSUME NEW i \in 1..n
        PROVE  /\ i + (Len(decided) - n) \in 1..Len(decided)
               /\ decided[i + (Len(decided) - n)] = attempts'[i]
    <3>1. i + a \in (a + 1)..Len(attempts)
        BY <1>0, <1>1
    <3>2. i + a + (Len(decided) - Len(attempts)) = i + (Len(decided) - n)
        BY <1>0, <1>1, <1>f
    <3> QED
        BY <1>0, <1>3, <3>1, <3>2 DEF Fits
  <2>3. pos[Len(cleared)] = Len(decided) - (n - 0) /\ n - 0 = n
      BY <1>1, <1>f
  <2> QED
      BY <1>1, <1>3, <1>5, <1>6, <1>7, <2>1, <2>2, <2>3 DEF Fits
<1>9. LimitTypeOK'
    BY <1>3, <1>5 DEF LimitInv, LimitTypeOK
<1> QED
    BY <1>4, <1>5, <1>8, <1>9, Widens DEF LimitInv

(* What is decided now comes last, and is the most recent.                 *)
LEMMA AppendNow ==
    ASSUME NEW N \in Nat, NEW ages \in Seq(0..N), InOrder(ages)
    PROVE  /\ Append(ages, 0) \in Seq(0..N)
           /\ Len(Append(ages, 0)) = Len(ages) + 1
           /\ \A i \in 1..Len(ages) : Append(ages, 0)[i] = ages[i]
           /\ Append(ages, 0)[Len(ages) + 1] = 0
           /\ InOrder(Append(ages, 0))
<1> DEFINE n == Len(ages)
           new == Append(ages, 0)
<1>1. /\ n \in Nat /\ new \in Seq(0..N) /\ Len(new) = n + 1
      /\ \A i \in 1..n : new[i] = ages[i] /\ ages[i] \in 0..N
      /\ new[n + 1] = 0
    OBVIOUS
<1> HIDE DEF new
<1>2. ASSUME NEW i \in 1..(n + 1), NEW j \in 1..(n + 1), i <= j
      PROVE  new[i] >= new[j]
  <2>1. CASE j = n + 1
    <3>1. new[i] >= 0
        BY <1>1
    <3> QED
        BY <1>1, <2>1, <3>1
  <2>2. CASE j # n + 1
    <3>1. i \in 1..n /\ j \in 1..n
        BY <1>1, <1>2, <2>2
    <3> QED
        BY <1>1, <1>2, <3>1 DEF InOrder
  <2> QED
      BY <2>1, <2>2
<1>3. InOrder(new)
    BY <1>1, <1>2 DEF InOrder
<1> QED
    BY <1>1, <1>3 DEF new

LEMMA FailFits ==
    ASSUME LimitInv, NEW w \in Threads, Fail(w),
           contended' = (contended \/ Cardinality(verifying') > 1)
    PROVE  LimitInv'
<1>0. PICK a, pos : a \in Nat /\ Fits(a, pos)
    BY DEF LimitInv
<1> DEFINE n == Len(attempts)
           m == Len(decided)
<1>1. /\ attempts \in Seq(0..Window) /\ decided \in Seq(0..(Window - 1))
      /\ n \in Nat /\ m \in Nat /\ Len(cleared) \in Nat /\ a <= n
      /\ Window \in Nat /\ Window - 1 \in Nat
    BY <1>0, LimitTypes, LimitConstants DEF LimitInv, LimitTypeOK, Fits, Splits
<1>2. /\ attempts' \in Seq(0..Window) /\ Len(attempts') = n + 1
      /\ \A i \in 1..n : attempts'[i] = attempts[i]
      /\ attempts'[n + 1] = 0 /\ InOrder(attempts')
    BY <1>1, AppendNow DEF Fail, LimitInv
<1>3. /\ decided' \in Seq(0..(Window - 1)) /\ Len(decided') = m + 1
      /\ \A i \in 1..m : decided'[i] = decided[i]
      /\ decided'[m + 1] = 0 /\ InOrder(decided')
    BY <1>1, AppendNow DEF Fail, LimitInv
<1>4. /\ verifying' = verifying \ {w} /\ cleared' = cleared
      /\ verifying' \subseteq Threads
      /\ Cardinality(verifying') = Cardinality(verifying) - 1
      /\ Cardinality(verifying) \in Nat
    BY LimitTypes, OneLess DEF Fail, LimitInv
<1>5. Splits(attempts', a)
  <2>1. Splits(attempts, a)
      BY <1>0 DEF Fits
  <2>2. ASSUME NEW i \in 1..(n + 1)
        PROVE  attempts'[i] < Window <=> a < i
    <3>1. CASE i = n + 1
        BY <1>0, <1>1, <1>2, <3>1, LimitConstants
    <3>2. CASE i # n + 1
      <4>1. i \in 1..n
          BY <1>1, <3>2
      <4> QED
          BY <1>2, <2>1, <4>1 DEF Splits
    <3> QED
        BY <3>1, <3>2
  <2> QED
      BY <1>0, <1>1, <1>2, <2>2 DEF Splits
<1>6. ASSUME NEW i \in (a + 1)..(n + 1)
      PROVE  /\ i + (m - n) \in 1..(m + 1)
             /\ decided'[i + (m - n)] = attempts'[i]
  <2>1. CASE i = n + 1
    <3>1. i + (m - n) = m + 1
        BY <1>1, <2>1
    <3> QED
        BY <1>1, <1>2, <1>3, <2>1, <3>1
  <2>2. CASE i # n + 1
    <3>1. i \in (a + 1)..n /\ i \in 1..n
        BY <1>0, <1>1, <2>2
    <3>2. i + (m - n) \in 1..m /\ decided[i + (m - n)] = attempts[i]
        BY <1>0, <3>1 DEF Fits
    <3>3. decided'[i + (m - n)] = decided[i + (m - n)] /\ attempts'[i] = attempts[i]
        BY <1>2, <1>3, <3>1, <3>2
    <3> QED
        BY <1>1, <3>2, <3>3
  <2> QED
      BY <2>1, <2>2
<1>w. Room \in Nat /\ Room' \in Nat /\ Room <= Room'
    BY <1>4, Widens
<1>7. /\ (m + 1) - (n + 1) = m - n
      /\ pos[Len(cleared)] = (m + 1) - ((n + 1) - a)
      /\ (n + 1) - a + Cardinality(verifying') <= Room'
    BY <1>0, <1>1, <1>4, <1>w DEF Fits
<1>8. Marks(pos)'
  <2>1. Len(decided') \in Nat /\ m <= Len(decided')
      BY <1>1, <1>3
  <2>2. Marks(pos)
      BY <1>0 DEF Fits
  <2> QED
      BY <1>1, <1>3, <1>4, <1>w, <2>1, <2>2, MarksKept
<1>9. Fits(a, pos)'
    BY <1>2, <1>3, <1>4, <1>5, <1>6, <1>7, <1>8 DEF Fits
<1>10. LimitTypeOK'
    BY <1>2, <1>3, <1>4 DEF LimitTypeOK, LimitInv
<1> QED
    BY <1>0, <1>2, <1>3, <1>4, <1>9, <1>10, Widens DEF LimitInv

(* When the list is emptied, the logins decided since it was emptied last  *)
(* are what it held of the window and, if a login succeeds, that one: no   *)
(* more than there is room for.                                            *)
LEMMA ClearFits ==
    ASSUME LimitInv, verifying' \subseteq verifying,
           contended' = (contended \/ Cardinality(verifying') > 1),
           attempts' = <<>>, cleared' = Append(cleared, 0),
           Len(cleared) < MaxClears,
           \/ decided' = decided
           \/ decided' = Append(decided, 0) /\ verifying # {}
    PROVE  LimitInv'
<1>0. PICK a, pos : a \in Nat /\ Fits(a, pos)
    BY DEF LimitInv
<1> DEFINE n == Len(attempts) - a
           m == Len(decided)
           L == Len(cleared)
           M == Len(decided')
<1>1. /\ verifying' \subseteq Threads /\ Cardinality(verifying') \in Nat
      /\ Cardinality(verifying') <= Cardinality(verifying)
      /\ Cardinality(verifying) \in Nat
      /\ verifying # {} => Cardinality(verifying) > 0
  <2>1. /\ verifying \subseteq Threads /\ IsFiniteSet(verifying)
        /\ Cardinality(verifying) \in Nat
      BY LimitTypes DEF LimitInv
  <2>2. /\ Cardinality(verifying') \in Nat
        /\ Cardinality(verifying') <= Cardinality(verifying)
      BY <2>1, FS_Subset, FS_CardinalityType
  <2>3. verifying # {} => Cardinality(verifying) # 0
      BY <2>1, FS_EmptySet
  <2> QED
      BY <2>1, <2>2, <2>3
<1>2. /\ n \in Nat /\ m \in Nat /\ L \in Nat
      /\ pos[L] = m - n /\ n + Cardinality(verifying) <= Room
    BY <1>0, LimitTypes DEF LimitInv, Fits, Splits
<1>w. Room \in Nat /\ Room' \in Nat /\ Room <= Room'
    BY <1>1, Widens
<1>3. /\ cleared' \in Seq(0..(Window - 1)) /\ Len(cleared') = L + 1
      /\ \A i \in 1..L : cleared'[i] = cleared[i]
      /\ cleared'[L + 1] = 0 /\ InOrder(cleared')
  <2>1. /\ Window - 1 \in Nat /\ cleared \in Seq(0..(Window - 1))
        /\ InOrder(cleared)
      BY LimitConstants DEF LimitInv, LimitTypeOK
  <2> QED
      BY <2>1, AppendNow
<1>4. /\ decided' \in Seq(0..(Window - 1)) /\ M \in Nat /\ m <= M
      /\ \A i \in 1..m : decided'[i] = decided[i]
      /\ \A i \in 1..M : decided'[i] >= 0
      /\ InOrder(decided')
      /\ M - pos[L] <= Room
  <2>1. /\ Window - 1 \in Nat /\ decided \in Seq(0..(Window - 1))
        /\ InOrder(decided)
      BY LimitConstants DEF LimitInv, LimitTypeOK
  <2>2. CASE decided' = decided
    <3>1. m - pos[L] <= Room
        BY <1>1, <1>2, <1>w
    <3>2. \A i \in 1..m : decided[i] >= 0
        BY <2>1
    <3> QED
        BY <1>2, <2>1, <2>2, <3>1, <3>2
  <2>3. CASE decided' = Append(decided, 0) /\ verifying # {}
    <3>1. /\ decided' \in Seq(0..(Window - 1)) /\ M = m + 1
          /\ \A i \in 1..m : decided'[i] = decided[i]
          /\ InOrder(decided')
        BY <2>1, <2>3, AppendNow
    <3>2. M - pos[L] <= Room
        BY <1>1, <1>2, <1>w, <2>3, <3>1
    <3>3. \A i \in 1..M : decided'[i] >= 0
        BY <2>1, <3>1
    <3> QED
        BY <1>2, <3>1, <3>2, <3>3
  <2> QED
      BY <2>2, <2>3
<1>5. PICK next : next = [j \in 0..(L + 1) |-> IF j = L + 1 THEN M ELSE pos[j]]
    OBVIOUS
<1>6. /\ pos[0] = 0 /\ \A j \in 0..L : pos[j] \in 0..m
      /\ \A j \in 0..L : \A i \in 0..j :
            pos[i] <= pos[j] /\ pos[j] - pos[i] <= Share(Room, j - i)
      /\ \A j \in 1..L : \A i \in 1..pos[j] : decided[i] >= cleared[j]
    BY <1>0 DEF Fits, Marks
<1>7. /\ \A j \in 0..(L + 1) : next[j] \in 0..M
      /\ next[0] = 0 /\ next[L + 1] = M
      /\ \A j \in 0..L : next[j] = pos[j] /\ pos[j] \in 0..m
  <2>1. \A j \in 0..(L + 1) : j # L + 1 => j \in 0..L /\ pos[j] \in 0..M
      BY <1>2, <1>4, <1>6
  <2>2. M \in 0..M /\ 0 # L + 1 /\ \A j \in 0..L : j # L + 1 /\ j \in 0..(L + 1)
      BY <1>2, <1>4
  <2>3. 0 \in 0..(L + 1) /\ L + 1 \in 0..(L + 1)
      BY <1>2
  <2> QED
      BY <1>5, <1>6, <2>1, <2>2, <2>3
<1>8. ASSUME NEW j \in 0..(L + 1), NEW i \in 0..j
      PROVE  next[i] <= next[j] /\ next[j] - next[i] <= Share(Room', j - i)
  <2>1. CASE j # L + 1
    <3>1. j \in 0..L /\ i \in 0..L /\ j - i \in Nat
        BY <1>2, <2>1
    <3>2. Share(Room, j - i) <= Share(Room', j - i)
        BY <3>1, <1>w, Shares
    <3>3. Share(Room, j - i) \in Nat /\ Share(Room', j - i) \in Nat
        BY <3>1, <1>w, Shares
    <3>4. pos[i] <= pos[j] /\ pos[j] - pos[i] <= Share(Room, j - i)
        BY <1>6, <3>1
    <3> QED
        BY <1>7, <3>1, <3>2, <3>3, <3>4
  <2>2. CASE j = L + 1 /\ i = L + 1
    <3>1. j - i = 0 /\ Share(Room', 0) = 0
        BY <1>2, <1>w, <2>2, Shares
    <3> QED
        BY <1>4, <1>7, <2>2, <3>1
  <2>3. CASE j = L + 1 /\ i # L + 1
    <3>1. i \in 0..L /\ L \in 0..L /\ L - i \in Nat /\ j - i = (L - i) + 1
        BY <1>2, <2>3
    <3>2. pos[i] <= pos[L] /\ pos[L] - pos[i] <= Share(Room, L - i)
        BY <1>6, <3>1
    <3>n. pos[i] \in Nat /\ pos[L] \in Nat
      <4>1. pos[i] \in 0..m /\ pos[L] \in 0..m
          BY <1>6, <3>1
      <4> QED
          BY <4>1
    <3>m. M \in Nat /\ pos[L] <= M /\ M - pos[L] <= Room
        BY <1>2, <1>4
    <3>3. /\ Share(Room, L - i) \in Nat /\ Share(Room', L - i) \in Nat
          /\ Share(Room, L - i) <= Share(Room', L - i)
          /\ Share(Room', (L - i) + 1) = Share(Room', L - i) + Room'
        BY <3>1, <1>w, Shares
    <3>4. M - pos[i] <= Share(Room', L - i) + Room' /\ pos[i] <= M
        BY <1>w, <3>2, <3>3, <3>m, <3>n
    <3> QED
        BY <1>7, <2>3, <3>1, <3>3, <3>4, <3>n
  <2> QED
      BY <2>1, <2>2, <2>3
<1>9. ASSUME NEW j \in 1..(L + 1), NEW i \in 1..next[j]
      PROVE  decided'[i] >= cleared'[j]
  <2>1. CASE j = L + 1
      BY <1>3, <1>4, <1>7, <2>1
  <2>2. CASE j # L + 1
    <3>1. j \in 1..L /\ j \in 0..L
        BY <1>2, <2>2
    <3>2. next[j] = pos[j] /\ pos[j] \in 0..m
        BY <1>7, <3>1
    <3>3. i \in 1..pos[j] /\ i \in 1..m
        BY <1>2, <3>2
    <3> QED
        BY <1>3, <1>4, <1>6, <3>1, <3>3
  <2> QED
      BY <2>1, <2>2
<1>10. Marks(next)'
    BY <1>3, <1>7, <1>8, <1>9 DEF Marks
<1>11. Fits(0, next)'
  <2>1. Cardinality(verifying') <= Room'
      BY <1>1, <1>2, <1>w
  <2> QED
      BY <1>1, <1>3, <1>4, <1>7, <1>10, <2>1 DEF Fits, Splits
<1>12. LimitTypeOK'
  <2>1. Len(cleared') <= MaxClears
      BY <1>2, <1>3, LimitConstants
  <2>2. attempts' \in Seq(0..Window)
    <3>1. <<>> \in Seq(0..Window)
        OBVIOUS
    <3> QED
        BY <3>1, Zenon
  <2> QED
      BY <1>1, <1>3, <1>4, <2>1, <2>2 DEF LimitTypeOK
<1>13. InOrder(attempts')
    BY DEF InOrder
<1> QED
    BY <1>1, <1>3, <1>4, <1>11, <1>12, <1>13, Widens DEF LimitInv

(* A request that ends without an answer to the password leaves room.      *)
LEMMA AbortFits ==
    ASSUME LimitInv, NEW w \in Threads, GiveUp(w),
           contended' = (contended \/ Cardinality(verifying') > 1)
    PROVE  LimitInv'
<1>0. PICK a, pos : a \in Nat /\ Fits(a, pos)
    BY DEF LimitInv
<1>1. /\ UNCHANGED <<attempts, decided, cleared>>
      /\ verifying' \subseteq Threads /\ Cardinality(verifying') \in Nat
      /\ Cardinality(verifying') <= Cardinality(verifying)
      /\ Cardinality(verifying) \in Nat
  <2>1. /\ w \in verifying /\ verifying' = verifying \ {w}
        /\ UNCHANGED <<attempts, decided, cleared>>
      BY DEF GiveUp
  <2>2. verifying \subseteq Threads /\ IsFiniteSet(verifying)
      BY LimitTypes DEF LimitInv
  <2>3. /\ Cardinality(verifying) \in Nat /\ Cardinality(verifying \ {w}) \in Nat
        /\ Cardinality(verifying \ {w}) = Cardinality(verifying) - 1
      BY <2>1, <2>2, OneLess
  <2> QED
      BY <2>1, <2>2, <2>3
<1>w. Room \in Nat /\ Room' \in Nat /\ Room <= Room'
    BY <1>1, Widens
<1>2. Len(attempts) \in Nat /\ Len(decided) \in Nat /\ Len(cleared) \in Nat
    BY LimitTypes DEF LimitInv
<1>3. Marks(pos)'
    BY <1>0, <1>1, <1>2, <1>w, MarksKept DEF Fits
<1>4. Len(attempts) - a + Cardinality(verifying') <= Room'
    BY <1>0, <1>1, <1>2, <1>w DEF Fits
<1>5. Fits(a, pos)'
    BY <1>0, <1>1, <1>3, <1>4 DEF Fits
<1>6. LimitTypeOK' /\ InOrder(attempts') /\ InOrder(decided') /\ InOrder(cleared')
    BY <1>1 DEF LimitInv, LimitTypeOK
<1> QED
    BY <1>0, <1>1, <1>5, <1>6, Widens DEF LimitInv

LEMMA OlderAges ==
    \A x, y \in 0..Window :
        /\ Older(x) \in 0..Window
        /\ x >= y => Older(x) >= Older(y)
        /\ Older(x) >= x
        /\ Older(x) < Window => x < Window
  BY LimitConstants DEF Older

LEMMA OlderList ==
    ASSUME NEW ages \in Seq(0..Window), InOrder(ages), NEW older,
           older = Aged(ages)
    PROVE  /\ older \in Seq(0..Window)
           /\ Len(older) = Len(ages)
           /\ \A i \in 1..Len(ages) : older[i] = Older(ages[i])
           /\ InOrder(older)
<1>1. /\ Len(ages) \in Nat /\ DOMAIN ages = 1..Len(ages)
      /\ \A i \in 1..Len(ages) : ages[i] \in 0..Window
    BY LimitConstants
<1>2. /\ \A i \in 1..Len(ages) : older[i] = Older(ages[i])
      /\ \A i \in 1..Len(ages) : older[i] \in 0..Window
    BY <1>1, OlderAges DEF Aged
<1>3. older \in Seq(0..Window) /\ Len(older) = Len(ages)
  <2>1. older = [i \in 1..Len(ages) |-> older[i]]
      BY <1>1 DEF Aged
  <2> QED
      BY <1>1, <1>2, <2>1
<1>4. InOrder(older)
    BY <1>1, <1>2, <1>3, OlderAges DEF InOrder
<1> QED
    BY <1>2, <1>3, <1>4

(* The first k of a history leave the window as time goes by.              *)
Drops(ages, later, k) ==
    /\ k \in 0..Len(ages)
    /\ Len(later) = Len(ages) - k
    /\ \A i \in 1..(Len(ages) - k) : later[i] = Older(ages[i + k])
    /\ \A i \in 1..Len(ages) : Older(ages[i]) < Window <=> k < i

LEMMA HistoryDrops ==
    ASSUME NEW ages \in Seq(0..(Window - 1)), InOrder(ages),
           NEW later, later = Prune(Aged(ages))
    PROVE  /\ later \in Seq(0..(Window - 1)) /\ InOrder(later)
           /\ \E k : Drops(ages, later, k)
<1> DEFINE m == Len(ages)
<1>1. /\ ages \in Seq(0..Window) /\ m \in Nat
      /\ \A i \in 1..m : ages[i] \in 0..(Window - 1)
  <2>1. \A x \in 0..(Window - 1) : x \in 0..Window
      BY LimitConstants
  <2> QED
      BY <2>1, LimitConstants
<1>2. PICK aged : aged = Aged(ages)
    OBVIOUS
<1>3. /\ aged \in Seq(0..Window) /\ Len(aged) = m /\ InOrder(aged)
      /\ \A i \in 1..m : aged[i] = Older(ages[i])
    BY <1>1, <1>2, OlderList
<1>4. PICK k \in 0..m : Splits(aged, k)
    BY <1>3, SplitExists, LimitConstants
<1>5. later = [i \in 1..(m - k) |-> aged[i + k]]
    BY <1>2, <1>3, <1>4, PruneDrops, LimitConstants
<1>6. m - k \in Nat
    BY <1>1, <1>4
<1>7. ASSUME NEW i \in 1..(m - k)
      PROVE  i + k \in 1..m /\ aged[i + k] \in 0..(Window - 1)
  <2>1. i + k \in 1..m /\ k < i + k
      BY <1>1, <1>4
  <2>2. aged[i + k] < Window /\ aged[i + k] \in 0..Window
      BY <1>3, <1>4, <2>1, LimitConstants DEF Splits
  <2> QED
      BY <2>1, <2>2, LimitConstants
<1>8. later \in Seq(0..(Window - 1))
  <2> DEFINE fresh == 0..(Window - 1)
  <2>1. \A i \in 1..(m - k) : aged[i + k] \in fresh
      BY <1>7
  <2> HIDE DEF fresh
  <2>2. later \in Seq(fresh)
      BY <1>5, <1>6, <2>1
  <2> QED
      BY <2>2 DEF fresh
<1>9. /\ Len(later) = m - k
      /\ \A i \in 1..(m - k) : later[i] = aged[i + k]
    BY <1>5, <1>6
<1>10. InOrder(later)
  <2> SUFFICES ASSUME NEW i \in 1..(m - k), NEW j \in 1..(m - k), i <= j
               PROVE  later[i] >= later[j]
      BY <1>9 DEF InOrder
  <2>1. i + k <= j + k /\ i + k \in 1..m /\ j + k \in 1..m
      BY <1>4, <1>7
  <2> QED
      BY <1>3, <1>9, <2>1 DEF InOrder
<1>11. /\ \A i \in 1..(m - k) : later[i] = Older(ages[i + k])
       /\ \A i \in 1..m : Older(ages[i]) < Window <=> k < i
    BY <1>3, <1>4, <1>7, <1>9 DEF Splits
<1> QED
    BY <1>4, <1>8, <1>9, <1>10, <1>11 DEF Drops

(* The marks of the histories that are left: the logins that leave the     *)
(* window are the first ones, and those decided before a clearing that     *)
(* leaves it leave it too.                                                 *)
LEMMA MarksDrop ==
    ASSUME LimitInv, NEW pos, Marks(pos), Room \in Nat, Room' \in Nat, Room <= Room',
           NEW k, NEW d, Drops(decided, decided', k), Drops(cleared, cleared', d),
           NEW next,
           next = [j \in 0..(Len(cleared) - d) |->
                      IF pos[j + d] > k THEN pos[j + d] - k ELSE 0]
    PROVE  Marks(next)'
<1> DEFINE m == Len(decided)
           L == Len(cleared)
<1>d. /\ k \in 0..m /\ Len(decided') = m - k
      /\ \A i \in 1..(m - k) : decided'[i] = Older(decided[i + k])
      /\ \A i \in 1..m : Older(decided[i]) < Window <=> k < i
      /\ d \in 0..L /\ Len(cleared') = L - d
      /\ \A i \in 1..(L - d) : cleared'[i] = Older(cleared[i + d])
      /\ \A i \in 1..L : Older(cleared[i]) < Window <=> d < i
    BY DEF Drops
<1>n. m \in Nat /\ L \in Nat
    BY LimitTypes DEF LimitInv
<1>1. /\ m \in Nat /\ L \in Nat /\ k \in Nat /\ d \in Nat
      /\ k <= m /\ d <= L /\ m - k \in Nat /\ L - d \in Nat
    BY <1>d, <1>n
<1>o. /\ \A i \in 1..m : decided[i] \in 0..Window
      /\ \A i \in 1..L : cleared[i] \in 0..Window
      /\ Window \in Int
    BY LimitTypes, LimitConstants DEF LimitInv
<1>2. /\ pos[0] = 0 /\ \A j \in 0..L : pos[j] \in 0..m
      /\ \A j \in 0..L : \A i \in 0..j :
            pos[i] <= pos[j] /\ pos[j] - pos[i] <= Share(Room, j - i)
      /\ \A j \in 1..L : \A i \in 1..pos[j] : decided[i] >= cleared[j]
    BY DEF Marks
<1>3. pos[d] <= k
  <2>1. CASE d = 0
      BY <1>1, <1>2, <2>1
  <2>2. CASE d # 0 /\ pos[d] > k
    <3>1. d \in 1..L /\ pos[d] \in 0..m
        BY <1>1, <1>2, <2>2
    <3>2. pos[d] \in 1..m /\ pos[d] \in 1..pos[d]
        BY <1>1, <2>2, <3>1
    <3>3. decided[pos[d]] >= cleared[d]
        BY <1>2, <3>1, <3>2
    <3>4. Older(decided[pos[d]]) < Window
        BY <1>d, <2>2, <3>2
    <3>5. ~ Older(cleared[d]) < Window
        BY <1>1, <1>d, <3>1
    <3>6. decided[pos[d]] \in 0..Window /\ cleared[d] \in 0..Window
        BY <1>o, <3>1, <3>2
    <3>7. /\ Older(decided[pos[d]]) >= Older(cleared[d])
          /\ Older(decided[pos[d]]) \in 0..Window /\ Older(cleared[d]) \in 0..Window
        BY <3>3, <3>6, OlderAges
    <3> QED
        BY <1>o, <3>4, <3>5, <3>7
  <2>3. pos[d] \in Nat
      BY <1>1, <1>2
  <2> QED
      BY <1>1, <2>1, <2>2, <2>3
<1>4. ASSUME NEW j \in 0..(L - d)
      PROVE  /\ j + d \in 0..L /\ pos[j + d] \in 0..m
             /\ next[j] = IF pos[j + d] > k THEN pos[j + d] - k ELSE 0
             /\ next[j] \in 0..(m - k)
  <2>1. j + d \in 0..L
      BY <1>1
  <2>2. pos[j + d] \in 0..m
      BY <1>2, <2>1
  <2> QED
      BY <1>1, <2>1, <2>2
<1>5. next[0] = 0
  <2>1. 0 \in 0..(L - d) /\ 0 + d = d
      BY <1>1
  <2>2. next[0] = IF pos[d] > k THEN pos[d] - k ELSE 0
      BY <1>4, <2>1
  <2>3. ~ pos[d] > k
    <3>1. d \in 0..L
        BY <1>1
    <3>2. pos[d] \in Nat
        BY <1>2, <3>1
    <3> QED
        BY <1>1, <1>3, <3>2
  <2> QED
      BY <2>2, <2>3
<1>6. ASSUME NEW j \in 0..(L - d), NEW i \in 0..j
      PROVE  next[i] <= next[j] /\ next[j] - next[i] <= Share(Room', j - i)
  <2>1. /\ i \in 0..(L - d) /\ j + d \in 0..L /\ i + d \in 0..(j + d)
        /\ (j + d) - (i + d) = j - i /\ j - i \in Nat
      BY <1>1
  <2>2. /\ pos[i + d] <= pos[j + d]
        /\ pos[j + d] - pos[i + d] <= Share(Room, j - i)
      BY <1>2, <2>1
  <2>3. /\ Share(Room, j - i) <= Share(Room', j - i)
        /\ Share(Room, j - i) \in Nat /\ Share(Room', j - i) \in Nat
      BY <2>1, Shares
  <2>4. /\ pos[i + d] \in 0..m /\ pos[j + d] \in 0..m
        /\ next[i] = IF pos[i + d] > k THEN pos[i + d] - k ELSE 0
        /\ next[j] = IF pos[j + d] > k THEN pos[j + d] - k ELSE 0
      BY <1>4, <2>1
  <2>5. pos[i + d] \in Nat /\ pos[j + d] \in Nat /\ k \in Nat
      BY <1>1, <2>4
  <2>6. CASE pos[i + d] > k
    <3>1. pos[j + d] > k
        BY <2>2, <2>5, <2>6
    <3>2. next[i] = pos[i + d] - k /\ next[j] = pos[j + d] - k
        BY <2>4, <2>6, <3>1
    <3> QED
        BY <2>2, <2>3, <2>5, <2>6, <3>2
  <2>7. CASE ~ pos[i + d] > k /\ pos[j + d] > k
    <3>1. next[i] = 0 /\ next[j] = pos[j + d] - k
        BY <2>4, <2>7
    <3> QED
        BY <2>2, <2>3, <2>5, <2>7, <3>1
  <2>8. CASE ~ pos[i + d] > k /\ ~ pos[j + d] > k
    <3>1. next[i] = 0 /\ next[j] = 0
        BY <2>4, <2>8
    <3> QED
        BY <2>3, <3>1
  <2> QED
      BY <2>6, <2>7, <2>8
<1>7. ASSUME NEW j \in 1..(L - d), NEW i \in 1..next[j]
      PROVE  decided'[i] >= cleared'[j]
  <2>1. j \in 0..(L - d) /\ j + d \in 1..L
      BY <1>1
  <2>2. next[j] \in 0..(m - k) /\ i \in Nat /\ i >= 1 /\ i <= next[j]
      BY <1>4, <2>1
  <2>3. pos[j + d] > k /\ next[j] = pos[j + d] - k /\ pos[j + d] \in 0..m
      BY <1>4, <2>1, <2>2
  <2>4. i + k \in 1..pos[j + d] /\ i + k \in 1..m /\ i \in 1..(m - k)
      BY <1>1, <2>2, <2>3
  <2>5. decided[i + k] >= cleared[j + d]
      BY <1>2, <2>1, <2>4
  <2>6. Older(decided[i + k]) >= Older(cleared[j + d])
      BY <1>o, <2>1, <2>4, <2>5, OlderAges
  <2> QED
      BY <1>d, <2>4, <2>6
<1> QED
    BY <1>4, <1>5, <1>6, <1>7, <1>d DEF Marks

LEMMA TickFits ==
    ASSUME LimitInv, Tick,
           contended' = (contended \/ Cardinality(verifying') > 1)
    PROVE  LimitInv'
<1>0. PICK a, pos : a \in Nat /\ Fits(a, pos)
    BY DEF LimitInv
<1> DEFINE n == Len(attempts)
           m == Len(decided)
           L == Len(cleared)
<1>1. /\ attempts \in Seq(0..Window) /\ InOrder(attempts)
      /\ n \in Nat /\ m \in Nat /\ L \in Nat /\ a <= n
      /\ \A i \in 1..n : attempts[i] \in 0..Window
      /\ decided \in Seq(0..(Window - 1)) /\ InOrder(decided)
      /\ cleared \in Seq(0..(Window - 1)) /\ InOrder(cleared)
      /\ L <= MaxClears
    BY <1>0, LimitTypes DEF LimitInv, LimitTypeOK, Fits, Splits
<1>2. /\ attempts' \in Seq(0..Window) /\ Len(attempts') = n /\ InOrder(attempts')
      /\ \A i \in 1..n : attempts'[i] = Older(attempts[i])
    BY <1>1, OlderList DEF Tick
<1>3. /\ decided' = Prune(Aged(decided)) /\ cleared' = Prune(Aged(cleared))
      /\ verifying' = verifying
    BY DEF Tick
<1>4. decided' \in Seq(0..(Window - 1)) /\ InOrder(decided')
    BY <1>1, <1>3, HistoryDrops
<1>5. cleared' \in Seq(0..(Window - 1)) /\ InOrder(cleared')
    BY <1>1, <1>3, HistoryDrops
<1>6. PICK k : Drops(decided, decided', k)
    BY <1>1, <1>3, HistoryDrops
<1>7. PICK d : Drops(cleared, cleared', d)
    BY <1>1, <1>3, HistoryDrops
<1>k. /\ k \in 0..m /\ Len(decided') = m - k
      /\ \A i \in 1..(m - k) : decided'[i] = Older(decided[i + k])
      /\ \A i \in 1..m : Older(decided[i]) < Window <=> k < i
      /\ d \in 0..L /\ Len(cleared') = L - d
    BY <1>6, <1>7 DEF Drops
<1>8. PICK b \in 0..n : Splits(attempts', b)
    BY <1>2, SplitExists, LimitConstants
<1>w. /\ Room \in Nat /\ Room' \in Nat /\ Room <= Room'
      /\ verifying' \subseteq Threads
    BY <1>3, Widens, LimitTypes DEF LimitInv
<1>9. PICK next : next = [j \in 0..(L - d) |->
                             IF pos[j + d] > k THEN pos[j + d] - k ELSE 0]
    OBVIOUS
<1>10. Marks(next)'
  <2>1. Marks(pos)
      BY <1>0 DEF Fits
  <2> QED
      BY <1>6, <1>7, <1>9, <1>w, <2>1, MarksDrop
<1>f. /\ pos[L] = m - (n - a)
      /\ n - a + Cardinality(verifying) <= Room
    BY <1>0 DEF Fits
<1>g. \A i \in (a + 1)..n : /\ i + (m - n) \in 1..m
                             /\ decided[i + (m - n)] = attempts[i]
    BY <1>0 DEF Fits
<1>11. a <= b
  <2>1. CASE a = 0
      BY <1>8, <2>1
  <2>2. CASE b < a
    <3>1. a \in 1..n /\ b < a
        BY <1>0, <1>1, <2>2, <1>8
    <3>2. attempts'[a] < Window
        BY <1>2, <1>8, <3>1 DEF Splits
    <3>3. ~ attempts[a] < Window
        BY <1>0, <3>1 DEF Fits, Splits
    <3> QED
        BY <1>1, <1>2, <3>1, <3>2, <3>3, OlderAges
  <2> QED
      BY <1>0, <1>8, <2>1, <2>2
<1>12. ASSUME NEW i \in (a + 1)..n
       PROVE  /\ i \in 1..n /\ i + (m - n) \in 1..m
              /\ Older(decided[i + (m - n)]) = attempts'[i]
              /\ b < i <=> k < i + (m - n)
  <2>1. i \in 1..n
      BY <1>0, <1>1
  <2>2. i + (m - n) \in 1..m /\ decided[i + (m - n)] = attempts[i]
      BY <1>g
  <2>3. attempts'[i] < Window <=> b < i
      BY <1>2, <1>8, <2>1 DEF Splits
  <2> QED
      BY <1>2, <1>k, <2>1, <2>2, <2>3
<1>13. ASSUME NEW i \in (b + 1)..n
       PROVE  /\ i + ((m - k) - n) \in 1..(m - k)
              /\ decided'[i + ((m - k) - n)] = attempts'[i]
  <2>1. i \in (a + 1)..n /\ b < i
      BY <1>0, <1>1, <1>8, <1>11
  <2>2. /\ i + (m - n) \in 1..m /\ k < i + (m - n)
        /\ Older(decided[i + (m - n)]) = attempts'[i]
      BY <1>12, <2>1
  <2>3. /\ i + ((m - k) - n) \in 1..(m - k)
        /\ i + ((m - k) - n) + k = i + (m - n)
      BY <1>1, <1>k, <2>1, <2>2
  <2> QED
      BY <1>k, <2>2, <2>3
<1>14. next[L - d] = (m - k) - (n - b)
  <2>1. next[L - d] = IF pos[L] > k THEN pos[L] - k ELSE 0
    <3>1. L - d \in 0..(L - d) /\ (L - d) + d = L
        BY <1>1, <1>k
    <3> QED
        BY <1>9, <3>1
  <2>2. b < n => k < m - (n - b) + 1
    <3>1. ASSUME b < n PROVE k < (b + 1) + (m - n)
      <4>1. b + 1 \in (a + 1)..n /\ b < b + 1
          BY <1>0, <1>1, <1>8, <1>11, <3>1
      <4> QED
          BY <1>12, <4>1
    <3> QED
        BY <1>1, <1>8, <3>1
  <2>3. a < b => k >= m - (n - b)
    <3>1. ASSUME a < b PROVE ~ k < b + (m - n)
      <4>1. b \in (a + 1)..n /\ ~ b < b
          BY <1>0, <1>1, <1>8, <3>1
      <4> QED
          BY <1>12, <4>1
    <3> QED
        BY <1>1, <1>k, <1>8, <3>1
  <2>4. k <= m - (n - b)
      BY <1>1, <1>k, <1>8, <2>2
  <2>n. /\ n \in Nat /\ m \in Nat /\ a \in Nat /\ b \in Nat /\ k \in Nat
        /\ pos[L] = m - (n - a)
      BY <1>0, <1>1, <1>8, <1>f, <1>k
  <2>5. CASE a = b
      BY <2>1, <2>4, <2>5, <2>n
  <2>6. CASE a < b
    <3>1. k = m - (n - b) /\ ~ pos[L] > k
        BY <2>3, <2>4, <2>6, <2>n
    <3> QED
        BY <2>1, <2>n, <3>1
  <2> QED
      BY <1>0, <1>8, <1>11, <2>5, <2>6
<1>15. n - b + Cardinality(verifying') <= Room'
  <2>1. Cardinality(verifying) \in Nat
      BY LimitTypes DEF LimitInv
  <2> QED
      BY <1>0, <1>1, <1>3, <1>8, <1>11, <1>f, <1>w, <2>1
<1>16. Fits(b, next)'
    BY <1>2, <1>3, <1>8, <1>k, <1>10, <1>13, <1>14, <1>15 DEF Fits
<1>17. LimitTypeOK'
  <2>1. Len(cleared') <= MaxClears
      BY <1>1, <1>k, LimitConstants
  <2> QED
      BY <1>2, <1>3, <1>4, <1>5, <1>w, <2>1 DEF LimitTypeOK
<1> QED
    BY <1>2, <1>3, <1>4, <1>5, <1>8, <1>16, <1>17, <1>w, Widens DEF LimitInv

LEMMA LimitInvInit ==
    ASSUME WatchedLimitInit
    PROVE  LimitInv
<1>1. /\ attempts = <<>> /\ decided = <<>> /\ cleared = <<>>
      /\ verifying = {} /\ contended = FALSE
    BY DEF WatchedLimitInit, LimitInit
<1>2. Cardinality(verifying) = 0
    BY <1>1, FS_EmptySet
<1>3. LimitTypeOK
  <2>1. <<>> \in Seq(0..Window) /\ <<>> \in Seq(0..(Window - 1))
      OBVIOUS
  <2> QED
      BY <1>1, <2>1, LimitConstants DEF LimitTypeOK
<1>4. InOrder(attempts) /\ InOrder(decided) /\ InOrder(cleared)
    BY <1>1 DEF InOrder
<1>5. Room = MaxAttempts
    BY <1>1, LimitConstants DEF Room
<1>6. PICK pos : pos = [j \in 0..0 |-> 0]
    OBVIOUS
<1>7. Marks(pos)
  <2>1. \A j \in 0..0 : j = 0
      OBVIOUS
  <2>2. pos[0] = 0
      BY <1>6
  <2>3. Share(Room, 0 - 0) = 0
      BY <1>5, LimitConstants DEF Share
  <2> QED
      BY <1>1, <2>1, <2>2, <2>3 DEF Marks
<1>8. Fits(0, pos)
    BY <1>1, <1>2, <1>5, <1>6, <1>7, LimitConstants DEF Fits, Splits
<1>9. contended \in BOOLEAN /\ ~ contended
    BY <1>1
<1>10. Cardinality(verifying) <= 1
    BY <1>2
<1> QED
    BY <1>3, <1>4, <1>8, <1>9, <1>10 DEF LimitInv

LEMMA LimitInvNext ==
    ASSUME LimitInv,
           [WatchedLimitNext]_<<limitVars, contended>>
    PROVE  LimitInv'
<1>1. CASE UNCHANGED <<limitVars, contended>>
    BY <1>1 DEF limitVars, LimitInv, LimitTypeOK, Fits, Marks, Room
<1>2. CASE WatchedLimitNext
  <2>1. contended' = (contended \/ Cardinality(verifying') > 1)
      BY <1>2 DEF WatchedLimitNext
  <2>2. ASSUME NEW w \in Threads, Admit(w) PROVE LimitInv'
      BY <2>1, <2>2, AdmitFits
  <2>3. ASSUME NEW w \in Threads, Fail(w) PROVE LimitInv'
      BY <2>1, <2>3, FailFits
  <2>4. ASSUME NEW w \in Threads, Succeed(w) PROVE LimitInv'
    <3>1. /\ attempts' = <<>> /\ cleared' = Append(cleared, 0)
          /\ decided' = Append(decided, 0) /\ verifying # {}
          /\ verifying' \subseteq verifying /\ Len(cleared) < MaxClears
        BY <2>4 DEF Succeed
    <3> QED
        BY <2>1, <3>1, ClearFits
  <2>5. ASSUME NEW w \in Threads, GiveUp(w) PROVE LimitInv'
      BY <2>1, <2>5, AbortFits
  <2>6. CASE Restart
    <3>1. /\ attempts' = <<>> /\ cleared' = Append(cleared, 0)
          /\ decided' = decided
          /\ verifying' \subseteq verifying /\ Len(cleared) < MaxClears
        BY <2>6 DEF Restart
    <3> QED
        BY <2>1, <3>1, ClearFits
  <2>7. CASE Tick
      BY <2>1, <2>7, TickFits
  <2> QED
      BY <1>2, <2>2, <2>3, <2>4, <2>5, <2>6, <2>7 DEF WatchedLimitNext, LimitNext
<1> QED
    BY <1>1, <1>2

LEMMA LimitInductive == WatchedLimitSpec => []LimitInv
<1>1. WatchedLimitInit => LimitInv
    BY LimitInvInit
<1>2. LimitInv /\ [WatchedLimitNext]_<<limitVars, contended>> => LimitInv'
    BY LimitInvNext
<1> QED
    BY <1>1, <1>2, PTL DEF WatchedLimitSpec

(* The list of attempts, the requests that passed the limit and the        *)
(* histories of the window stay in their types, for any limit and window.  *)
THEOREM LimitTypeCorrect == WatchedLimitSpec => []LimitTypeOK
<1>1. LimitInv => LimitTypeOK
    BY DEF LimitInv
<1> QED
    BY <1>1, LimitInductive, PTL

(* For any limit, window and number of threads: a window holds no more     *)
(* logins that fail or succeed than the limit and the requests in flight   *)
(* beside the last one allow, once more for every success or restart in    *)
(* it, each of which empties the list (rate_limit.py:26).                  *)
THEOREM LoginsAreBounded == WatchedLimitSpec => []LoginsBounded
<1>1. ASSUME LimitInv PROVE LoginsBounded
  <2>1. PICK a, pos : a \in Nat /\ Fits(a, pos)
      BY <1>1 DEF LimitInv
  <2>2. /\ Cardinality(Threads) \in Nat /\ Cardinality(verifying) \in Nat
        /\ Len(attempts) \in Nat /\ Len(decided) \in Nat /\ Len(cleared) \in Nat
      BY <1>1, LimitTypes DEF LimitInv
  <2>3. Room \in Nat
      BY <1>1, <2>2, LimitConstants DEF LimitInv, Room
  <2>4. Room * (Len(cleared) + 1) = Share(Room, Len(cleared)) + Room
      BY <2>2, <2>3 DEF Share
  <2>5. pos[Len(cleared)] <= Share(Room, Len(cleared))
    <3>1. Marks(pos)
        BY <2>1 DEF Fits
    <3>2. 0 \in 0..Len(cleared) /\ Len(cleared) \in 0..Len(cleared)
        BY <2>2
    <3>3. /\ pos[Len(cleared)] - pos[0] <= Share(Room, Len(cleared) - 0)
          /\ pos[0] = 0 /\ pos[Len(cleared)] \in Nat
        BY <3>1, <3>2 DEF Marks
    <3>4. Len(cleared) - 0 = Len(cleared)
        BY <2>2
    <3>5. pos[Len(cleared)] - 0 = pos[Len(cleared)]
        BY <3>3
    <3> QED
        BY <3>3, <3>4, <3>5
  <2>6. /\ pos[Len(cleared)] = Len(decided) - (Len(attempts) - a)
        /\ Len(attempts) - a + Cardinality(verifying) <= Room
      BY <2>1 DEF Fits
  <2>7. Share(Room, Len(cleared)) \in Nat
      BY <2>2, <2>3, Shares
  <2>8. Len(decided) <= Share(Room, Len(cleared)) + Room
      BY <2>1, <2>2, <2>3, <2>5, <2>6, <2>7
  <2> QED
      BY <2>4, <2>8 DEF LoginsBounded, Room
<1> QED
    BY <1>1, LimitInductive, PTL

=============================================================================
