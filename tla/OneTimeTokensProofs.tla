------------------------- MODULE OneTimeTokensProofs -------------------------
(***************************************************************************)
(* Proofs about OneTimeTokens, for any number of users, threads, messages  *)
(* and restarts: each kind of token behaves in the server as it does       *)
(* alone, is used by and for those it was issued to, and only so often.    *)
(***************************************************************************)
EXTENDS OneTimeTokens, FiniteSetTheorems, TLAPS

(* The workers that satisfy something are finitely many, at most all.      *)
LEMMA SomeWorkers ==
    ASSUME NEW S \in SUBSET Workers
    PROVE  /\ IsFiniteSet(S)
           /\ Cardinality(S) \in Nat
           /\ Cardinality(S) <= Cardinality(Workers)
  BY StepUpAssumption, FS_Subset, FS_CardinalityType

(* So are the places of a sequence that satisfy something.                 *)
LEMMA SomePlaces ==
    ASSUME NEW n \in Nat, NEW S \in SUBSET (1..n)
    PROVE  IsFiniteSet(S) /\ Cardinality(S) \in Nat
<1>1. IsFiniteSet(1..n)
    BY FS_Interval
<1> QED
    BY <1>1, FS_Subset, FS_CardinalityType

-----------------------------------------------------------------------------
(* Step-up tokens: types *)

LEMMA StepUpTypeInit == Init => TypeOK
  BY StepUpAssumption DEF Init, TypeOK

LEMMA StepUpTypeNext == TypeOK /\ [Next]_vars => TypeOK'
<1> SUFFICES ASSUME TypeOK, [Next]_vars PROVE TypeOK'
    OBVIOUS
<1> USE DEF TypeOK
<1>1. ASSUME NEW w \in Workers, NEW u \in Users, NEW scope \in Required,
             NEW t \in DOMAIN tokens, Verify(w, u, scope, t)
      PROVE  TypeOK'
  <2>1. [user |-> u, scope |-> scope, token |-> t, phase |-> "verified"] \in Request
      BY DEF Request
  <2> QED
      BY <1>1, <2>1 DEF Verify, Begin
<1>2. ASSUME NEW w \in Workers, Consume(w) PROVE TypeOK'
  <2>1. request[w] \in Request
      BY <1>2 DEF Consume, Idle
  <2>2. [request[w] EXCEPT !.phase = "consumed"] \in Request
      BY <2>1 DEF Request
  <2>3. consumed' \subseteq Nat
      BY <1>2, <2>1 DEF Consume, Request
  <2> QED
      BY <1>2, <2>2, <2>3 DEF Consume
<1>3. ASSUME NEW w \in Workers, Commit(w) PROVE TypeOK'
  <2>1. request[w] \in Request
      BY <1>3 DEF Commit, Idle
  <2>2. [user |-> request[w].user, scope |-> request[w].scope,
         token |-> request[w].token] \in Grant
      BY <2>1 DEF Request, Grant
  <2> QED
      BY <1>3, <2>2 DEF Commit
<1>4. ASSUME NEW w \in Workers, Abort(w) PROVE TypeOK'
    BY <1>4 DEF Abort
<1>5. ASSUME NEW u \in Users, NEW scope \in Scope, Issue(u, scope) PROVE TypeOK'
  <2>1. [sub |-> u, scope |-> scope, expired |-> FALSE] \in Token
      BY DEF Token
  <2> QED
      BY <1>5, <2>1 DEF Issue
<1>6. ASSUME NEW t \in DOMAIN tokens, Expire(t) PROVE TypeOK'
  <2>1. tokens[t] \in Token
      OBVIOUS
  <2>2. [tokens[t] EXCEPT !.expired = TRUE] \in Token
      BY <2>1 DEF Token
  <2> QED
      BY <1>6, <2>2 DEF Expire
<1>7. CASE Restart
    BY <1>7, StepUpAssumption DEF Restart
<1>8. CASE UNCHANGED vars
    BY <1>8 DEF vars
<1> QED
    BY <1>1, <1>2, <1>3, <1>4, <1>5, <1>6, <1>7, <1>8 DEF Next, Serve, Environment

(* The state of step-up authentication keeps its types.                    *)
THEOREM StepUpTypeCorrect == Spec => []TypeOK
  BY StepUpTypeInit, StepUpTypeNext, PTL DEF Spec

-----------------------------------------------------------------------------
(* Step-up tokens: who they pay for *)

(* A request that is past verification holds a token that may pay for it.  *)
Holds ==
    \A w \in Workers : request[w] # Idle =>
        /\ request[w].token \in DOMAIN tokens
        /\ tokens[request[w].token].sub = request[w].user
        /\ Covers(tokens[request[w].token].scope, request[w].scope)

(* Tokens are never taken back, and change in nothing but their age.       *)
LEMMA TokensStay ==
    ASSUME TypeOK, [Next]_vars
    PROVE  \A t \in DOMAIN tokens : /\ t \in DOMAIN tokens'
                                    /\ tokens'[t].sub = tokens[t].sub
                                    /\ tokens'[t].scope = tokens[t].scope
                                    /\ tokens[t].expired => tokens'[t].expired
<1>1. ASSUME tokens' = tokens
      PROVE  \A t \in DOMAIN tokens : /\ t \in DOMAIN tokens'
                                      /\ tokens'[t].sub = tokens[t].sub
                                      /\ tokens'[t].scope = tokens[t].scope
                                      /\ tokens[t].expired => tokens'[t].expired
    BY <1>1
<1>2. CASE \E u \in Users, scope \in Scope : Issue(u, scope)
    BY <1>2 DEF Issue, TypeOK
<1>3. CASE \E t \in DOMAIN tokens : Expire(t)
    BY <1>3 DEF Expire, TypeOK, Token
<1>4. CASE \E w \in Workers : Serve(w)
    BY <1>1, <1>4 DEF Serve, Verify, Begin, Consume, Commit, Abort
<1>5. CASE Restart \/ UNCHANGED vars
    BY <1>1, <1>5 DEF Restart, vars
<1> QED
    BY <1>2, <1>3, <1>4, <1>5 DEF Next, Environment

LEMMA PaidNext ==
    TypeOK /\ Holds /\ PaidByOwnToken /\ [Next]_vars => Holds' /\ PaidByOwnToken'
<1> SUFFICES ASSUME TypeOK, Holds, PaidByOwnToken, [Next]_vars
             PROVE  Holds' /\ PaidByOwnToken'
    OBVIOUS
<1>1. \A t \in DOMAIN tokens : /\ t \in DOMAIN tokens'
                               /\ tokens'[t].sub = tokens[t].sub
                               /\ tokens'[t].scope = tokens[t].scope
    BY TokensStay
<1>a. ASSUME \A w \in Workers : \/ request'[w] = Idle
                                \/ /\ request[w] # Idle
                                   /\ request'[w].token = request[w].token
                                   /\ request'[w].user = request[w].user
                                   /\ request'[w].scope = request[w].scope
      PROVE  Holds'
    BY <1>1, <1>a DEF Holds
<1>b. ASSUME grants' = grants PROVE PaidByOwnToken'
    BY <1>1, <1>b DEF PaidByOwnToken
<1>2. ASSUME NEW w \in Workers, NEW u \in Users, NEW scope \in Required,
             NEW t \in DOMAIN tokens, Verify(w, u, scope, t)
      PROVE  Holds' /\ PaidByOwnToken'
  <2>1. Holds'
      BY <1>1, <1>2 DEF Holds, Verify, Begin, TypeOK
  <2> QED
      BY <1>2, <1>b, <2>1 DEF Verify, Begin
<1>3. ASSUME NEW w \in Workers, Consume(w) PROVE Holds' /\ PaidByOwnToken'
  <2>1. request[w] \in Request /\ request[w] # Idle
      BY <1>3 DEF Consume, Idle, TypeOK
  <2>2. Holds'
      BY <1>3, <1>a, <2>1 DEF Consume, TypeOK, Request
  <2> QED
      BY <1>3, <1>b, <2>2 DEF Consume
<1>4. ASSUME NEW w \in Workers, Commit(w) PROVE Holds' /\ PaidByOwnToken'
  <2>1. request[w] # Idle
      BY <1>4 DEF Commit, Idle
  <2>2. Holds'
      BY <1>4, <1>a DEF Commit, TypeOK
  <2>3. tokens' = tokens /\ Len(grants) \in Nat
        /\ grants' = Append(grants, [user |-> request[w].user,
                                     scope |-> request[w].scope,
                                     token |-> request[w].token])
      BY <1>4 DEF Commit, TypeOK
  <2>4. \A g \in DOMAIN grants' :
           \/ g \in DOMAIN grants /\ grants'[g] = grants[g]
           \/ /\ grants'[g].token = request[w].token
              /\ grants'[g].user = request[w].user
              /\ grants'[g].scope = request[w].scope
      BY <2>3 DEF TypeOK
  <2>5. PaidByOwnToken'
      BY <2>1, <2>3, <2>4 DEF Holds, PaidByOwnToken
  <2> QED
      BY <2>2, <2>5
<1>5. ASSUME NEW w \in Workers, Abort(w) PROVE Holds' /\ PaidByOwnToken'
    BY <1>5, <1>a, <1>b DEF Abort, TypeOK
<1>6. CASE Environment
    BY <1>6, <1>a, <1>b DEF Environment, Issue, Expire
<1>7. CASE Restart
    BY <1>7, <1>a, <1>b DEF Restart
<1>8. CASE UNCHANGED vars
    BY <1>8, <1>a, <1>b DEF vars
<1> QED
    BY <1>2, <1>3, <1>4, <1>5, <1>6, <1>7, <1>8 DEF Next, Serve

LEMMA AlwaysPaid == Spec => [](TypeOK /\ Holds /\ PaidByOwnToken)
<1>1. Init => Holds /\ PaidByOwnToken
    BY DEF Init, Holds, PaidByOwnToken
<1> QED
    BY <1>1, PaidNext, StepUpTypeInit, StepUpTypeNext, PTL DEF Spec

(* Every granted request was paid for by its user, with a token that       *)
(* covers it, however requests interleave and however often the server     *)
(* restarts.                                                               *)
THEOREM GrantsArePaid == Spec => []PaidByOwnToken
  BY AlwaysPaid, PTL

-----------------------------------------------------------------------------
(* Confirmation tokens: types *)

LEMMA ConfirmingTypeInit == ServerInit => Confirming!TypeOK
  BY StepUpAssumption DEF ServerInit, Init, Confirming!Init, Confirming!TypeOK

LEMMA ConfirmingTypeNext ==
    Confirming!TypeOK /\ [Confirming!Next]_(Confirming!vars) => Confirming!TypeOK'
<1> SUFFICES ASSUME Confirming!TypeOK, [Confirming!Next]_(Confirming!vars)
             PROVE  Confirming!TypeOK'
    OBVIOUS
<1> USE DEF Confirming!TypeOK
<1>1. ASSUME NEW w \in Workers, NEW m \in Messages, NEW c \in Contacts,
             NEW n \in DOMAIN slips, Confirming!Verify(w, m, c, n)
      PROVE  Confirming!TypeOK'
  <2>1. [phase |-> "verified", slip |-> n, message |-> m, contact |-> c]
            \in Confirming!Call
      BY DEF Confirming!Call
  <2> QED
      BY <1>1, <2>1 DEF Confirming!Verify, Confirming!Begin
<1>2. ASSUME NEW w \in Workers, Confirming!CheckNonce(w) PROVE Confirming!TypeOK'
  <2>1. call[w] \in Confirming!Call
      BY <1>2 DEF Confirming!CheckNonce, Confirming!Unused
  <2>2. [call[w] EXCEPT !.phase = "unused"] \in Confirming!Call
      BY <2>1 DEF Confirming!Call
  <2> QED
      BY <1>2, <2>2 DEF Confirming!CheckNonce
<1>3. ASSUME NEW w \in Workers, Confirming!MarkNonce(w) PROVE Confirming!TypeOK'
  <2>1. call[w] \in Confirming!Call
      BY <1>3 DEF Confirming!MarkNonce, Confirming!Unused
  <2>2. [slip |-> call[w].slip, message |-> call[w].message,
         contact |-> call[w].contact, state |-> state[call[w].message]]
            \in Confirming!Use
      BY <2>1 DEF Confirming!Call, Confirming!Use
  <2>3. nonces' \subseteq Nat
      BY <1>3, <2>1 DEF Confirming!MarkNonce, Confirming!Call
  <2> QED
      BY <1>3, <2>2, <2>3 DEF Confirming!MarkNonce
<1>4. ASSUME NEW w \in Workers, Confirming!Abort(w) PROVE Confirming!TypeOK'
    BY <1>4 DEF Confirming!Abort
<1>5. ASSUME NEW m \in Messages, NEW c \in Contacts, NEW s \in States,
             Confirming!Issue(m, c, s)
      PROVE  Confirming!TypeOK'
  <2>1. [message |-> m, contact |-> c, expected |-> s, expired |-> FALSE]
            \in Confirming!ConfirmationClaims
      BY DEF Confirming!ConfirmationClaims
  <2> QED
      BY <1>5, <2>1 DEF Confirming!Issue
<1>6. ASSUME NEW n \in DOMAIN slips, Confirming!Expire(n) PROVE Confirming!TypeOK'
  <2>1. slips[n] \in Confirming!ConfirmationClaims
      OBVIOUS
  <2>2. [slips[n] EXCEPT !.expired = TRUE] \in Confirming!ConfirmationClaims
      BY <2>1 DEF Confirming!ConfirmationClaims
  <2> QED
      BY <1>6, <2>2 DEF Confirming!Expire
<1>7. ASSUME NEW m \in Messages, NEW s \in States, Confirming!Move(m, s)
      PROVE  Confirming!TypeOK'
    BY <1>7 DEF Confirming!Move
<1>8. CASE Confirming!Restart
    BY <1>8, StepUpAssumption DEF Confirming!Restart
<1>9. CASE UNCHANGED Confirming!vars
    BY <1>9 DEF Confirming!vars
<1> QED
    BY <1>1, <1>2, <1>3, <1>4, <1>5, <1>6, <1>7, <1>8, <1>9
       DEF Confirming!Next, Confirming!Serve, Confirming!Environment

-----------------------------------------------------------------------------
(* The server composes the two *)

(* A step of the server is a step of either kind of token, or leaves it    *)
(* alone.                                                                  *)
LEMMA ServerSteps ==
    [ServerNext]_serverVars =>
        [Next]_vars /\ [Confirming!Next]_(Confirming!vars)
<1>1. ASSUME NEW w \in Workers, ServeStepUp(w)
      PROVE  Next /\ UNCHANGED Confirming!vars
    BY <1>1 DEF ServeStepUp, Next, confirmingVars, Confirming!vars, Serve,
                Verify, Begin, Consume, Commit, Abort
<1>2. ASSUME NEW w \in Workers, ServeConfirming(w)
      PROVE  UNCHANGED vars /\ Confirming!Next
    BY <1>2 DEF ServeConfirming, Confirming!Next, stepUpVars, vars, Confirming!Serve,
                Confirming!Verify, Confirming!Begin, Confirming!CheckNonce,
                Confirming!MarkNonce, Confirming!Abort
<1>3. ASSUME Environment, UNCHANGED confirmingVars
      PROVE  Next /\ UNCHANGED Confirming!vars
    BY <1>3 DEF Next, confirmingVars, Confirming!vars, Environment, Issue, Expire
<1>4. ASSUME Confirming!Environment, UNCHANGED stepUpVars
      PROVE  UNCHANGED vars /\ Confirming!Next
    BY <1>4 DEF Confirming!Next, stepUpVars, vars, Confirming!Environment,
                Confirming!Issue, Confirming!Expire, Confirming!Move
<1>5. ASSUME ServerRestart PROVE Next /\ Confirming!Next
    BY <1>5 DEF ServerRestart, Next, Confirming!Next
<1>6. ASSUME UNCHANGED serverVars
      PROVE  UNCHANGED vars /\ UNCHANGED Confirming!vars
    BY <1>6 DEF serverVars, stepUpVars, confirmingVars, vars, Confirming!vars
<1> QED
    BY <1>1, <1>2, <1>3, <1>4, <1>5, <1>6 DEF ServerNext

(* Whatever one kind of token promises alone, it keeps in one server with  *)
(* the other: the server implements both.                                  *)
THEOREM ServerImplementsBoth == ServerSpec => Spec /\ Confirming!Spec
<1>1. ServerInit => Init /\ Confirming!Init
    BY DEF ServerInit
<1> QED
    BY <1>1, ServerSteps, PTL DEF ServerSpec, Spec, Confirming!Spec

LEMMA ServerTypeInit == ServerInit => ServerTypeOK
  BY StepUpTypeInit, ConfirmingTypeInit DEF ServerInit, ServerTypeOK

LEMMA ServerTypeNext ==
    ServerTypeOK /\ [ServerNext]_serverVars => ServerTypeOK'
<1>1. ASSUME overlapped \in BOOLEAN, [ServerNext]_serverVars
      PROVE  overlapped' \in BOOLEAN
    BY <1>1 DEF ServerNext, Watch, serverVars
<1> QED
    BY <1>1, ServerSteps, StepUpTypeNext, ConfirmingTypeNext DEF ServerTypeOK

(* The state of the server keeps its types.                                *)
THEOREM ServerTypeCorrect == ServerSpec => []ServerTypeOK
  BY ServerTypeInit, ServerTypeNext, PTL DEF ServerSpec

(* Nor are grants paid with somebody else's token while confirmation       *)
(* tokens are served too.                                                  *)
THEOREM ServerGrantsArePaid == ServerSpec => []PaidByOwnToken
  BY ServerImplementsBoth, GrantsArePaid, PTL

-----------------------------------------------------------------------------
(* How often a token is used *)

(* Unless requests overlapped, only one is in flight.                      *)
Alone == overlapped \/ \A v, w \in Workers : InFlight(v) /\ InFlight(w) => v = w

LEMMA OneAtATime ==
    ASSUME Alone, ServerTypeOK, [ServerNext]_serverVars
    PROVE  Alone'
<1> SUFFICES ASSUME ~ overlapped' PROVE Alone'
    BY DEF Alone
<1>1. CASE UNCHANGED serverVars
    BY <1>1 DEF Alone, InFlight, serverVars, stepUpVars, confirmingVars
<1>2. CASE ServerNext
  <2>1. \A w \in Workers : InFlight(w) => ~ UNCHANGED <<request[w], call[w]>>
      BY <1>2 DEF ServerNext, Watch
  <2>2. ASSUME NEW u \in Workers, ServeStepUp(u) \/ ServeConfirming(u),
               NEW w \in Workers, w # u
        PROVE  UNCHANGED <<request[w], call[w]>>
      BY <2>2 DEF ServeStepUp, ServeConfirming, ServerTypeOK, TypeOK, Confirming!TypeOK,
                  confirmingVars, stepUpVars, Serve, Verify, Begin, Consume, Commit,
                  Abort, Confirming!Serve, Confirming!Verify, Confirming!Begin,
                  Confirming!CheckNonce, Confirming!MarkNonce, Confirming!Abort
  <2>3. CASE \E u \in Workers : ServeStepUp(u) \/ ServeConfirming(u)
      BY <2>1, <2>2, <2>3 DEF Alone, InFlight
  <2>4. CASE \/ Environment /\ UNCHANGED confirmingVars
             \/ Confirming!Environment /\ UNCHANGED stepUpVars
    <3>1. UNCHANGED <<request, call>>
        BY <2>4 DEF Environment, Issue, Expire, Confirming!Environment,
                    Confirming!Issue, Confirming!Expire, Confirming!Move,
                    confirmingVars, stepUpVars
    <3> QED
        BY <2>1, <3>1 DEF Alone, InFlight
  <2>5. CASE ServerRestart
      BY <2>5 DEF ServerRestart, Restart, Confirming!Restart, Alone, InFlight
  <2>6. \/ \E u \in Workers : ServeStepUp(u) \/ ServeConfirming(u)
        \/ Environment /\ UNCHANGED confirmingVars
        \/ Confirming!Environment /\ UNCHANGED stepUpVars
        \/ ServerRestart
      BY <1>2 DEF ServerNext
  <2> QED
      BY <2>3, <2>4, <2>5, <2>6
<1> QED
    BY <1>1, <1>2

(* So those in flight are never more than Width, before a step and after.  *)
LEMMA FewAtOnce ==
    ASSUME NEW S \in SUBSET Workers, NEW many, many \/ \A v, w \in S : v = w
    PROVE  /\ IsFiniteSet(S)
           /\ Cardinality(S) \in Nat
           /\ Cardinality(S) <= IF many THEN Cardinality(Workers) ELSE 1
<1>1. Cardinality(S) <= Cardinality(Workers)
    BY SomeWorkers
<1>2. ASSUME ~ many, S # {} PROVE Cardinality(S) = 1
  <2>1. PICK w \in S : TRUE
      BY <1>2
  <2>2. S = {w}
      BY <1>2, <2>1
  <2> QED
      BY <2>2, FS_Singleton
<1>3. S = {} => Cardinality(S) = 0
    BY FS_EmptySet
<1>4. IsFiniteSet(S) /\ Cardinality(S) \in Nat
    BY SomeWorkers
<1> QED
    BY <1>1, <1>2, <1>3, <1>4

LEMMA WidthBounds ==
    ASSUME NEW S \in SUBSET Workers
    PROVE  /\ Alone /\ (\A w \in S : InFlight(w)) =>
                 IsFiniteSet(S) /\ Cardinality(S) \in Nat /\ Cardinality(S) <= Width
           /\ Alone' /\ (\A w \in S : InFlight(w)') =>
                 IsFiniteSet(S) /\ Cardinality(S) \in Nat /\ Cardinality(S) <= Width'
<1>1. ASSUME Alone, \A w \in S : InFlight(w)
      PROVE  IsFiniteSet(S) /\ Cardinality(S) \in Nat /\ Cardinality(S) <= Width
  <2>1. overlapped \/ \A v, w \in S : v = w
      BY <1>1 DEF Alone
  <2> QED
      BY <2>1, FewAtOnce DEF Width
<1>2. ASSUME Alone', \A w \in S : InFlight(w)'
      PROVE  IsFiniteSet(S) /\ Cardinality(S) \in Nat /\ Cardinality(S) <= Width'
  <2>1. overlapped' \/ \A v, w \in S : v = w
      BY <1>2 DEF Alone
  <2> QED
      BY <2>1, FewAtOnce DEF Width
<1> QED
    BY <1>1, <1>2

LEMMA Products ==
    ASSUME NEW a \in Nat, NEW b \in Nat, a <= b,
           NEW m \in Nat, NEW n \in {m, m + 1}
    PROVE  /\ a * m \in Nat
           /\ b * n \in Nat
           /\ a * m <= b * n
           /\ a * (m + 1) = a * m + a
           /\ b * (n + 1) = b * n + b
           /\ n = m + 1 => a * (m + 1) <= b * n
<1>1. \A k, l \in Nat : k * l \in Nat /\ k * (l + 1) = k * l + k
    OBVIOUS
<1>2. \A l \in Nat : a * l <= b * l
  <2> SUFFICES ASSUME NEW l \in Nat PROVE a * l <= b * l
      OBVIOUS
  <2>1. b - a \in Nat /\ b * l = a * l + (b - a) * l
      OBVIOUS
  <2> QED
      BY <1>1, <2>1
<1>3. CASE n = m
    BY <1>1, <1>2, <1>3
<1>4. CASE n = m + 1
    BY <1>1, <1>2, <1>4
<1> QED
    BY <1>3, <1>4

(* The bound never shrinks, and grows with every restart by Width.         *)
LEMMA RoomGrows ==
    ASSUME ServerTypeOK, [ServerNext]_serverVars
    PROVE  /\ Width \in Nat
           /\ Width' \in Nat
           /\ restarts \in Nat
           /\ restarts' \in {restarts, restarts + 1}
           /\ Width * restarts \in Nat
           /\ Width' * restarts' \in Nat
           /\ Width * restarts <= Width' * restarts'
           /\ Width * (restarts + 1) = Width * restarts + Width
           /\ Width' * (restarts' + 1) = Width' * restarts' + Width'
           /\ Width <= Width'
           /\ restarts' = restarts + 1 =>
                 Width * (restarts + 1) <= Width' * restarts'
<1>1. Cardinality(Workers) \in Nat /\ Width \in Nat /\ Width' \in Nat
    BY StepUpAssumption, FS_CardinalityType DEF Width
<1>2. restarts \in Nat /\ restarts' \in {restarts, restarts + 1}
  <2>1. restarts \in Nat
      BY StepUpAssumption DEF ServerTypeOK, TypeOK
  <2>2. [Next]_vars
      BY ServerSteps
  <2> QED
      BY <2>1, <2>2 DEF vars, Next, Serve, Verify, Begin, Consume, Commit, Abort,
                        Environment, Issue, Expire, Restart
<1>3. Width <= Width'
  <2>1. overlapped \in BOOLEAN /\ overlapped' \in BOOLEAN
      BY DEF ServerTypeOK, ServerNext, Watch, serverVars
  <2>2. overlapped => overlapped'
      BY DEF ServerNext, Watch, serverVars
  <2>3. ASSUME ~ overlapped, overlapped' PROVE Workers # {}
      BY <2>3 DEF ServerNext, Watch, serverVars
  <2>4. Workers # {} => Cardinality(Workers) # 0
      BY StepUpAssumption, FS_EmptySet
  <2> QED
      BY <1>1, <2>1, <2>2, <2>3, <2>4 DEF Width
<1>4. PICK a, b, m, n \in Nat :
          a = Width /\ b = Width' /\ m = restarts /\ n = restarts'
    BY <1>1, <1>2
<1>5. a <= b /\ n \in {m, m + 1}
    BY <1>2, <1>3, <1>4
<1>6. /\ a * m \in Nat
      /\ b * n \in Nat
      /\ a * m <= b * n
      /\ a * (m + 1) = a * m + a
      /\ b * (n + 1) = b * n + b
      /\ n = m + 1 => a * (m + 1) <= b * n
    BY <1>5, Products
<1> QED
    BY <1>1, <1>2, <1>3, <1>4, <1>6

-----------------------------------------------------------------------------
(* How often a step-up token is spent *)

Held(t) == {w \in Workers : request[w] # Idle /\ request[w].token = t}

Fresh(t) == t \notin consumed /\ ~ tokens[t].expired

(* Grants and the requests that may still become grants share one budget,  *)
(* and a token that would still pass verification has a run of the server  *)
(* left of it, nobody having consumed it in this one.                      *)
WithinBudget ==
    \A t \in DOMAIN tokens :
        /\ Cardinality(PaidWith(t)) + Cardinality(Held(t)) <= Width * (restarts + 1)
        /\ Fresh(t) => /\ Cardinality(PaidWith(t)) <= Width * restarts
                       /\ \A w \in Held(t) : request[w].phase = "verified"

SpendingInv == ServerTypeOK /\ Alone /\ Holds /\ PaidByOwnToken /\ WithinBudget

LEMMA HeldFinite ==
    ASSUME Alone, NEW t
    PROVE  /\ IsFiniteSet(Held(t))
           /\ Cardinality(Held(t)) \in Nat
           /\ Cardinality(Held(t)) <= Width
<1>1. Held(t) \in SUBSET Workers /\ \A w \in Held(t) : InFlight(w)
    BY DEF Held, InFlight
<1> QED
    BY <1>1, WidthBounds

LEMMA PaidFinite ==
    ASSUME TypeOK, NEW t
    PROVE  IsFiniteSet(PaidWith(t)) /\ Cardinality(PaidWith(t)) \in Nat
<1>1. Len(grants) \in Nat /\ PaidWith(t) \in SUBSET (1..Len(grants))
    BY DEF TypeOK, PaidWith
<1> QED
    BY <1>1, SomePlaces

(* A request that starts with a token that is still fresh fits the budget. *)
LEMMA VerifyWithinBudget ==
    ASSUME SpendingInv, [ServerNext]_serverVars, Alone', NEW w \in Workers,
           NEW u \in Users, NEW scope \in Required,
           NEW t \in DOMAIN tokens, Verify(w, u, scope, t)
    PROVE  WithinBudget'
<1> USE DEF SpendingInv
<1>1. /\ request[w] = Idle
      /\ tokens' = tokens /\ consumed' = consumed /\ grants' = grants
      /\ restarts' = restarts
      /\ request' = [request EXCEPT ![w] =
            [user |-> u, scope |-> scope, token |-> t, phase |-> "verified"]]
      /\ Fresh(t)
      /\ request \in [Workers -> Request \cup {Idle}]
    BY DEF Verify, Begin, Fresh, ServerTypeOK, TypeOK
<1>2. \A r : PaidWith(r)' = PaidWith(r) /\ Fresh(r)' = Fresh(r)
    BY <1>1 DEF PaidWith, Fresh
<1>3. \A r : r # t => Held(r)' = Held(r)
    BY <1>1 DEF Held
<1>4. Held(t)' = Held(t) \cup {w} /\ request'[w].phase = "verified"
    BY <1>1 DEF Held, Idle
<1> SUFFICES ASSUME NEW r \in DOMAIN tokens
             PROVE  /\ Cardinality(PaidWith(r)) + Cardinality(Held(r)')
                          <= Width' * (restarts' + 1)
                    /\ Fresh(r) => /\ Cardinality(PaidWith(r)) <= Width' * restarts'
                                   /\ \A v \in Held(r)' : request'[v].phase = "verified"
    BY <1>1, <1>2 DEF WithinBudget
<1>5. /\ Cardinality(PaidWith(r)) + Cardinality(Held(r)) <= Width * (restarts + 1)
      /\ Fresh(r) => /\ Cardinality(PaidWith(r)) <= Width * restarts
                     /\ \A v \in Held(r) : request[v].phase = "verified"
    BY DEF WithinBudget
<1>6. Cardinality(PaidWith(r)) \in Nat /\ Cardinality(Held(r)) \in Nat
    BY PaidFinite, HeldFinite DEF ServerTypeOK
<1>7. Cardinality(Held(r)') \in Nat /\ Cardinality(Held(r)') <= Width'
  <2>1. Held(r)' \in SUBSET Workers /\ \A v \in Held(r)' : InFlight(v)'
      BY DEF Held, InFlight
  <2> QED
      BY <2>1, WidthBounds
<1>8. \A v \in Held(r) : request'[v].phase = request[v].phase
    BY <1>1 DEF Held, Idle
<1>9. CASE r = t
    BY <1>1, <1>4, <1>5, <1>6, <1>7, <1>8, <1>9, RoomGrows
<1>10. CASE r # t
    BY <1>3, <1>5, <1>6, <1>8, <1>10, RoomGrows
<1> QED
    BY <1>9, <1>10

(* A step that grants nothing and starts nothing leaves the budget alone.  *)
LEMMA OthersWithinBudget ==
    ASSUME SpendingInv, [ServerNext]_serverVars, grants' = grants,
           restarts' = restarts,
           \A t \in DOMAIN tokens' : t \in DOMAIN tokens,
           \A t \in DOMAIN tokens : /\ Held(t)' \in SUBSET Held(t)
                                    /\ Fresh(t)' => Fresh(t),
           \A t \in DOMAIN tokens : \A w \in Held(t)' :
               Fresh(t)' => request'[w].phase = request[w].phase
    PROVE  WithinBudget'
<1> USE DEF SpendingInv
<1> SUFFICES ASSUME NEW t \in DOMAIN tokens
             PROVE  /\ Cardinality(PaidWith(t)) + Cardinality(Held(t)')
                          <= Width' * (restarts' + 1)
                    /\ Fresh(t)' => /\ Cardinality(PaidWith(t)) <= Width' * restarts'
                                    /\ \A w \in Held(t)' : request'[w].phase = "verified"
    BY DEF WithinBudget, PaidWith
<1>1. /\ Cardinality(PaidWith(t)) + Cardinality(Held(t)) <= Width * (restarts + 1)
      /\ Fresh(t) => /\ Cardinality(PaidWith(t)) <= Width * restarts
                     /\ \A v \in Held(t) : request[v].phase = "verified"
    BY DEF WithinBudget
<1>2. /\ Cardinality(PaidWith(t)) \in Nat
      /\ Cardinality(Held(t)) \in Nat
      /\ IsFiniteSet(Held(t))
    BY PaidFinite, HeldFinite DEF ServerTypeOK
<1>3. Cardinality(Held(t)') \in Nat /\ Cardinality(Held(t)') <= Cardinality(Held(t))
  <2>1. IsFiniteSet(Held(t)') /\ Cardinality(Held(t)') <= Cardinality(Held(t))
      BY <1>2, FS_Subset
  <2> QED
      BY <2>1, FS_CardinalityType
<1>4. Fresh(t)' => \A w \in Held(t)' : request'[w].phase = "verified"
    BY <1>1
<1> QED
    BY <1>1, <1>2, <1>3, <1>4, RoomGrows

(* A request that commits was held against the budget, by a token that is  *)
(* no longer fresh.                                                        *)
LEMMA CommitWithinBudget ==
    ASSUME SpendingInv, [ServerNext]_serverVars, NEW w \in Workers, Commit(w)
    PROVE  WithinBudget'
<1> USE DEF SpendingInv
<1>0. PICK t : t = request[w].token
    OBVIOUS
<1>1. /\ request[w] # Idle /\ request[w].phase = "consumed"
      /\ tokens' = tokens /\ consumed' = consumed /\ restarts' = restarts
      /\ request' = [request EXCEPT ![w] = Idle]
      /\ request \in [Workers -> Request \cup {Idle}]
      /\ t \in DOMAIN tokens
    BY <1>0 DEF Commit, Idle, Holds, ServerTypeOK, TypeOK
<1>2. /\ grants \in Seq(Grant)
      /\ grants' = Append(grants, [user |-> request[w].user,
                                   scope |-> request[w].scope, token |-> t])
    BY <1>0 DEF Commit, ServerTypeOK, TypeOK
<1>3. ~ Fresh(t)
    BY <1>0, <1>1 DEF WithinBudget, Held
<1>4. \A r \in DOMAIN tokens : /\ Fresh(r)' = Fresh(r)
                               /\ Held(r)' = Held(r) \ {w}
                               /\ \A v \in Held(r)' : request'[v] = request[v]
    BY <1>1 DEF Fresh, Held, Idle
<1>a. /\ Len(grants) \in Nat
      /\ DOMAIN grants = 1..Len(grants)
      /\ DOMAIN grants' = 1..(Len(grants) + 1)
      /\ \A g \in 1..Len(grants) : grants'[g] = grants[g]
      /\ grants'[Len(grants) + 1].token = t
    BY <1>2
<1>5. \A r : r # t => PaidWith(r)' = PaidWith(r)
    BY <1>a DEF PaidWith
<1>6. /\ PaidWith(t)' = PaidWith(t) \cup {Len(grants) + 1}
      /\ Len(grants) + 1 \notin PaidWith(t)
    BY <1>a DEF PaidWith
<1>7. ASSUME NEW r \in DOMAIN tokens
      PROVE  /\ IsFiniteSet(PaidWith(r)) /\ Cardinality(PaidWith(r)) \in Nat
             /\ IsFiniteSet(Held(r)) /\ Cardinality(Held(r)) \in Nat
             /\ Cardinality(PaidWith(r)) + Cardinality(Held(r)) <= Width * (restarts + 1)
             /\ Fresh(r) => /\ Cardinality(PaidWith(r)) <= Width * restarts
                            /\ \A v \in Held(r) : request[v].phase = "verified"
    BY PaidFinite, HeldFinite DEF ServerTypeOK, WithinBudget
<1>8. /\ Cardinality(PaidWith(t)') = Cardinality(PaidWith(t)) + 1
      /\ Cardinality(Held(t)') = Cardinality(Held(t)) - 1
  <2>1. w \in Held(t)
      BY <1>0, <1>1 DEF Held
  <2>2. Cardinality(PaidWith(t) \cup {Len(grants) + 1}) = Cardinality(PaidWith(t)) + 1
      BY <1>1, <1>6, <1>7, FS_AddElement
  <2>3. Cardinality(Held(t) \ {w}) = Cardinality(Held(t)) - 1
      BY <1>1, <1>7, <2>1, FS_RemoveElement
  <2> QED
      BY <1>1, <1>4, <1>6, <2>2, <2>3
<1>9. \A r \in DOMAIN tokens : r # t => Held(r)' = Held(r)
    BY <1>0, <1>1, <1>4 DEF Held
<1> SUFFICES ASSUME NEW r \in DOMAIN tokens
             PROVE  /\ Cardinality(PaidWith(r)') + Cardinality(Held(r)')
                          <= Width' * (restarts' + 1)
                    /\ Fresh(r) => /\ Cardinality(PaidWith(r)') <= Width' * restarts'
                                   /\ \A v \in Held(r)' : request'[v].phase = "verified"
    BY <1>1, <1>4 DEF WithinBudget
<1>10. CASE r = t
    BY <1>1, <1>3, <1>7, <1>8, <1>10, RoomGrows
<1>11. CASE r # t
    BY <1>1, <1>4, <1>5, <1>7, <1>9, <1>11, RoomGrows
<1> QED
    BY <1>10, <1>11

(* Nobody has used a token that is just issued.                            *)
LEMMA IssueWithinBudget ==
    ASSUME SpendingInv, [ServerNext]_serverVars, NEW u \in Users, NEW scope \in Scope,
           Issue(u, scope)
    PROVE  WithinBudget'
<1> USE DEF SpendingInv
<1>0. PICK t : t = Len(tokens) + 1
    OBVIOUS
<1>1. /\ tokens \in Seq(Token)
      /\ tokens' = Append(tokens, [sub |-> u, scope |-> scope, expired |-> FALSE])
      /\ consumed' = consumed /\ grants' = grants /\ restarts' = restarts
      /\ request' = request
    BY DEF Issue, ServerTypeOK, TypeOK
<1>2. /\ Len(tokens) \in Nat /\ DOMAIN tokens = 1..Len(tokens)
      /\ DOMAIN tokens' = DOMAIN tokens \cup {t}
      /\ \A r \in DOMAIN tokens : tokens'[r] = tokens[r]
      /\ t \notin DOMAIN tokens
    BY <1>0, <1>1
<1>3. PaidWith(t) = {} /\ Held(t) = {}
    BY <1>2 DEF PaidByOwnToken, Holds, PaidWith, Held
<1>4. \A r : PaidWith(r)' = PaidWith(r) /\ Held(r)' = Held(r)
    BY <1>1 DEF PaidWith, Held
<1>5. \A r \in DOMAIN tokens : Fresh(r)' = Fresh(r)
    BY <1>1, <1>2 DEF Fresh
<1>6. ASSUME NEW r \in DOMAIN tokens
      PROVE  /\ Cardinality(PaidWith(r)) \in Nat /\ Cardinality(Held(r)) \in Nat
             /\ Cardinality(PaidWith(r)) + Cardinality(Held(r)) <= Width * (restarts + 1)
             /\ Fresh(r) => /\ Cardinality(PaidWith(r)) <= Width * restarts
                            /\ \A v \in Held(r) : request[v].phase = "verified"
    BY PaidFinite, HeldFinite DEF ServerTypeOK, WithinBudget
<1>7. Cardinality({}) = 0
    BY FS_EmptySet
<1> SUFFICES ASSUME NEW r \in DOMAIN tokens'
             PROVE  /\ Cardinality(PaidWith(r)) + Cardinality(Held(r))
                          <= Width' * (restarts' + 1)
                    /\ Fresh(r)' => /\ Cardinality(PaidWith(r)) <= Width' * restarts'
                                    /\ \A v \in Held(r) : request[v].phase = "verified"
    BY <1>1, <1>4 DEF WithinBudget
<1>8. CASE r = t
  <2>1. PaidWith(r) = {} /\ Held(r) = {}
      BY <1>3, <1>8
  <2>2. 0 <= Width' * (restarts' + 1) /\ 0 <= Width' * restarts'
      BY RoomGrows
  <2> QED
      BY <1>7, <2>1, <2>2
<1>9. CASE r # t
    BY <1>1, <1>2, <1>5, <1>6, <1>9, RoomGrows
<1> QED
    BY <1>8, <1>9

(* A restart starts a new run of the server, with nothing under way.       *)
LEMMA RestartWithinBudget ==
    ASSUME SpendingInv, [ServerNext]_serverVars, Restart
    PROVE  WithinBudget'
<1> USE DEF SpendingInv
<1>1. /\ tokens' = tokens /\ grants' = grants /\ restarts' = restarts + 1
      /\ request' = [w \in Workers |-> Idle]
    BY DEF Restart
<1>2. \A t : PaidWith(t)' = PaidWith(t) /\ Held(t)' = {}
    BY <1>1 DEF PaidWith, Held
<1>3. Cardinality({}) = 0
    BY FS_EmptySet
<1> SUFFICES ASSUME NEW t \in DOMAIN tokens
             PROVE  /\ Cardinality(PaidWith(t)) <= Width' * (restarts' + 1)
                    /\ Cardinality(PaidWith(t)) <= Width' * restarts'
  <2>1. \A t : Cardinality(PaidWith(t)) \in Nat
      BY PaidFinite DEF ServerTypeOK
  <2>2. Width' * (restarts' + 1) \in Nat /\ Width' * restarts' \in Nat
      BY RoomGrows
  <2> QED
      BY <1>1, <1>2, <1>3, <2>1, <2>2 DEF WithinBudget
<1>4. /\ Cardinality(PaidWith(t)) \in Nat
      /\ Cardinality(Held(t)) \in Nat
      /\ Cardinality(PaidWith(t)) + Cardinality(Held(t)) <= Width * (restarts + 1)
    BY PaidFinite, HeldFinite DEF ServerTypeOK, WithinBudget
<1> QED
    BY <1>1, <1>4, RoomGrows

LEMMA SpendingNext == SpendingInv /\ [ServerNext]_serverVars => SpendingInv'
<1> SUFFICES ASSUME SpendingInv, [ServerNext]_serverVars PROVE SpendingInv'
    OBVIOUS
<1> USE DEF SpendingInv
<1>1. [Next]_vars /\ [Confirming!Next]_(Confirming!vars)
    BY ServerSteps
<1>2. Holds' /\ PaidByOwnToken'
    BY <1>1, PaidNext DEF ServerTypeOK
<1>3. ServerTypeOK' /\ Alone'
    BY ServerTypeNext, OneAtATime
<1>4. WithinBudget'
  <2>1. ASSUME NEW w \in Workers, NEW u \in Users, NEW scope \in Required,
               NEW t \in DOMAIN tokens, Verify(w, u, scope, t)
        PROVE  WithinBudget'
      BY <1>3, <2>1, VerifyWithinBudget
  <2>2. ASSUME NEW w \in Workers, Consume(w) PROVE WithinBudget'
    <3>1. /\ grants' = grants /\ restarts' = restarts /\ tokens' = tokens
          /\ request[w] \in Request /\ request[w] # Idle
          /\ request[w].token \in DOMAIN tokens
          /\ request' = [request EXCEPT ![w].phase = "consumed"]
          /\ consumed' = IF tokens[request[w].token].expired THEN consumed
                         ELSE consumed \cup {request[w].token}
          /\ request \in [Workers -> Request \cup {Idle}]
        BY <2>2 DEF Consume, Idle, Holds, ServerTypeOK, TypeOK
    <3>2. \A v \in Workers : v # w => request'[v] = request[v]
        BY <3>1
    <3>3. request'[w].token = request[w].token
        BY <3>1 DEF Request
    <3>4. \A t \in DOMAIN tokens : /\ Held(t)' \in SUBSET Held(t)
                                   /\ Fresh(t)' => Fresh(t)
        BY <3>1, <3>2, <3>3 DEF Held, Fresh
    <3>5. ~ Fresh(request[w].token)'
        BY <3>1 DEF Fresh
    <3>6. \A t \in DOMAIN tokens : \A v \in Held(t)' :
             Fresh(t)' => request'[v].phase = request[v].phase
        BY <3>2, <3>3, <3>5 DEF Held
    <3> QED
        BY <3>1, <3>4, <3>6, OthersWithinBudget
  <2>3. ASSUME NEW w \in Workers, Commit(w) PROVE WithinBudget'
      BY <2>3, CommitWithinBudget
  <2>4. ASSUME NEW w \in Workers, Abort(w) PROVE WithinBudget'
    <3>1. /\ grants' = grants /\ restarts' = restarts /\ tokens' = tokens
          /\ consumed' = consumed /\ request' = [request EXCEPT ![w] = Idle]
          /\ request \in [Workers -> Request \cup {Idle}]
        BY <2>4 DEF Abort, ServerTypeOK, TypeOK
    <3>2. \A t \in DOMAIN tokens :
             /\ Held(t)' \in SUBSET Held(t)
             /\ Fresh(t)' => Fresh(t)
             /\ \A v \in Held(t)' : request'[v] = request[v]
        BY <3>1 DEF Held, Fresh, Idle
    <3> QED
        BY <3>1, <3>2, OthersWithinBudget
  <2>5. ASSUME NEW u \in Users, NEW scope \in Scope, Issue(u, scope)
        PROVE  WithinBudget'
      BY <2>5, IssueWithinBudget
  <2>6. ASSUME NEW t \in DOMAIN tokens, Expire(t) PROVE WithinBudget'
    <3>1. /\ grants' = grants /\ restarts' = restarts /\ request' = request
          /\ consumed' = consumed /\ DOMAIN tokens' = DOMAIN tokens
        BY <2>6 DEF Expire, ServerTypeOK, TypeOK
    <3>2. \A r \in DOMAIN tokens : tokens[r].expired => tokens'[r].expired
        BY <1>1, TokensStay DEF ServerTypeOK
    <3>3. \A r \in DOMAIN tokens : Held(r)' = Held(r) /\ (Fresh(r)' => Fresh(r))
        BY <3>1, <3>2 DEF Held, Fresh
    <3> QED
        BY <3>1, <3>3, OthersWithinBudget
  <2>7. CASE Restart
      BY <2>7, RestartWithinBudget
  <2>8. CASE UNCHANGED vars
    <3>1. grants' = grants /\ restarts' = restarts /\ request' = request
          /\ consumed' = consumed /\ tokens' = tokens
        BY <2>8 DEF vars
    <3>2. \A t : Held(t)' = Held(t) /\ Fresh(t)' = Fresh(t)
        BY <3>1 DEF Held, Fresh
    <3> QED
        BY <3>1, <3>2, OthersWithinBudget
  <2> QED
      BY <1>1, <2>1, <2>2, <2>3, <2>4, <2>5, <2>6, <2>7, <2>8
         DEF Next, Serve, Environment
<1> QED
    BY <1>2, <1>3, <1>4

(* However requests interleave and however often the server restarts, a    *)
(* step-up token is spent at most once per run of the server and request   *)
(* in flight; once per run by requests served one by one.                  *)
THEOREM TokensAreSpentWithinBounds == ServerSpec => []SpendingBounded
<1>1. ServerInit => SpendingInv
  <2> SUFFICES ASSUME ServerInit PROVE SpendingInv
      OBVIOUS
  <2>1. ServerTypeOK
      BY ServerTypeInit
  <2>2. Alone /\ Holds /\ PaidByOwnToken /\ WithinBudget
      BY DEF ServerInit, Init, Confirming!Init, Alone, InFlight, Holds, PaidByOwnToken,
             WithinBudget
  <2> QED
      BY <2>1, <2>2 DEF SpendingInv
<1>2. SpendingInv => SpendingBounded
  <2> SUFFICES ASSUME SpendingInv, NEW t \in DOMAIN tokens
               PROVE  Cardinality(PaidWith(t)) <= Width * (restarts + 1)
      BY DEF SpendingBounded
  <2>1. /\ Cardinality(PaidWith(t)) \in Nat
        /\ Cardinality(Held(t)) \in Nat
        /\ Cardinality(PaidWith(t)) + Cardinality(Held(t)) <= Width * (restarts + 1)
      BY PaidFinite, HeldFinite DEF SpendingInv, ServerTypeOK, WithinBudget
  <2>2. Width * (restarts + 1) \in Nat
    <3>1. Width \in Nat /\ restarts \in Nat
        BY StepUpAssumption, FS_CardinalityType
           DEF Width, SpendingInv, ServerTypeOK, TypeOK
    <3> QED
        BY <3>1, Products
  <2> QED
      BY <2>1, <2>2
<1> QED
    BY <1>1, <1>2, SpendingNext, PTL DEF ServerSpec

-----------------------------------------------------------------------------
(* How often a confirmation token is honoured *)

(* The callers whose nonce was found unused, and is not marked yet.        *)
Admitted(n) ==
    {w \in Workers : /\ call[w] # Confirming!Unused
                     /\ call[w].phase = "unused"
                     /\ call[w].slip = n}

(* Every caller and every use is of a token that was issued.               *)
SlipsIssued ==
    /\ \A w \in Workers : call[w] # Confirming!Unused => call[w].slip \in DOMAIN slips
    /\ \A u \in DOMAIN honoured : honoured[u].slip \in DOMAIN slips

(* The uses and the callers admitted share one budget; a nonce that is not *)
(* marked has a run of the server left of it.                              *)
ReplayWithinBudget ==
    \A n \in DOMAIN slips :
        /\ Cardinality(Confirming!UsesOf(n)) + Cardinality(Admitted(n))
              <= Width * (restarts + 1)
        /\ n \notin nonces => Cardinality(Confirming!UsesOf(n)) <= Width * restarts

ReplayInv == ServerTypeOK /\ Alone /\ SlipsIssued /\ ReplayWithinBudget

LEMMA AdmittedFinite ==
    ASSUME NEW n
    PROVE  /\ Alone => /\ IsFiniteSet(Admitted(n))
                       /\ Cardinality(Admitted(n)) \in Nat
                       /\ Cardinality(Admitted(n)) <= Width
           /\ Alone' => /\ Cardinality(Admitted(n)') \in Nat
                        /\ Cardinality(Admitted(n)') <= Width'
<1>1. Admitted(n) \in SUBSET Workers /\ \A w \in Admitted(n) : InFlight(w)
    BY DEF Admitted, InFlight
<1>2. Admitted(n)' \in SUBSET Workers /\ \A w \in Admitted(n)' : InFlight(w)'
    BY DEF Admitted, InFlight
<1> QED
    BY <1>1, <1>2, WidthBounds

LEMMA UsesFinite ==
    ASSUME Confirming!TypeOK, NEW n
    PROVE  /\ IsFiniteSet(Confirming!UsesOf(n))
           /\ Cardinality(Confirming!UsesOf(n)) \in Nat
<1>1. Len(honoured) \in Nat /\ Confirming!UsesOf(n) \in SUBSET (1..Len(honoured))
    BY DEF Confirming!TypeOK, Confirming!UsesOf
<1> QED
    BY <1>1, SomePlaces

LEMMA SlipsIssuedNext ==
    ASSUME Confirming!TypeOK, SlipsIssued, [Confirming!Next]_(Confirming!vars)
    PROVE  SlipsIssued'
<1>a. ASSUME DOMAIN slips \subseteq DOMAIN slips', honoured' = honoured,
             \A w \in Workers : \/ call'[w] = Confirming!Unused
                                \/ /\ call[w] # Confirming!Unused
                                   /\ call'[w].slip = call[w].slip
      PROVE  SlipsIssued'
    BY <1>a DEF SlipsIssued
<1>1. ASSUME NEW w \in Workers, NEW m \in Messages, NEW c \in Contacts,
             NEW n \in DOMAIN slips, Confirming!Verify(w, m, c, n)
      PROVE  SlipsIssued'
    BY <1>1 DEF Confirming!Verify, Confirming!Begin, SlipsIssued, Confirming!TypeOK
<1>2. ASSUME NEW w \in Workers, Confirming!CheckNonce(w) PROVE SlipsIssued'
  <2>1. call[w] \in Confirming!Call /\ call[w] # Confirming!Unused
      BY <1>2 DEF Confirming!CheckNonce, Confirming!Unused, Confirming!TypeOK
  <2> QED
      BY <1>2, <1>a, <2>1 DEF Confirming!CheckNonce, Confirming!TypeOK, Confirming!Call
<1>3. ASSUME NEW w \in Workers, Confirming!MarkNonce(w) PROVE SlipsIssued'
  <2>1. /\ slips' = slips /\ call[w] # Confirming!Unused
        /\ call' = [call EXCEPT ![w] = Confirming!Unused]
        /\ call \in [Workers -> Confirming!Call \cup {Confirming!Unused}]
      BY <1>3 DEF Confirming!MarkNonce, Confirming!Unused, Confirming!TypeOK
  <2>2. \A u \in DOMAIN honoured' :
           \/ u \in DOMAIN honoured /\ honoured'[u] = honoured[u]
           \/ honoured'[u].slip = call[w].slip
      BY <1>3 DEF Confirming!MarkNonce, Confirming!TypeOK
  <2> QED
      BY <2>1, <2>2 DEF SlipsIssued
<1>4. ASSUME NEW w \in Workers, Confirming!Abort(w) PROVE SlipsIssued'
    BY <1>4, <1>a DEF Confirming!Abort, Confirming!TypeOK
<1>5. CASE Confirming!Environment
  <2>1. DOMAIN slips \subseteq DOMAIN slips'
    <3>1. CASE \E m \in Messages, c \in Contacts, s \in States : Confirming!Issue(m, c, s)
        BY <3>1 DEF Confirming!Issue, Confirming!TypeOK
    <3> QED
        BY <1>5, <3>1 DEF Confirming!Environment, Confirming!Expire, Confirming!Move
  <2> QED
      BY <1>5, <1>a, <2>1 DEF Confirming!Environment, Confirming!Issue,
                              Confirming!Expire, Confirming!Move
<1>6. CASE Confirming!Restart
    BY <1>6, <1>a DEF Confirming!Restart
<1>7. CASE UNCHANGED Confirming!vars
    BY <1>7, <1>a DEF Confirming!vars
<1> QED
    BY <1>1, <1>2, <1>3, <1>4, <1>5, <1>6, <1>7 DEF Confirming!Next, Confirming!Serve

(* A step that neither honours nor admits a token, nor issues one, leaves  *)
(* the budget alone.                                                       *)
LEMMA OthersWithinReplay ==
    ASSUME ReplayInv, [ServerNext]_serverVars, honoured' = honoured,
           restarts' = restarts, nonces' = nonces, DOMAIN slips' = DOMAIN slips,
           \A n \in DOMAIN slips : Admitted(n)' \in SUBSET Admitted(n)
    PROVE  ReplayWithinBudget'
<1> USE DEF ReplayInv
<1> SUFFICES ASSUME NEW n \in DOMAIN slips
             PROVE  /\ Cardinality(Confirming!UsesOf(n)) + Cardinality(Admitted(n)')
                          <= Width' * (restarts' + 1)
                    /\ n \notin nonces =>
                          Cardinality(Confirming!UsesOf(n)) <= Width' * restarts'
    BY DEF ReplayWithinBudget, Confirming!UsesOf
<1>1. /\ Cardinality(Confirming!UsesOf(n)) + Cardinality(Admitted(n))
            <= Width * (restarts + 1)
      /\ n \notin nonces => Cardinality(Confirming!UsesOf(n)) <= Width * restarts
    BY DEF ReplayWithinBudget
<1>2. /\ Cardinality(Confirming!UsesOf(n)) \in Nat
      /\ Cardinality(Admitted(n)) \in Nat
      /\ IsFiniteSet(Admitted(n))
    BY UsesFinite, AdmittedFinite DEF ServerTypeOK
<1>3. Cardinality(Admitted(n)') \in Nat
      /\ Cardinality(Admitted(n)') <= Cardinality(Admitted(n))
  <2>1. IsFiniteSet(Admitted(n)') /\ Cardinality(Admitted(n)') <= Cardinality(Admitted(n))
      BY <1>2, FS_Subset
  <2> QED
      BY <2>1, FS_CardinalityType
<1> QED
    BY <1>1, <1>2, <1>3, RoomGrows

(* A caller whose nonce is still unmarked is admitted within the budget.   *)
LEMMA CheckWithinReplay ==
    ASSUME ReplayInv, [ServerNext]_serverVars, Alone', NEW w \in Workers,
           Confirming!CheckNonce(w)
    PROVE  ReplayWithinBudget'
<1> USE DEF ReplayInv
<1>1. PICK s : s = call[w].slip
    OBVIOUS
<1>2. /\ honoured' = honoured /\ restarts' = restarts /\ nonces' = nonces
      /\ slips' = slips /\ s \notin nonces
      /\ call' = [call EXCEPT ![w].phase = "unused"]
      /\ call[w] \in Confirming!Call
      /\ call \in [Workers -> Confirming!Call \cup {Confirming!Unused}]
    BY <1>1 DEF Confirming!CheckNonce, Confirming!Unused, ServerTypeOK, Confirming!TypeOK
<1>3. call'[w].slip = s /\ \A v \in Workers : v # w => call'[v] = call[v]
    BY <1>1, <1>2 DEF Confirming!Call
<1>4. \A n : n # s => Admitted(n)' \in SUBSET Admitted(n)
    BY <1>3 DEF Admitted
<1> SUFFICES ASSUME NEW n \in DOMAIN slips
             PROVE  /\ Cardinality(Confirming!UsesOf(n)) + Cardinality(Admitted(n)')
                          <= Width' * (restarts' + 1)
                    /\ n \notin nonces =>
                          Cardinality(Confirming!UsesOf(n)) <= Width' * restarts'
    BY <1>2 DEF ReplayWithinBudget, Confirming!UsesOf
<1>5. /\ Cardinality(Confirming!UsesOf(n)) + Cardinality(Admitted(n))
            <= Width * (restarts + 1)
      /\ n \notin nonces => Cardinality(Confirming!UsesOf(n)) <= Width * restarts
    BY DEF ReplayWithinBudget
<1>6. /\ Cardinality(Confirming!UsesOf(n)) \in Nat
      /\ Cardinality(Admitted(n)) \in Nat
      /\ IsFiniteSet(Admitted(n))
      /\ Cardinality(Admitted(n)') \in Nat
      /\ Cardinality(Admitted(n)') <= Width'
    BY UsesFinite, AdmittedFinite DEF ServerTypeOK
<1>7. CASE n = s
    BY <1>2, <1>5, <1>6, <1>7, RoomGrows
<1>8. CASE n # s
  <2>1. Cardinality(Admitted(n)') <= Cardinality(Admitted(n))
      BY <1>4, <1>6, <1>8, FS_Subset
  <2> QED
      BY <1>2, <1>5, <1>6, <2>1, RoomGrows
<1> QED
    BY <1>7, <1>8

(* A caller who marks a nonce was admitted.                                *)
LEMMA MarkWithinReplay ==
    ASSUME ReplayInv, [ServerNext]_serverVars, NEW w \in Workers,
           Confirming!MarkNonce(w)
    PROVE  ReplayWithinBudget'
<1> USE DEF ReplayInv
<1>1. PICK s : s = call[w].slip
    OBVIOUS
<1>2. /\ slips' = slips /\ restarts' = restarts /\ nonces' = nonces \cup {s}
      /\ call[w] # Confirming!Unused /\ call[w].phase = "unused"
      /\ call' = [call EXCEPT ![w] = Confirming!Unused]
      /\ call \in [Workers -> Confirming!Call \cup {Confirming!Unused}]
    BY <1>1 DEF Confirming!MarkNonce, Confirming!Unused, ServerTypeOK, Confirming!TypeOK
<1>3. /\ honoured \in Seq(Confirming!Use)
      /\ honoured' = Append(honoured,
            [slip |-> s, message |-> call[w].message, contact |-> call[w].contact,
             state |-> state[call[w].message]])
    BY <1>1 DEF Confirming!MarkNonce, ServerTypeOK, Confirming!TypeOK
<1>4. /\ Len(honoured) \in Nat
      /\ DOMAIN honoured = 1..Len(honoured)
      /\ DOMAIN honoured' = 1..(Len(honoured) + 1)
      /\ \A u \in 1..Len(honoured) : honoured'[u] = honoured[u]
      /\ honoured'[Len(honoured) + 1].slip = s
    BY <1>3
<1>5. \A n : n # s => Confirming!UsesOf(n)' = Confirming!UsesOf(n)
    BY <1>4 DEF Confirming!UsesOf
<1>6. /\ Confirming!UsesOf(s)' = Confirming!UsesOf(s) \cup {Len(honoured) + 1}
      /\ Len(honoured) + 1 \notin Confirming!UsesOf(s)
    BY <1>4 DEF Confirming!UsesOf
<1>7. \A n : n # s => Admitted(n)' = Admitted(n)
    BY <1>1, <1>2 DEF Admitted
<1>8. w \in Admitted(s) /\ Admitted(s)' = Admitted(s) \ {w}
    BY <1>1, <1>2 DEF Admitted
<1>9. \A n : /\ IsFiniteSet(Confirming!UsesOf(n))
             /\ Cardinality(Confirming!UsesOf(n)) \in Nat
             /\ IsFiniteSet(Admitted(n))
             /\ Cardinality(Admitted(n)) \in Nat
    BY UsesFinite, AdmittedFinite DEF ServerTypeOK
<1>10. /\ Cardinality(Confirming!UsesOf(s)') = Cardinality(Confirming!UsesOf(s)) + 1
       /\ Cardinality(Admitted(s)') = Cardinality(Admitted(s)) - 1
  <2>1. Cardinality(Confirming!UsesOf(s) \cup {Len(honoured) + 1})
            = Cardinality(Confirming!UsesOf(s)) + 1
      BY <1>6, <1>9, FS_AddElement
  <2>2. Cardinality(Admitted(s) \ {w}) = Cardinality(Admitted(s)) - 1
      BY <1>8, <1>9, FS_RemoveElement
  <2> QED
      BY <1>6, <1>8, <2>1, <2>2
<1> SUFFICES ASSUME NEW n \in DOMAIN slips
             PROVE  /\ Cardinality(Confirming!UsesOf(n)') + Cardinality(Admitted(n)')
                          <= Width' * (restarts' + 1)
                    /\ n \notin nonces' =>
                          Cardinality(Confirming!UsesOf(n)') <= Width' * restarts'
    BY <1>2 DEF ReplayWithinBudget
<1>11. /\ Cardinality(Confirming!UsesOf(n)) + Cardinality(Admitted(n))
             <= Width * (restarts + 1)
       /\ n \notin nonces => Cardinality(Confirming!UsesOf(n)) <= Width * restarts
    BY DEF ReplayWithinBudget
<1>12. CASE n = s
    BY <1>2, <1>9, <1>10, <1>11, <1>12, RoomGrows
<1>13. CASE n # s
    BY <1>2, <1>5, <1>7, <1>9, <1>11, <1>13, RoomGrows
<1> QED
    BY <1>12, <1>13

(* Nobody has used a token that is just issued.                            *)
LEMMA IssueWithinReplay ==
    ASSUME ReplayInv, [ServerNext]_serverVars, NEW m \in Messages, NEW c \in Contacts,
           NEW e \in States, Confirming!Issue(m, c, e)
    PROVE  ReplayWithinBudget'
<1> USE DEF ReplayInv
<1>1. PICK s : s = Len(slips) + 1
    OBVIOUS
<1>2. /\ slips \in Seq(Confirming!ConfirmationClaims)
      /\ slips' = Append(slips, [message |-> m, contact |-> c, expected |-> e,
                                 expired |-> FALSE])
      /\ honoured' = honoured /\ restarts' = restarts /\ nonces' = nonces
      /\ call' = call
    BY DEF Confirming!Issue, ServerTypeOK, Confirming!TypeOK
<1>3. DOMAIN slips' = DOMAIN slips \cup {s} /\ s \notin DOMAIN slips
    BY <1>1, <1>2
<1>4. Confirming!UsesOf(s) = {} /\ Admitted(s) = {}
    BY <1>3 DEF SlipsIssued, Confirming!UsesOf, Admitted
<1>5. \A n : Confirming!UsesOf(n)' = Confirming!UsesOf(n) /\ Admitted(n)' = Admitted(n)
    BY <1>2 DEF Confirming!UsesOf, Admitted
<1> SUFFICES ASSUME NEW n \in DOMAIN slips'
             PROVE  /\ Cardinality(Confirming!UsesOf(n)) + Cardinality(Admitted(n))
                          <= Width' * (restarts' + 1)
                    /\ n \notin nonces =>
                          Cardinality(Confirming!UsesOf(n)) <= Width' * restarts'
    BY <1>2, <1>5 DEF ReplayWithinBudget
<1>6. CASE n = s
  <2>1. Confirming!UsesOf(n) = {} /\ Admitted(n) = {}
      BY <1>4, <1>6
  <2>2. 0 <= Width' * (restarts' + 1) /\ 0 <= Width' * restarts'
      BY RoomGrows
  <2>3. Cardinality({}) = 0
      BY FS_EmptySet
  <2> QED
      BY <2>1, <2>2, <2>3
<1>7. CASE n # s
  <2>1. n \in DOMAIN slips
      BY <1>3, <1>7
  <2>2. /\ Cardinality(Confirming!UsesOf(n)) + Cardinality(Admitted(n))
              <= Width * (restarts + 1)
        /\ n \notin nonces => Cardinality(Confirming!UsesOf(n)) <= Width * restarts
      BY <2>1 DEF ReplayWithinBudget
  <2>3. Cardinality(Confirming!UsesOf(n)) \in Nat /\ Cardinality(Admitted(n)) \in Nat
      BY UsesFinite, AdmittedFinite DEF ServerTypeOK
  <2> QED
      BY <1>2, <2>2, <2>3, RoomGrows
<1> QED
    BY <1>6, <1>7

(* A restart starts a new run of the server, with nothing under way.       *)
LEMMA RestartWithinReplay ==
    ASSUME ReplayInv, [ServerNext]_serverVars, Confirming!Restart
    PROVE  ReplayWithinBudget'
<1> USE DEF ReplayInv
<1>1. /\ slips' = slips /\ honoured' = honoured /\ restarts' = restarts + 1
      /\ call' = [w \in Workers |-> Confirming!Unused]
    BY DEF Confirming!Restart
<1>2. \A n : Confirming!UsesOf(n)' = Confirming!UsesOf(n) /\ Admitted(n)' = {}
    BY <1>1 DEF Confirming!UsesOf, Admitted
<1>3. Cardinality({}) = 0
    BY FS_EmptySet
<1>4. \A n : Cardinality(Confirming!UsesOf(n)) \in Nat /\ Cardinality(Admitted(n)) \in Nat
    BY UsesFinite, AdmittedFinite DEF ServerTypeOK
<1> SUFFICES ASSUME NEW n \in DOMAIN slips
             PROVE  /\ Cardinality(Confirming!UsesOf(n)') + Cardinality(Admitted(n)')
                          <= Width' * (restarts' + 1)
                    /\ n \notin nonces' =>
                          Cardinality(Confirming!UsesOf(n)') <= Width' * restarts'
    BY <1>1 DEF ReplayWithinBudget
<1>5. Cardinality(Confirming!UsesOf(n)) + Cardinality(Admitted(n)) <= Width * (restarts + 1)
    BY DEF ReplayWithinBudget
<1>6. Cardinality(Confirming!UsesOf(n)') = Cardinality(Confirming!UsesOf(n))
      /\ Cardinality(Admitted(n)') = 0
    BY <1>2, <1>3
<1> QED
    BY <1>1, <1>4, <1>5, <1>6, RoomGrows

LEMMA ReplayNext == ReplayInv /\ [ServerNext]_serverVars => ReplayInv'
<1> SUFFICES ASSUME ReplayInv, [ServerNext]_serverVars PROVE ReplayInv'
    OBVIOUS
<1> USE DEF ReplayInv
<1>1. [Confirming!Next]_(Confirming!vars)
    BY ServerSteps
<1>2. SlipsIssued'
    BY <1>1, SlipsIssuedNext DEF ServerTypeOK
<1>3. ServerTypeOK' /\ Alone'
    BY ServerTypeNext, OneAtATime
<1>4. ReplayWithinBudget'
  <2>1. ASSUME NEW w \in Workers, NEW m \in Messages, NEW c \in Contacts,
               NEW n \in DOMAIN slips, Confirming!Verify(w, m, c, n)
        PROVE  ReplayWithinBudget'
    <3>1. /\ honoured' = honoured /\ restarts' = restarts /\ nonces' = nonces
          /\ slips' = slips
          /\ call' = [call EXCEPT ![w] = [phase |-> "verified", slip |-> n,
                                          message |-> m, contact |-> c]]
          /\ call \in [Workers -> Confirming!Call \cup {Confirming!Unused}]
        BY <2>1 DEF Confirming!Verify, Confirming!Begin, ServerTypeOK, Confirming!TypeOK
    <3>2. \A r : Admitted(r)' \in SUBSET Admitted(r)
        BY <3>1 DEF Admitted
    <3> QED
        BY <3>1, <3>2, OthersWithinReplay
  <2>2. ASSUME NEW w \in Workers, Confirming!CheckNonce(w) PROVE ReplayWithinBudget'
      BY <1>3, <2>2, CheckWithinReplay
  <2>3. ASSUME NEW w \in Workers, Confirming!MarkNonce(w) PROVE ReplayWithinBudget'
      BY <2>3, MarkWithinReplay
  <2>4. ASSUME NEW w \in Workers, Confirming!Abort(w) PROVE ReplayWithinBudget'
    <3>1. /\ honoured' = honoured /\ restarts' = restarts /\ nonces' = nonces
          /\ slips' = slips
          /\ call' = [call EXCEPT ![w] = Confirming!Unused]
          /\ call \in [Workers -> Confirming!Call \cup {Confirming!Unused}]
        BY <2>4 DEF Confirming!Abort, ServerTypeOK, Confirming!TypeOK
    <3>2. \A r : Admitted(r)' \in SUBSET Admitted(r)
        BY <3>1 DEF Admitted
    <3> QED
        BY <3>1, <3>2, OthersWithinReplay
  <2>5. ASSUME NEW m \in Messages, NEW c \in Contacts, NEW s \in States,
               Confirming!Issue(m, c, s)
        PROVE  ReplayWithinBudget'
      BY <2>5, IssueWithinReplay
  <2>6. CASE \/ \E n \in DOMAIN slips : Confirming!Expire(n)
             \/ \E m \in Messages, s \in States : Confirming!Move(m, s)
             \/ UNCHANGED Confirming!vars
    <3>1. /\ honoured' = honoured /\ restarts' = restarts /\ nonces' = nonces
          /\ DOMAIN slips' = DOMAIN slips /\ call' = call
        BY <2>6 DEF Confirming!Expire, Confirming!Move, Confirming!vars,
                    ServerTypeOK, Confirming!TypeOK
    <3>2. \A r : Admitted(r)' = Admitted(r)
        BY <3>1 DEF Admitted
    <3> QED
        BY <3>1, <3>2, OthersWithinReplay
  <2>7. CASE Confirming!Restart
      BY <2>7, RestartWithinReplay
  <2> QED
      BY <1>1, <2>1, <2>2, <2>3, <2>4, <2>5, <2>6, <2>7
         DEF Confirming!Next, Confirming!Serve, Confirming!Environment
<1> QED
    BY <1>2, <1>3, <1>4

LEMMA ReplayInit == ServerInit => ReplayInv
<1> SUFFICES ASSUME ServerInit PROVE ReplayInv
    OBVIOUS
<1>1. ServerTypeOK
    BY ServerTypeInit
<1>2. Alone /\ SlipsIssued /\ ReplayWithinBudget
    BY DEF ServerInit, Init, Confirming!Init, Alone, InFlight, SlipsIssued,
           ReplayWithinBudget
<1> QED
    BY <1>1, <1>2 DEF ReplayInv

(* However callers interleave and however often the server restarts, a     *)
(* confirmation token is honoured at most once per run of the server and   *)
(* caller in flight; once per run for callers served one by one.           *)
THEOREM TokensAreHonouredWithinBounds == ServerSpec => []ReplayBounded
<1>1. ReplayInv => ReplayBounded
  <2> SUFFICES ASSUME ReplayInv, NEW n \in DOMAIN slips
               PROVE  Cardinality(Confirming!UsesOf(n)) <= Width * (restarts + 1)
      BY DEF ReplayBounded
  <2>1. /\ Cardinality(Confirming!UsesOf(n)) \in Nat
        /\ Cardinality(Admitted(n)) \in Nat
        /\ Cardinality(Confirming!UsesOf(n)) + Cardinality(Admitted(n))
              <= Width * (restarts + 1)
      BY UsesFinite, AdmittedFinite DEF ReplayInv, ServerTypeOK, ReplayWithinBudget
  <2>2. Width * (restarts + 1) \in Nat
    <3>1. Width \in Nat /\ restarts \in Nat
        BY StepUpAssumption, FS_CardinalityType
           DEF Width, ReplayInv, ServerTypeOK, TypeOK
    <3> QED
        BY <3>1, Products
  <2> QED
      BY <2>1, <2>2
<1> QED
    BY <1>1, ReplayInit, ReplayNext, PTL DEF ServerSpec

-----------------------------------------------------------------------------
(* Confirmation tokens are honoured in the state they name *)

(* A verified token names the state its message is in.                     *)
Awaited(w) ==
    call[w] # Confirming!Unused =>
        slips[call[w].slip].expected = state[call[w].message]

InOrder == Confirming!InExpectedState /\ \A w \in Workers : Awaited(w)

(* The state a token names is never changed.                               *)
LEMMA ExpectedStays ==
    ASSUME Confirming!TypeOK, Confirming!Environment, NEW n \in DOMAIN slips
    PROVE  n \in DOMAIN slips' /\ slips'[n].expected = slips[n].expected
<1>1. ASSUME NEW m \in Messages, NEW c \in Contacts, NEW s \in States,
             Confirming!Issue(m, c, s)
      PROVE  n \in DOMAIN slips' /\ slips'[n] = slips[n]
  <2>1. PICK x : slips' = Append(slips, x)
      BY <1>1 DEF Confirming!Issue
  <2> QED
      BY <2>1 DEF Confirming!TypeOK
<1>2. ASSUME NEW k \in DOMAIN slips, Confirming!Expire(k)
      PROVE  n \in DOMAIN slips' /\ slips'[n].expected = slips[n].expected
  <2>1. slips' = [slips EXCEPT ![k] = [slips[k] EXCEPT !.expired = TRUE]]
      BY <1>2 DEF Confirming!Expire
  <2>2. slips[k] \in Confirming!ConfirmationClaims
      BY DEF Confirming!TypeOK
  <2>3. [slips[k] EXCEPT !.expired = TRUE].expected = slips[k].expected
      BY <2>2 DEF Confirming!ConfirmationClaims
  <2> QED
      BY <2>1, <2>3
<1> QED
    BY <1>1, <1>2 DEF Confirming!Environment, Confirming!Move

(* A token is verified against the state its message is in, and honoured   *)
(* in the state it is then still in.                                       *)
LEMMA ServedInOrder ==
    ASSUME Confirming!TypeOK, SlipsIssued, InOrder, NEW w \in Workers,
           Confirming!Serve(w)
    PROVE  InOrder'
<1>1. /\ slips' = slips /\ state' = state
      /\ call \in [Workers -> Confirming!Call \cup {Confirming!Unused}]
    BY DEF Confirming!Serve, Confirming!Verify, Confirming!Begin,
           Confirming!CheckNonce, Confirming!MarkNonce, Confirming!Abort,
           Confirming!TypeOK
<1>2. ASSUME honoured' = honoured, Awaited(w)',
             \A v \in Workers : v # w => call'[v] = call[v]
      PROVE  InOrder'
    BY <1>1, <1>2 DEF InOrder, Awaited, Confirming!InExpectedState
<1>3. ASSUME NEW m \in Messages, NEW c \in Contacts, NEW n \in DOMAIN slips,
             Confirming!Verify(w, m, c, n)
      PROVE  InOrder'
  <2>1. PICK r : r = [phase |-> "verified", slip |-> n, message |-> m, contact |-> c]
      OBVIOUS
  <2>2. r.slip = n /\ r.message = m /\ call' = [call EXCEPT ![w] = r]
      BY <1>3, <2>1 DEF Confirming!Verify, Confirming!Begin
  <2>3. honoured' = honoured /\ slips[n].expected = state[m]
      BY <1>3 DEF Confirming!Verify, Confirming!Begin
  <2> QED
      BY <1>1, <1>2, <2>2, <2>3 DEF Awaited
<1>4. CASE Confirming!CheckNonce(w)
  <2>1. call[w] # Confirming!Unused /\ call[w] \in Confirming!Call
      BY <1>1, <1>4 DEF Confirming!CheckNonce, Confirming!Unused
  <2>2. PICK r : r = [call[w] EXCEPT !.phase = "unused"]
      OBVIOUS
  <2>3. r.slip = call[w].slip /\ r.message = call[w].message
      BY <2>1, <2>2 DEF Confirming!Call
  <2>4. call' = [call EXCEPT ![w] = r] /\ honoured' = honoured
    <3>1. [call EXCEPT ![w].phase = "unused"]
        = [call EXCEPT ![w] = [call[w] EXCEPT !.phase = "unused"]]
        OBVIOUS
    <3> QED
        BY <1>4, <2>2, <3>1 DEF Confirming!CheckNonce
  <2> QED
      BY <1>1, <1>2, <2>1, <2>3, <2>4 DEF Awaited, InOrder
<1>5. CASE Confirming!MarkNonce(w)
  <2>1. call[w] # Confirming!Unused
      BY <1>5 DEF Confirming!MarkNonce, Confirming!Unused
  <2>2. PICK u : u = [slip |-> call[w].slip, message |-> call[w].message,
                      contact |-> call[w].contact, state |-> state[call[w].message]]
      OBVIOUS
  <2>3. u.slip = call[w].slip /\ u.state = state[call[w].message]
      BY <2>2
  <2>4. /\ honoured' = Append(honoured, u)
        /\ call' = [call EXCEPT ![w] = Confirming!Unused]
      BY <1>5, <2>2 DEF Confirming!MarkNonce
  <2>5. /\ DOMAIN honoured' = DOMAIN honoured \cup {Len(honoured) + 1}
        /\ honoured'[Len(honoured) + 1] = u
        /\ \A k \in DOMAIN honoured : honoured'[k] = honoured[k]
      BY <2>4 DEF Confirming!TypeOK
  <2>6. Confirming!InExpectedState'
      BY <1>1, <2>1, <2>3, <2>5 DEF InOrder, Awaited, Confirming!InExpectedState
  <2>7. \A v \in Workers : Awaited(v)'
      BY <1>1, <2>4 DEF InOrder, Awaited
  <2> QED
      BY <2>6, <2>7 DEF InOrder
<1>6. CASE Confirming!Abort(w)
    BY <1>1, <1>2, <1>6 DEF Confirming!Abort, Awaited
<1> QED
    BY <1>3, <1>4, <1>5, <1>6 DEF Confirming!Serve

LEMMA InOrderNext ==
    ASSUME ReplayInv, ~ overlapped => InOrder, [ServerNext]_serverVars, ~ overlapped'
    PROVE  InOrder'
<1> USE DEF ReplayInv, ServerTypeOK
<1>1. ASSUME UNCHANGED confirmingVars, InOrder PROVE InOrder'
    BY <1>1 DEF confirmingVars, InOrder, Awaited, Confirming!InExpectedState
<1>2. CASE UNCHANGED serverVars
    BY <1>1, <1>2 DEF serverVars
<1>3. CASE ServerNext
  <2>1. /\ ~ overlapped /\ InOrder
        /\ \A w \in Workers : InFlight(w) =>
              ~ (request'[w] = request[w] /\ call'[w] = call[w])
      BY <1>3 DEF ServerNext, Watch
  <2>2. ASSUME NEW w \in Workers, ServeStepUp(w) \/ ServeConfirming(w) PROVE InOrder'
      BY <1>1, <2>1, <2>2, ServedInOrder DEF ServeStepUp, ServeConfirming
  <2>3. CASE Environment /\ UNCHANGED confirmingVars
      BY <1>1, <2>1, <2>3
  <2>4. CASE Confirming!Environment /\ UNCHANGED stepUpVars
    <3>1. request' = request /\ call' = call /\ honoured' = honoured
        BY <2>4 DEF stepUpVars, Confirming!Environment, Confirming!Issue,
                    Confirming!Expire, Confirming!Move
    <3>2. \A w \in Workers : call[w] = Confirming!Unused
        BY <2>1, <3>1 DEF InFlight
    <3>3. \A w \in Workers : Awaited(w)'
        BY <3>1, <3>2 DEF Awaited
    <3>4. \A u \in DOMAIN honoured :
             slips'[honoured[u].slip].expected = slips[honoured[u].slip].expected
        BY <2>4, ExpectedStays DEF SlipsIssued
    <3>5. Confirming!InExpectedState'
        BY <2>1, <3>1, <3>4 DEF InOrder, Confirming!InExpectedState
    <3> QED
        BY <3>3, <3>5 DEF InOrder
  <2>5. CASE ServerRestart
    <3>1. /\ slips' = slips /\ honoured' = honoured
          /\ call' = [w \in Workers |-> Confirming!Unused]
        BY <2>5 DEF ServerRestart, Confirming!Restart
    <3> QED
        BY <2>1, <3>1 DEF InOrder, Awaited, Confirming!InExpectedState
  <2> QED
      BY <1>3, <2>2, <2>3, <2>4, <2>5 DEF ServerNext
<1> QED
    BY <1>2, <1>3

(* Unless something happened between its verification and its use, a       *)
(* confirmation token is honoured in the state it names.                   *)
THEOREM TokensAreHonouredInTheirState == ServerSpec => []InExpectedStateAlone
<1>1. ServerInit => InOrder
    BY DEF ServerInit, Confirming!Init, InOrder, Awaited, Confirming!InExpectedState
<1>2. (~ overlapped => InOrder) => InExpectedStateAlone
    BY DEF InOrder, InExpectedStateAlone
<1> QED
    BY <1>1, <1>2, ReplayInit, ReplayNext, InOrderNext, PTL DEF ServerSpec

=============================================================================
