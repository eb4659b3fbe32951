------------------------ MODULE ReleaseRequestsProofs ------------------------
(***************************************************************************)
(* Theorems about ReleaseRequests, for any number of workers and any       *)
(* interleaving of their requests.                                         *)
(***************************************************************************)
EXTENDS ReleaseRequests, ReleaseEngineLemmas, SequenceTheorems

Step(w) == Read(w) \/ Commit(w) \/ Abort(w)

-----------------------------------------------------------------------------
(* Type correctness *)

LEMMA InFlight ==
    ASSUME TypeOK, NEW w \in Workers, request[w].phase # "idle"
    PROVE  request[w] \in Request
  BY DEF TypeOK, Idle

LEMMA ContinueType ==
    ASSUME TypeOK, NEW w \in Workers, request[w] \in Request,
           NEW phase \in Phase, NEW path \in Path, NEW votes \in SUBSET Nat,
           Continue(w, phase, path, votes)
    PROVE  TypeOK'
<1>1. [request[w] EXCEPT !.phase = phase, !.path = path, !.votes = votes] \in Request
    BY DEF Request
<1>2. request' = [request EXCEPT ![w] =
          [request[w] EXCEPT !.phase = phase, !.path = path, !.votes = votes]]
    BY DEF Continue, TypeOK
<1>3. request' \in [Workers -> Request \cup {Idle}]
    BY <1>1, <1>2 DEF TypeOK
<1>4. UNCHANGED <<policy, msg, confirmations, history, contacts, now, death>>
    BY DEF Continue, database
<1> QED
    BY <1>3, <1>4 DEF TypeOK

LEMMA ReadType == ASSUME TypeOK, NEW w \in Workers, Read(w) PROVE TypeOK'
<1>0. /\ "loaded" \in Phase /\ "admitted" \in Phase
      /\ "checked" \in Phase /\ "ready" \in Phase
      /\ <<>> \in Path /\ {} \in SUBSET Nat
    BY DEF Phase, Path
<1> USE <1>0
<1>1. CASE \E op \in Operation, u \in Users, c \in Contacts \cup {NoContact} :
              Load(w, op, u, c)
  <2>1. PICK op \in Operation, u \in Users, c \in Contacts \cup {NoContact} :
           Load(w, op, u, c)
      BY <1>1
  <2> DEFINE loaded == IF op = "delete_family" THEN NewMessage ELSE msg
             r == [op |-> op, user |-> u, contact |-> c, phase |-> "loaded",
                   loaded |-> loaded, path |-> <<>>, votes |-> {}]
  <2>2. loaded \in Message
      BY DEF TypeOK, NewMessage, Message, ReleaseState
  <2>3. r \in Request
      BY <2>2 DEF Request
  <2>4. request' = [request EXCEPT ![w] = r]
      BY <2>1 DEF Load
  <2>5. request' \in [Workers -> Request \cup {Idle}]
      BY <2>3, <2>4 DEF TypeOK
  <2>6. UNCHANGED <<policy, msg, confirmations, history, contacts, now, death>>
      BY <2>1 DEF Load, database
  <2> QED
      BY <2>5, <2>6 DEF TypeOK
<1>2. CASE AdmitContact(w)
    BY <1>2, InFlight, ContinueType DEF AdmitContact
<1>3. CASE CheckDuplicate(w)
    BY <1>3, InFlight, ContinueType DEF CheckDuplicate, At
<1>4. CASE CountVotes(w)
  <2> DEFINE q == QuorumAdvances(policy, CountValid(confirmations, contacts))
             path == ConfirmPath(request[w].loaded.release_state, q)
  <2>1. At(w, "confirm", "checked") /\ Continue(w, "ready", path, {})
      BY <1>4 DEF CountVotes
  <2>2. request[w] \in Request
      BY <2>1, InFlight DEF At
  <2>3. path \in Path
    <3>1. request[w].loaded.release_state \in ReleaseState /\ q \in BOOLEAN
        BY <2>2 DEF Request, Message, QuorumAdvances
    <3> QED
        BY <3>1, OperationPaths
  <2> QED
      BY <2>1, <2>2, <2>3, ContinueType
<1>5. CASE EvaluateRequest(w)
    BY <1>5, InFlight, ContinueType, OperationPaths DEF EvaluateRequest, At
<1>6. CASE EvaluateFinalize(w)
    BY <1>6, InFlight, ContinueType DEF EvaluateFinalize, At
<1>7. CASE EvaluateRelease(w)
    BY <1>7, InFlight, ContinueType, LiteralPaths DEF EvaluateRelease, At
<1>8. CASE LoadVotes(w)
  <2>1. {i \in DOMAIN confirmations : confirmations[i].is_valid} \in SUBSET Nat
      BY DEF TypeOK
  <2> QED
      BY <1>8, <2>1, InFlight, ContinueType, LiteralPaths DEF LoadVotes, At
<1>9. CASE LoadChildren(w)
    BY <1>9, InFlight, ContinueType DEF LoadChildren, At
<1> QED
    BY <1>1, <1>2, <1>3, <1>4, <1>5, <1>6, <1>7, <1>8, <1>9 DEF Read

LEMMA FlushType ==
    ASSUME NEW stored \in Message, NEW loaded \in Message, NEW new \in Message
    PROVE  Flush(stored, loaded, new) \in Message
  BY DEF Flush, Message

LEMMA WriteType ==
    ASSUME TypeOK, NEW r \in Request, WriteMessage(r)
    PROVE  msg' \in Message /\ history' \in Seq(Transition)
<1>1. r.loaded \in Message /\ r.path \in Path /\ msg \in Message
    BY DEF Request, TypeOK
<1>2. Walk(r.loaded, r.path) \in Message
    BY <1>1, WalkType
<1>3. msg' \in Message
    BY <1>1, <1>2, FlushType DEF WriteMessage
<1>4. r.loaded.release_state \in ReleaseState
    BY <1>1 DEF Message
<1>5. Record(r.loaded.release_state, r.path) \in Seq(Transition)
    BY <1>1, <1>4, RecordType DEF Transition
<1> QED
    BY <1>3, <1>5 DEF WriteMessage, TypeOK

LEMMA DoneType ==
    ASSUME TypeOK, NEW w \in Workers, Done(w)
    PROVE  request' \in [Workers -> Request \cup {Idle}]
  BY DEF TypeOK, Done

(* The rows after a cancellation: as many, the people in them kept.        *)
LEMMA CancelRows ==
    ASSUME TypeOK, NEW w \in Workers, CommitCancel(w)
    PROVE  /\ confirmations' \in Seq(Confirmation)
           /\ Len(confirmations') = Len(confirmations)
           /\ \A i \in 1..Len(confirmations) :
                 /\ confirmations'[i].contact = confirmations[i].contact
                 /\ confirmations'[i].actor = confirmations[i].actor
                 /\ confirmations'[i].is_valid => confirmations[i].is_valid
<1>0. confirmations \in Seq(Confirmation)
    BY DEF TypeOK
<1>1. confirmations' = [i \in 1..Len(confirmations) |->
          IF i \in request[w].votes
          THEN [confirmations[i] EXCEPT !.is_valid = FALSE]
          ELSE confirmations[i]]
    BY <1>0 DEF CommitCancel
<1>2. \A row \in Confirmation :
         /\ [row EXCEPT !.is_valid = FALSE] \in Confirmation
         /\ [row EXCEPT !.is_valid = FALSE].contact = row.contact
         /\ [row EXCEPT !.is_valid = FALSE].actor = row.actor
         /\ ~ [row EXCEPT !.is_valid = FALSE].is_valid
    BY DEF Confirmation
<1>3. \A i \in 1..Len(confirmations) : confirmations[i] \in Confirmation
    BY <1>0
<1> QED
    BY <1>0, <1>1, <1>2, <1>3

(* A request that confirms names a contact.                                *)
Named == \A w \in Workers :
    request[w].phase # "idle" /\ request[w].op = "confirm"
        => request[w].contact \in Contacts

(* What a request is about does not change while it is served.             *)
LEMMA ReadKeeps ==
    ASSUME TypeOK, NEW w \in Workers, Read(w)
    PROVE  /\ UNCHANGED database
           /\ \A v \in Workers \ {w} : request'[v] = request[v]
           /\ request'[w] # Idle
           /\ \/ \E op \in Operation, u \in Users, c \in Contacts \cup {NoContact} :
                    Load(w, op, u, c)
              \/ /\ request[w].phase # "idle"
                 /\ request'[w].op = request[w].op
                 /\ request'[w].user = request[w].user
                 /\ request'[w].contact = request[w].contact
                 /\ request'[w].loaded = request[w].loaded
<1>0. /\ "loaded" # "idle" /\ "admitted" # "idle" /\ "checked" # "idle"
      /\ "ready" # "idle"
    OBVIOUS
<1>1. ASSUME NEW phase \in Phase, NEW path, NEW votes,
             request[w].phase # "idle", Continue(w, phase, path, votes)
      PROVE  /\ UNCHANGED database
             /\ \A v \in Workers \ {w} : request'[v] = request[v]
             /\ request'[w] # Idle
             /\ request[w].phase # "idle"
             /\ request'[w].op = request[w].op
             /\ request'[w].user = request[w].user
             /\ request'[w].contact = request[w].contact
             /\ request'[w].loaded = request[w].loaded
  <2>1. request[w] \in Request
      BY <1>1, InFlight
  <2>2. request' = [request EXCEPT ![w] =
          [request[w] EXCEPT !.phase = phase, !.path = path, !.votes = votes]]
      BY <1>1 DEF Continue, TypeOK
  <2>3. request'[w] =
          [request[w] EXCEPT !.phase = phase, !.path = path, !.votes = votes]
      BY <2>2 DEF TypeOK
  <2>4. /\ request'[w].op = request[w].op
        /\ request'[w].user = request[w].user
        /\ request'[w].contact = request[w].contact
        /\ request'[w].loaded = request[w].loaded
        /\ request'[w].phase = phase
      BY <2>1, <2>3 DEF Request
  <2>5. request'[w] # Idle
      BY <1>1, <2>4 DEF Idle, Phase
  <2> QED
      BY <1>1, <2>2, <2>4, <2>5 DEF Continue, TypeOK
<1>2. CASE \E op \in Operation, u \in Users, c \in Contacts \cup {NoContact} :
              Load(w, op, u, c)
  <2>1. PICK op \in Operation, u \in Users, c \in Contacts \cup {NoContact} :
           Load(w, op, u, c)
      BY <1>2
  <2>2. request'[w].phase = "loaded"
      BY <2>1 DEF Load, TypeOK
  <2> QED
      BY <1>2, <2>1, <2>2 DEF Load, TypeOK, Idle
<1>3. CASE AdmitContact(w)
    BY <1>0, <1>1, <1>3 DEF AdmitContact, Phase
<1>4. CASE CheckDuplicate(w)
    BY <1>0, <1>1, <1>4 DEF CheckDuplicate, At, Phase
<1>5. CASE CountVotes(w)
    BY <1>0, <1>1, <1>5 DEF CountVotes, At, Phase
<1>6. CASE EvaluateRequest(w)
    BY <1>0, <1>1, <1>6 DEF EvaluateRequest, At, Phase
<1>7. CASE EvaluateFinalize(w)
    BY <1>0, <1>1, <1>7 DEF EvaluateFinalize, At, Phase
<1>8. CASE EvaluateRelease(w)
    BY <1>0, <1>1, <1>8 DEF EvaluateRelease, At, Phase
<1>9. CASE LoadVotes(w)
    BY <1>0, <1>1, <1>9 DEF LoadVotes, At, Phase
<1>10. CASE LoadChildren(w)
    BY <1>0, <1>1, <1>10 DEF LoadChildren, At, Phase
<1> QED
    BY <1>2, <1>3, <1>4, <1>5, <1>6, <1>7, <1>8, <1>9, <1>10 DEF Read

LEMMA EndsRequest ==
    ASSUME TypeOK, NEW w \in Workers, Done(w)
    PROVE  /\ request'[w].phase = "idle"
           /\ \A v \in Workers \ {w} : request'[v] = request[v]
  BY DEF Done, TypeOK, Idle

LEMMA CommitType ==
    ASSUME TypeOK, Named, NEW w \in Workers, Commit(w)
    PROVE  TypeOK' /\ Done(w)
<1>1. CASE CommitConfirm(w)
  <2> DEFINE r == request[w]
             row == NewConfirmation(r.contact, r.user)
  <2>1. r \in Request
      BY <1>1, InFlight DEF CommitConfirm, At
  <2>2. r.contact \in Contacts /\ r.user \in Users
      BY <1>1, <2>1 DEF CommitConfirm, At, Named, Request
  <2>3. row \in Confirmation
      BY <2>2 DEF NewConfirmation, Confirmation
  <2>4. confirmations' \in Seq(Confirmation)
    <3>1. confirmations' = Append(confirmations, row)
        BY <1>1 DEF CommitConfirm
    <3> QED
        BY <2>3, <3>1 DEF TypeOK
  <2>5. msg' \in Message /\ history' \in Seq(Transition)
      BY <1>1, <2>1, WriteType DEF CommitConfirm
  <2>6. request' \in [Workers -> Request \cup {Idle}]
      BY <1>1, DoneType DEF CommitConfirm
  <2> QED
      BY <1>1, <2>4, <2>5, <2>6 DEF CommitConfirm, TypeOK
<1>2. CASE CommitTransitions(w)
  <2>1. request[w] \in Request
      BY <1>2, InFlight DEF CommitTransitions, At
  <2>2. msg' \in Message /\ history' \in Seq(Transition)
      BY <1>2, <2>1, WriteType DEF CommitTransitions
  <2>3. request' \in [Workers -> Request \cup {Idle}]
      BY <1>2, DoneType DEF CommitTransitions
  <2> QED
      BY <1>2, <2>2, <2>3 DEF CommitTransitions, TypeOK
<1>3. CASE CommitCancel(w)
  <2>1. request[w] \in Request
      BY <1>3, InFlight DEF CommitCancel, At
  <2>2. msg' \in Message /\ history' \in Seq(Transition)
      BY <1>3, <2>1, WriteType DEF CommitCancel
  <2>3. request' \in [Workers -> Request \cup {Idle}]
      BY <1>3, DoneType DEF CommitCancel
  <2>4. confirmations' \in Seq(Confirmation)
      BY <1>3, CancelRows
  <2> QED
      BY <1>3, <2>2, <2>3, <2>4 DEF CommitCancel, TypeOK
<1>4. CASE CommitDelete(w)
  <2>1. request' \in [Workers -> Request \cup {Idle}]
      BY <1>4, DoneType DEF CommitDelete
  <2> QED
      BY <1>4, <2>1 DEF CommitDelete, TypeOK
<1> QED
    BY <1>1, <1>2, <1>3, <1>4 DEF Commit

LEMMA NamedNext ==
    ASSUME TypeOK, Named, NEW w \in Workers, Step(w)
    PROVE  Named'
<1>1. CASE Read(w)
  <2>1. \A v \in Workers \ {w} : request'[v] = request[v]
      BY <1>1, ReadKeeps
  <2>2. request'[w].op = "confirm" => request'[w].contact \in Contacts
    <3>1. CASE \E op \in Operation, u \in Users, c \in Contacts \cup {NoContact} :
                  Load(w, op, u, c)
      <4>1. PICK op \in Operation, u \in Users, c \in Contacts \cup {NoContact} :
               Load(w, op, u, c)
          BY <3>1
      <4>2. request'[w].op = op /\ request'[w].contact = c
          BY <4>1 DEF Load, TypeOK
      <4>3. op = "confirm" => c \in Contacts
          BY <4>1 DEF Load, Authorized
      <4> QED
          BY <4>2, <4>3
    <3>2. CASE /\ request[w].phase # "idle"
               /\ request'[w].op = request[w].op
               /\ request'[w].contact = request[w].contact
        BY <3>2 DEF Named
    <3> QED
        BY <1>1, <3>1, <3>2, ReadKeeps
  <2> QED
      BY <2>1, <2>2 DEF Named
<1>2. CASE Commit(w) \/ Abort(w)
  <2>1. Done(w)
      BY <1>2, CommitType DEF Abort
  <2> QED
      BY <2>1, EndsRequest DEF Named
<1> QED
    BY <1>1, <1>2 DEF Step

LEMMA TypeInit == Init => TypeOK /\ Named
<1> SUFFICES ASSUME Init PROVE TypeOK /\ Named
    OBVIOUS
<1>1. policy \in Policy /\ 0 \in 0..MaxTime
    BY RequestsAssumption DEF Init
<1>2. NewMessage \in Message
    BY DEF NewMessage, Message, ReleaseState
<1>3. <<>> \in Seq(Confirmation) /\ <<>> \in Seq(Transition)
    OBVIOUS
<1>4. request \in [Workers -> Request \cup {Idle}]
    BY DEF Init
<1> QED
    BY <1>1, <1>2, <1>3, <1>4 DEF Init, TypeOK, Named, Idle

LEMMA TypeNext == TypeOK /\ Named /\ [Next]_vars => TypeOK' /\ Named'
<1> SUFFICES ASSUME TypeOK, Named, [Next]_vars PROVE TypeOK' /\ Named'
    OBVIOUS
<1>1. CASE \E w \in Workers : Step(w)
  <2>1. PICK w \in Workers : Step(w)
      BY <1>1
  <2>2. CASE Read(w)
      BY <2>1, <2>2, ReadType, NamedNext
  <2>3. CASE Commit(w)
      BY <2>1, <2>3, CommitType, NamedNext
  <2>4. CASE Abort(w)
    <3>1. request' \in [Workers -> Request \cup {Idle}]
        BY <2>4, DoneType DEF Abort
    <3> QED
        BY <2>1, <2>4, <3>1, NamedNext DEF Abort, database, TypeOK
  <2> QED
      BY <2>1, <2>2, <2>3, <2>4 DEF Step
<1>2. CASE Tick
    BY <1>2, RequestsAssumption DEF Tick, TypeOK, Named
<1>3. CASE VerifyDeath
    BY <1>3 DEF VerifyDeath, TypeOK, Named
<1>4. CASE UNCHANGED vars
    BY <1>4 DEF vars, TypeOK, Named
<1> QED
    BY <1>1, <1>2, <1>3, <1>4 DEF Next, Step

LEMMA WellTyped == Spec => [](TypeOK /\ Named)
<1> QED
    BY TypeInit, TypeNext, PTL DEF Spec

(* However requests interleave, the tables and the sessions are well       *)
(* typed.                                                                  *)
THEOREM TypeCorrect == Spec => []TypeOK
<1> QED
    BY WellTyped, PTL

-----------------------------------------------------------------------------
(* The contract *)

(* What no step takes back. *)
Keeps ==
    /\ policy' = policy
    /\ now <= now'
    /\ death => death'
    /\ Len(confirmations) <= Len(confirmations')
    /\ \A i \in 1..Len(confirmations) :
          /\ confirmations'[i].contact = confirmations[i].contact
          /\ confirmations'[i].actor = confirmations[i].actor

LEMMA AlwaysKeeps == TypeOK /\ [Next]_vars => Keeps
<1> SUFFICES ASSUME TypeOK, [Next]_vars PROVE Keeps
    OBVIOUS
<1>0. /\ now \in Nat
      /\ confirmations \in Seq(Confirmation)
      /\ Len(confirmations) \in Nat
      /\ death \in BOOLEAN
    BY RequestsAssumption DEF TypeOK
<1>a. ASSUME UNCHANGED <<policy, confirmations, now, death>> PROVE Keeps
    BY <1>0, <1>a DEF Keeps
<1>1. CASE \E w \in Workers : Step(w)
  <2>1. PICK w \in Workers : Step(w)
      BY <1>1
  <2>2. CASE Read(w)
      BY <1>a, <2>2, ReadKeeps DEF database
  <2>3. CASE CommitConfirm(w)
    <3>1. confirmations' = Append(confirmations, NewConfirmation(request[w].contact,
                                                                 request[w].user))
        BY <2>3 DEF CommitConfirm
    <3>2. UNCHANGED <<policy, now, death>>
        BY <2>3 DEF CommitConfirm
    <3>3. /\ Len(confirmations) <= Len(confirmations')
          /\ \A i \in 1..Len(confirmations) : confirmations'[i] = confirmations[i]
        BY <1>0, <3>1
    <3> QED
        BY <1>0, <3>2, <3>3 DEF Keeps
  <2>4. CASE CommitTransitions(w)
      BY <1>a, <2>4 DEF CommitTransitions
  <2>5. CASE CommitCancel(w)
    <3>1. UNCHANGED <<policy, now, death>>
        BY <2>5 DEF CommitCancel
    <3> QED
        BY <1>0, <2>5, <3>1, CancelRows DEF Keeps
  <2>6. CASE CommitDelete(w)
      BY <1>a, <2>6 DEF CommitDelete
  <2>7. CASE Abort(w)
      BY <1>a, <2>7 DEF Abort, database
  <2> QED
      BY <2>1, <2>2, <2>3, <2>4, <2>5, <2>6, <2>7 DEF Step, Commit
<1>2. CASE Tick
    BY <1>0, <1>2 DEF Tick, Keeps
<1>3. CASE VerifyDeath
    BY <1>0, <1>3 DEF VerifyDeath, Keeps
<1>4. CASE UNCHANGED vars
    BY <1>a, <1>4 DEF vars
<1> QED
    BY <1>1, <1>2, <1>3, <1>4 DEF Next, Step

LEMMA MetStays == TypeOK /\ TypeOK' /\ Keeps /\ Met => Met'
<1> SUFFICES ASSUME TypeOK, TypeOK', Keeps, Met
             PROVE  Met'
    OBVIOUS
<1>1. Cardinality(EverCounted(confirmations)) <= Cardinality(EverCounted(confirmations'))
    BY EverCountedGrows DEF TypeOK, Keeps
<1>2. /\ Cardinality(EverCounted(confirmations)) \in Nat
      /\ Cardinality(EverCounted(confirmations')) \in Nat
    BY CountBound DEF TypeOK
<1>3. now \in Nat /\ now' \in Nat
    BY RequestsAssumption DEF TypeOK
<1> QED
    BY <1>1, <1>2, <1>3, HoldsForever DEF TypeOK, Keeps, Met

LEMMA SatisfiedIsMet == TypeOK /\ Satisfied => Met
<1> SUFFICES ASSUME TypeOK, Satisfied
             PROVE  Met
    OBVIOUS
<1>1. /\ CountValid(confirmations, contacts) \in Nat
      /\ Cardinality(EverCounted(confirmations)) \in Nat
      /\ CountValid(confirmations, contacts) <= Cardinality(EverCounted(confirmations))
    BY CountBound DEF TypeOK
<1>2. now \in Nat
    BY RequestsAssumption DEF TypeOK
<1> QED
    BY <1>1, <1>2, SatisfiedHolds DEF TypeOK, Satisfied, Met

LEMMA MetBoolean ==
    /\ TypeOK => Met \in BOOLEAN
    /\ TypeOK' => Met' \in BOOLEAN
<1>1. ASSUME TypeOK PROVE Met \in BOOLEAN
  <2>1. now - policy.utc_offset \in Int
      BY <1>1, RequestsAssumption, PolicyType DEF TypeOK
  <2> QED
      BY <1>1, <2>1, HoldsBoolean, CountBound DEF TypeOK, Met
<1>2. ASSUME TypeOK' PROVE Met' \in BOOLEAN
  <2>1. now' - policy'.utc_offset \in Int
      BY <1>2, RequestsAssumption, PolicyType DEF TypeOK
  <2> QED
      BY <1>2, <2>1, HoldsBoolean, CountBound DEF TypeOK, Met
<1> QED
    BY <1>1, <1>2

(* A request that is about to release has seen the condition satisfied,    *)
(* however much has happened since.                                        *)
Honest == \A w \in Workers :
    request[w].phase # "idle" /\ Visits(request[w].path, {"RELEASED"}) => Met

(* Reading makes a request releasing only if the condition is satisfied.   *)
LEMMA ReadHonest ==
    ASSUME TypeOK, NEW w \in Workers, Read(w),
           Visits(request'[w].path, {"RELEASED"})
    PROVE  Satisfied
<1>0. ~ Visits(<<>>, {"RELEASED"}) /\ ~ Visits(<<"CANCELLED">>, {"RELEASED"})
    BY DEF Visits
<1>1. ASSUME NEW phase, NEW path, NEW votes, request[w].phase # "idle",
             Continue(w, phase, path, votes)
      PROVE  request'[w].path = path
  <2>1. request[w] \in Request
      BY <1>1, InFlight
  <2>2. request'[w] =
          [request[w] EXCEPT !.phase = phase, !.path = path, !.votes = votes]
      BY <1>1 DEF Continue, TypeOK
  <2> QED
      BY <2>1, <2>2 DEF Request
<1>2. CASE \E op \in Operation, u \in Users, c \in Contacts \cup {NoContact} :
              Load(w, op, u, c)
  <2>1. request'[w].path = <<>>
      BY <1>2 DEF Load, TypeOK
  <2> QED
      BY <1>0, <2>1
<1>3. CASE AdmitContact(w)
    BY <1>0, <1>1, <1>3 DEF AdmitContact
<1>4. CASE CheckDuplicate(w)
    BY <1>0, <1>1, <1>4 DEF CheckDuplicate, At
<1>5. CASE CountVotes(w)
  <2> DEFINE q == QuorumAdvances(policy, CountValid(confirmations, contacts))
             path == ConfirmPath(request[w].loaded.release_state, q)
  <2>1. At(w, "confirm", "checked") /\ Continue(w, "ready", path, {})
      BY <1>5 DEF CountVotes
  <2>2. request[w].loaded.release_state \in ReleaseState /\ q \in BOOLEAN
      BY <2>1, InFlight DEF At, Request, Message, QuorumAdvances
  <2>3. request'[w].path = path
      BY <1>1, <2>1 DEF At
  <2> QED
      BY <2>2, <2>3, OperationPaths
<1>6. CASE EvaluateRequest(w)
    BY <1>6 DEF EvaluateRequest
<1>7. CASE EvaluateFinalize(w)
    BY <1>7 DEF EvaluateFinalize
<1>8. CASE EvaluateRelease(w)
    BY <1>8 DEF EvaluateRelease
<1>9. CASE LoadVotes(w)
    BY <1>0, <1>1, <1>9 DEF LoadVotes, At
<1>10. CASE LoadChildren(w)
    BY <1>0, <1>1, <1>10 DEF LoadChildren, At
<1> QED
    BY <1>2, <1>3, <1>4, <1>5, <1>6, <1>7, <1>8, <1>9, <1>10 DEF Read

LEMMA HonestNext ==
    TypeOK /\ TypeOK' /\ Named /\ Honest /\ [Next]_vars => Honest'
<1> SUFFICES ASSUME TypeOK, TypeOK', Named, Honest, [Next]_vars PROVE Honest'
    OBVIOUS
<1>0. Met => Met'
    BY AlwaysKeeps, MetStays
<1>a. ASSUME request' = request PROVE Honest'
    BY <1>0, <1>a DEF Honest
<1>1. CASE \E w \in Workers : Step(w)
  <2>1. PICK w \in Workers : Step(w)
      BY <1>1
  <2>2. CASE Read(w)
    <3>1. \A v \in Workers \ {w} : request'[v] = request[v]
        BY <2>2, ReadKeeps
    <3>2. Visits(request'[w].path, {"RELEASED"}) => Met'
        BY <1>0, <2>2, ReadHonest, SatisfiedIsMet
    <3> QED
        BY <1>0, <3>1, <3>2 DEF Honest
  <2>3. CASE Commit(w) \/ Abort(w)
    <3>1. Done(w)
        BY <2>3, CommitType DEF Abort
    <3> QED
        BY <1>0, <3>1, EndsRequest DEF Honest
  <2> QED
      BY <2>1, <2>2, <2>3 DEF Step
<1>2. CASE Tick
    BY <1>2, <1>a DEF Tick
<1>3. CASE VerifyDeath
    BY <1>3, <1>a DEF VerifyDeath
<1>4. CASE UNCHANGED vars
    BY <1>4, <1>a DEF vars
<1> QED
    BY <1>1, <1>2, <1>3, <1>4 DEF Next, Step

(* A commit releases the message if its path does, and never unreleases.   *)
LEMMA WriteReleases ==
    ASSUME TypeOK, NEW r \in Request, WriteMessage(r)
    PROVE  \/ msg'.is_released = msg.is_released
           \/ msg'.is_released = TRUE /\ Visits(r.path, {"RELEASED"})
<1> DEFINE new == Walk(r.loaded, r.path)
<1>1. r.loaded \in Message /\ r.path \in Path /\ msg \in Message
    BY DEF Request, TypeOK
<1>2. new \in Message
    BY <1>1, WalkType
<1>3. new.is_released <=> r.loaded.is_released \/ Visits(r.path, {"RELEASED"})
    BY <1>1, WalkReleases
<1>4. msg'.is_released = IF new.is_released # r.loaded.is_released
                         THEN new.is_released ELSE msg.is_released
    BY <1>1 DEF WriteMessage, Flush, Message
<1>5. new.is_released \in BOOLEAN /\ r.loaded.is_released \in BOOLEAN
    BY <1>1, <1>2 DEF Message
<1> QED
    BY <1>3, <1>4, <1>5

LEMMA ReleaseIsMet ==
    TypeOK /\ Named /\ Honest /\ [Next]_vars =>
        \/ msg'.is_released = msg.is_released
        \/ msg'.is_released = TRUE /\ Met
<1> SUFFICES ASSUME TypeOK, Named, Honest, [Next]_vars
             PROVE  \/ msg'.is_released = msg.is_released
                    \/ msg'.is_released = TRUE /\ Met
    OBVIOUS
<1>1. CASE \E w \in Workers : Step(w)
  <2>1. PICK w \in Workers : Step(w)
      BY <1>1
  <2>2. CASE Read(w)
      BY <2>2, ReadKeeps DEF database
  <2>3. ASSUME WriteMessage(request[w]), request[w].phase = "ready"
        PROVE  \/ msg'.is_released = msg.is_released
               \/ msg'.is_released = TRUE /\ Met
    <3>1. request[w] \in Request
        BY <2>3, InFlight
    <3> QED
        BY <2>3, <3>1, WriteReleases DEF Honest
  <2>4. CASE CommitConfirm(w)
      BY <2>3, <2>4 DEF CommitConfirm, At
  <2>5. CASE CommitTransitions(w)
      BY <2>3, <2>5 DEF CommitTransitions, At
  <2>6. CASE CommitCancel(w)
      BY <2>3, <2>6 DEF CommitCancel, At
  <2>7. CASE CommitDelete(w)
      BY <2>7 DEF CommitDelete
  <2>8. CASE Abort(w)
      BY <2>8 DEF Abort, database
  <2> QED
      BY <2>1, <2>2, <2>4, <2>5, <2>6, <2>7, <2>8 DEF Step, Commit
<1>2. CASE Tick
    BY <1>2 DEF Tick
<1>3. CASE VerifyDeath
    BY <1>3 DEF VerifyDeath
<1>4. CASE UNCHANGED vars
    BY <1>4 DEF vars
<1> QED
    BY <1>1, <1>2, <1>3, <1>4 DEF Next, Step

LEMMA HonestInit == Init => Honest
  BY DEF Init, Honest, Idle

LEMMA AlwaysHonest == Spec => [](TypeOK /\ Named /\ Honest)
<1>1. TypeOK /\ Named /\ Honest /\ [Next]_vars => TypeOK' /\ Named' /\ Honest'
    BY TypeNext, HonestNext
<1> QED
    BY <1>1, TypeInit, HonestInit, PTL DEF Spec

(* Concurrent requests implement the contract of the engine: whatever the  *)
(* number of workers and the interleaving, a message is released only if   *)
(* its condition has been satisfied, and is_released is never taken back.  *)
THEOREM ImplementsContract == Spec => KeepsContract
<1>1. Init => Contract!Init
  <2> SUFFICES ASSUME Init PROVE Contract!Init
      OBVIOUS
  <2>1. Met \in BOOLEAN
      BY TypeInit, MetBoolean
  <2> QED
      BY <2>1 DEF Init, NewMessage, Contract!Init
<1>2. TypeOK /\ Named /\ Honest /\ TypeOK' /\ [Next]_vars
        => [Contract!Next]_(Contract!vars)
  <2> SUFFICES ASSUME TypeOK, Named, Honest, TypeOK', [Next]_vars
               PROVE  [Contract!Next]_(Contract!vars)
      OBVIOUS
  <2>1. Met => Met'
      BY AlwaysKeeps, MetStays
  <2>2. Met \in BOOLEAN /\ Met' \in BOOLEAN /\ msg.is_released \in BOOLEAN
      BY MetBoolean DEF TypeOK, Message
  <2>3. CASE msg'.is_released = msg.is_released
      BY <2>1, <2>2, <2>3 DEF Contract!Next, Contract!Satisfy, Contract!vars
  <2>4. CASE msg'.is_released = TRUE /\ Met
      BY <2>1, <2>2, <2>4 DEF Contract!Next, Contract!Release, Contract!vars
  <2> QED
      BY <2>3, <2>4, ReleaseIsMet
<1> QED
    BY <1>1, <1>2, AlwaysHonest, PTL DEF Spec, KeepsContract, Contract!Spec

-----------------------------------------------------------------------------
(* Duplicate confirmations *)

(* The requests that passed the duplicate check for a contact and have not *)
(* committed yet.                                                          *)
Passed(c) == {w \in Workers : /\ request[w].phase \in {"checked", "ready"}
                              /\ request[w].op = "confirm"
                              /\ request[w].contact = c}

(* DuplicatesBounded is not inductive: it says nothing of the confirmations*)
(* about to be committed.  While a contact has a valid confirmation nobody *)
(* passes the check, so those in flight only become rows.                  *)
BoundInv == \A c \in Contacts :
    Cardinality(ValidRows(c)) + Cardinality(Passed(c)) <= Cardinality(Workers)

LEMMA Finiteness ==
    ASSUME TypeOK, NEW c \in Contacts
    PROVE  /\ IsFiniteSet(ValidRows(c)) /\ Cardinality(ValidRows(c)) \in Nat
           /\ IsFiniteSet(Passed(c)) /\ Cardinality(Passed(c)) \in Nat
           /\ Cardinality(Workers) \in Nat
<1>1. ValidRows(c) \subseteq 1..Len(confirmations) /\ IsFiniteSet(1..Len(confirmations))
    BY FS_Interval DEF ValidRows, TypeOK
<1>2. Passed(c) \subseteq Workers /\ IsFiniteSet(Workers)
    BY RequestsAssumption DEF Passed
<1> QED
    BY <1>1, <1>2, FS_Subset, FS_CardinalityType

(* Only the duplicate check lets a request pass.                           *)
LEMMA NewlyPassed ==
    ASSUME TypeOK, NEW w \in Workers, Read(w), NEW c \in Contacts,
           request'[w].phase \in {"checked", "ready"},
           request'[w].op = "confirm", request'[w].contact = c
    PROVE  w \in Passed(c) \/ ~ HasValid(confirmations, c)
<1>1. ASSUME NEW phase, NEW path, NEW votes, request[w].phase # "idle",
             Continue(w, phase, path, votes)
      PROVE  /\ request'[w].phase = phase
             /\ request[w].op = "confirm"
             /\ request[w].contact = c
  <2>1. request[w] \in Request
      BY <1>1, InFlight
  <2>2. request'[w] =
          [request[w] EXCEPT !.phase = phase, !.path = path, !.votes = votes]
      BY <1>1 DEF Continue, TypeOK
  <2> QED
      BY <2>1, <2>2 DEF Request
<1>2. CASE \E op \in Operation, u \in Users, x \in Contacts \cup {NoContact} :
              Load(w, op, u, x)
  <2>1. request'[w].phase = "loaded"
      BY <1>2 DEF Load, TypeOK
  <2> QED
      BY <2>1
<1>3. CASE AdmitContact(w)
    BY <1>1, <1>3 DEF AdmitContact
<1>4. CASE CheckDuplicate(w)
    BY <1>1, <1>4 DEF CheckDuplicate, At
<1>5. CASE CountVotes(w)
    BY <1>1, <1>5 DEF CountVotes, At, Passed
<1>6. CASE EvaluateRequest(w)
    BY <1>1, <1>6 DEF EvaluateRequest, At
<1>7. CASE EvaluateFinalize(w)
    BY <1>1, <1>7 DEF EvaluateFinalize, At
<1>8. CASE EvaluateRelease(w)
    BY <1>1, <1>8 DEF EvaluateRelease, At
<1>9. CASE LoadVotes(w)
    BY <1>1, <1>9 DEF LoadVotes, At
<1>10. CASE LoadChildren(w)
    BY <1>1, <1>10 DEF LoadChildren, At
<1> QED
    BY <1>2, <1>3, <1>4, <1>5, <1>6, <1>7, <1>8, <1>9, <1>10 DEF Read

LEMMA ReadBound ==
    ASSUME TypeOK, TypeOK', BoundInv, NEW w \in Workers, Read(w)
    PROVE  BoundInv'
<1> SUFFICES ASSUME NEW c \in Contacts
             PROVE  Cardinality(ValidRows(c)') + Cardinality(Passed(c)')
                        <= Cardinality(Workers)
    BY DEF BoundInv
<1>1. ValidRows(c)' = ValidRows(c)
    BY ReadKeeps DEF database, ValidRows
<1>2. /\ Cardinality(ValidRows(c)) + Cardinality(Passed(c)) <= Cardinality(Workers)
      /\ IsFiniteSet(Passed(c))
      /\ Cardinality(ValidRows(c)) \in Nat /\ Cardinality(Passed(c)) \in Nat
      /\ Cardinality(Workers) \in Nat
    BY Finiteness DEF BoundInv
<1>3. \A v \in Workers \ {w} : request'[v] = request[v]
    BY ReadKeeps
<1>4. Passed(c)' \subseteq Workers /\ IsFiniteSet(Workers)
    BY RequestsAssumption DEF Passed
<1>5. CASE HasValid(confirmations, c)
  <2>1. Passed(c)' \subseteq Passed(c)
      BY <1>3, <1>5, NewlyPassed DEF Passed
  <2>2. Cardinality(Passed(c)') <= Cardinality(Passed(c)) /\ Cardinality(Passed(c)') \in Nat
      BY <1>2, <2>1, FS_Subset, FS_CardinalityType
  <2> QED
      BY <1>1, <1>2, <2>2
<1>6. CASE ~ HasValid(confirmations, c)
  <2>1. ValidRows(c) = {}
      BY <1>6 DEF HasValid, ValidRows
  <2>2. Cardinality(ValidRows(c)') = 0
      BY <1>1, <2>1, FS_EmptySet
  <2>3. Cardinality(Passed(c)') <= Cardinality(Workers) /\ Cardinality(Passed(c)') \in Nat
      BY <1>4, FS_Subset, FS_CardinalityType
  <2> QED
      BY <1>2, <2>2, <2>3
<1> QED
    BY <1>5, <1>6

(* A confirmation that is committed leaves the requests in flight and      *)
(* joins the rows.                                                         *)
LEMMA ConfirmBound ==
    ASSUME TypeOK, TypeOK', Named, BoundInv, NEW w \in Workers, CommitConfirm(w)
    PROVE  BoundInv'
<1> SUFFICES ASSUME NEW c \in Contacts
             PROVE  Cardinality(ValidRows(c)') + Cardinality(Passed(c)')
                        <= Cardinality(Workers)
    BY DEF BoundInv
<1> DEFINE row == NewConfirmation(request[w].contact, request[w].user)
           n == Len(confirmations)
<1>0. /\ confirmations \in Seq(Confirmation)
      /\ confirmations' = Append(confirmations, row)
      /\ row.contact = request[w].contact /\ row.is_valid = TRUE
      /\ request[w].phase = "ready" /\ request[w].op = "confirm"
    BY DEF TypeOK, CommitConfirm, NewConfirmation, At
<1> HIDE DEF row
<1>1. /\ n \in Nat
      /\ DOMAIN confirmations = 1..n /\ DOMAIN confirmations' = 1..(n + 1)
      /\ \A i \in 1..n : confirmations'[i] = confirmations[i]
      /\ confirmations'[n + 1] = row
    BY <1>0
<1>2. /\ Cardinality(ValidRows(c)) + Cardinality(Passed(c)) <= Cardinality(Workers)
      /\ IsFiniteSet(Passed(c)) /\ IsFiniteSet(ValidRows(c))
      /\ Cardinality(ValidRows(c)) \in Nat /\ Cardinality(Passed(c)) \in Nat
      /\ Cardinality(Workers) \in Nat
    BY Finiteness DEF BoundInv
<1>3. /\ request'[w].phase = "idle"
      /\ \A v \in Workers \ {w} : request'[v] = request[v]
    BY EndsRequest DEF CommitConfirm
<1>4. CASE request[w].contact = c
  <2>1. ValidRows(c)' = ValidRows(c) \cup {n + 1} /\ n + 1 \notin ValidRows(c)
      BY <1>0, <1>1, <1>4 DEF ValidRows
  <2>2. Cardinality(ValidRows(c)') = Cardinality(ValidRows(c)) + 1
      BY <1>2, <2>1, FS_AddElement
  <2>3. w \in Passed(c) /\ Passed(c)' = Passed(c) \ {w}
      BY <1>0, <1>3, <1>4 DEF Passed
  <2>4. Cardinality(Passed(c)') = Cardinality(Passed(c)) - 1
      BY <1>2, <2>3, FS_RemoveElement
  <2> QED
      BY <1>2, <2>2, <2>4
<1>5. CASE request[w].contact # c
  <2>1. ValidRows(c)' = ValidRows(c)
      BY <1>0, <1>1, <1>5 DEF ValidRows
  <2>2. Passed(c)' = Passed(c)
      BY <1>3, <1>5 DEF Passed
  <2> QED
      BY <1>2, <2>1, <2>2
<1> QED
    BY <1>4, <1>5

(* Every other end of a request adds neither rows nor requests that passed.*)
LEMMA EndBound ==
    ASSUME TypeOK, TypeOK', BoundInv, NEW w \in Workers, Done(w),
           \A c \in Contacts : ValidRows(c)' \subseteq ValidRows(c)
    PROVE  BoundInv'
<1> SUFFICES ASSUME NEW c \in Contacts
             PROVE  Cardinality(ValidRows(c)') + Cardinality(Passed(c)')
                        <= Cardinality(Workers)
    BY DEF BoundInv
<1>1. /\ Cardinality(ValidRows(c)) + Cardinality(Passed(c)) <= Cardinality(Workers)
      /\ IsFiniteSet(Passed(c)) /\ IsFiniteSet(ValidRows(c))
      /\ Cardinality(ValidRows(c)) \in Nat /\ Cardinality(Passed(c)) \in Nat
      /\ Cardinality(Workers) \in Nat
    BY Finiteness DEF BoundInv
<1>2. Passed(c)' \subseteq Passed(c)
    BY EndsRequest DEF Passed
<1>3. /\ Cardinality(Passed(c)') <= Cardinality(Passed(c))
      /\ Cardinality(Passed(c)') \in Nat
    BY <1>1, <1>2, FS_Subset, FS_CardinalityType
<1>4. /\ Cardinality(ValidRows(c)') <= Cardinality(ValidRows(c))
      /\ Cardinality(ValidRows(c)') \in Nat
    BY <1>1, FS_Subset, FS_CardinalityType
<1> QED
    BY <1>1, <1>3, <1>4

LEMMA BoundNext ==
    TypeOK /\ TypeOK' /\ Named /\ BoundInv /\ [Next]_vars => BoundInv'
<1> SUFFICES ASSUME TypeOK, TypeOK', Named, BoundInv, [Next]_vars PROVE BoundInv'
    OBVIOUS
<1>a. ASSUME UNCHANGED <<confirmations, request>> PROVE BoundInv'
    BY <1>a DEF BoundInv, ValidRows, Passed
<1>b. ASSUME confirmations' = confirmations
      PROVE  \A c \in Contacts : ValidRows(c)' \subseteq ValidRows(c)
    BY <1>b DEF ValidRows
<1>1. CASE \E w \in Workers : Step(w)
  <2>1. PICK w \in Workers : Step(w)
      BY <1>1
  <2>2. CASE Read(w)
      BY <2>2, ReadBound
  <2>3. CASE CommitConfirm(w)
      BY <2>3, ConfirmBound
  <2>4. CASE CommitTransitions(w)
      BY <1>b, <2>4, EndBound DEF CommitTransitions
  <2>5. CASE CommitCancel(w)
    <3>1. \A c \in Contacts : ValidRows(c)' \subseteq ValidRows(c)
        BY <2>5, CancelRows DEF ValidRows, TypeOK
    <3> QED
        BY <2>5, <3>1, EndBound DEF CommitCancel
  <2>6. CASE CommitDelete(w)
      BY <1>b, <2>6, EndBound DEF CommitDelete
  <2>7. CASE Abort(w)
      BY <1>b, <2>7, EndBound DEF Abort, database
  <2> QED
      BY <2>1, <2>2, <2>3, <2>4, <2>5, <2>6, <2>7 DEF Step, Commit
<1>2. CASE Tick
    BY <1>2, <1>a DEF Tick
<1>3. CASE VerifyDeath
    BY <1>3, <1>a DEF VerifyDeath
<1>4. CASE UNCHANGED vars
    BY <1>4, <1>a DEF vars
<1> QED
    BY <1>1, <1>2, <1>3, <1>4 DEF Next, Step

LEMMA BoundInit == Init => BoundInv
<1> SUFFICES ASSUME Init, NEW c \in Contacts
             PROVE  Cardinality(ValidRows(c)) + Cardinality(Passed(c))
                        <= Cardinality(Workers)
    BY DEF BoundInv
<1>1. ValidRows(c) = {} /\ Passed(c) = {}
    BY DEF Init, ValidRows, Passed, Idle
<1>2. Cardinality(Workers) \in Nat
    BY RequestsAssumption, FS_CardinalityType
<1> QED
    BY <1>1, <1>2, FS_EmptySet

(* Without any lock, the valid confirmations of a contact are no more than *)
(* the requests the server serves at once.                                 *)
THEOREM DuplicatesAreBounded == Spec => []DuplicatesBounded
<1>1. TypeOK /\ BoundInv => DuplicatesBounded
  <2> SUFFICES ASSUME TypeOK, BoundInv, NEW c \in Contacts
               PROVE  Cardinality(ValidRows(c)) <= Cardinality(Workers)
      BY DEF DuplicatesBounded
  <2> QED
      BY Finiteness DEF BoundInv
<1> QED
    BY <1>1, WellTyped, BoundInit, BoundNext, PTL DEF Spec

-----------------------------------------------------------------------------
(* Until somebody cancels *)

FrozenRight(m) == m.policy_frozen <=> InPipeline(m.release_state)

(* What a request leaves in the message it loaded: none but a cancellation *)
(* takes a message out of the pipeline or thaws its policy.                *)
Freezes(r) ==
    /\ r.op # "cancel" /\ r.path # <<>> =>
          /\ Walk(r.loaded, r.path).policy_frozen
          /\ InPipeline(Walk(r.loaded, r.path).release_state)
    /\ r.op = "cancel" /\ r.phase = "ready" => r.path = <<"CANCELLED">>

(* However long ago a request loaded the message, what it loaded was right *)
(* and, if it was in the pipeline, the stored message still is: a column   *)
(* that the request does not write needs no writing.                       *)
Steady ==
    /\ FrozenRight(msg)
    /\ \A w \in Workers : request[w].phase # "idle" =>
          /\ FrozenRight(request[w].loaded)
          /\ InPipeline(request[w].loaded.release_state) => InPipeline(msg.release_state)
          /\ Freezes(request[w])

SteadyInv == ~ EverCancelled => Steady

(* Reading keeps what is said of a request.                                *)
LEMMA ReadSteady ==
    ASSUME TypeOK, Steady, NEW w \in Workers, Read(w)
    PROVE  /\ FrozenRight(request'[w].loaded)
           /\ InPipeline(request'[w].loaded.release_state)
                 => InPipeline(msg.release_state)
           /\ Freezes(request'[w])
<1> DEFINE Kept(r) == /\ FrozenRight(r.loaded)
                      /\ InPipeline(r.loaded.release_state)
                            => InPipeline(msg.release_state)
                      /\ Freezes(r)
<1>1. ASSUME NEW phase, NEW path, NEW votes, request[w].phase # "idle",
             Continue(w, phase, path, votes)
      PROVE  /\ request[w] \in Request
             /\ FrozenRight(request[w].loaded)
             /\ InPipeline(request[w].loaded.release_state)
                   => InPipeline(msg.release_state)
             /\ request'[w].op = request[w].op
             /\ request'[w].loaded = request[w].loaded
             /\ request'[w].path = path
             /\ request'[w].phase = phase
  <2>1. request[w] \in Request
      BY <1>1, InFlight
  <2>2. request'[w] =
          [request[w] EXCEPT !.phase = phase, !.path = path, !.votes = votes]
      BY <1>1 DEF Continue, TypeOK
  <2> QED
      BY <1>1, <2>1, <2>2 DEF Request, Steady
<1>2. ASSUME NEW phase, NEW votes, request[w].phase # "idle", phase # "ready",
             Continue(w, phase, <<>>, votes)
      PROVE  Kept(request'[w])
    BY <1>1, <1>2 DEF Freezes
<1>3. ASSUME NEW s \in ReleaseState, NEW q \in BOOLEAN, NEW path \in Path,
             path = OwnerPath \/ path = ConfirmPath(s, q),
             request[w].phase # "idle", request[w].op # "cancel",
             Continue(w, "ready", path, {})
      PROVE  Kept(request'[w])
  <2> DEFINE new == Walk(request[w].loaded, path)
  <2>1. path # <<>> => new.policy_frozen /\ InPipeline(new.release_state)
      BY <1>3, PathsFreeze DEF Walk, InPipeline
  <2> QED
      BY <1>1, <1>3, <2>1 DEF Freezes
<1>4. CASE \E op \in Operation, u \in Users, c \in Contacts \cup {NoContact} :
              Load(w, op, u, c)
  <2>1. PICK op \in Operation, u \in Users, c \in Contacts \cup {NoContact} :
           Load(w, op, u, c)
      BY <1>4
  <2>2. /\ request'[w].loaded = IF op = "delete_family" THEN NewMessage ELSE msg
        /\ request'[w].path = <<>>
        /\ request'[w].phase = "loaded"
      BY <2>1 DEF Load, TypeOK
  <2>3. FrozenRight(NewMessage) /\ ~ InPipeline(NewMessage.release_state)
      BY DEF NewMessage, FrozenRight, InPipeline
  <2> QED
      BY <2>2, <2>3 DEF Steady, Freezes
<1>5. CASE AdmitContact(w)
    BY <1>2, <1>5 DEF AdmitContact
<1>6. CASE CheckDuplicate(w)
    BY <1>2, <1>6 DEF CheckDuplicate, At
<1>7. CASE CountVotes(w)
  <2> DEFINE q == QuorumAdvances(policy, CountValid(confirmations, contacts))
             s == request[w].loaded.release_state
  <2>1. At(w, "confirm", "checked") /\ Continue(w, "ready", ConfirmPath(s, q), {})
      BY <1>7 DEF CountVotes
  <2>2. s \in ReleaseState /\ q \in BOOLEAN
      BY <2>1, InFlight DEF At, Request, Message, QuorumAdvances
  <2>3. ConfirmPath(s, q) \in Path
      BY <2>2, OperationPaths
  <2> QED
      BY <1>3, <2>1, <2>2, <2>3 DEF At
<1>8. CASE EvaluateRequest(w)
  <2>1. At(w, "owner_request", "loaded") /\ Continue(w, "ready", OwnerPath, {})
      BY <1>8 DEF EvaluateRequest
  <2>2. "ACTIVE" \in ReleaseState /\ OwnerPath \in Path
      BY OperationPaths DEF ReleaseState
  <2> QED
      BY <1>3, <2>1, <2>2 DEF At
<1>9. CASE EvaluateFinalize(w)
    BY <1>2, <1>9 DEF EvaluateFinalize, At
<1>10. CASE EvaluateRelease(w)
  <2> DEFINE m == request[w].loaded
             new == Walk(m, <<"RELEASED">>)
  <2>1. /\ At(w, "finalize", "checked")
        /\ Permitted(m.release_state, <<"RELEASED">>)
        /\ Continue(w, "ready", <<"RELEASED">>, {})
      BY <1>10 DEF EvaluateRelease
  <2>2. FrozenRight(m) /\ m.release_state \in ReleaseState
      BY <1>1, <2>1 DEF At, Request, Message
  <2>3. m.release_state = "RELEASE_PENDING"
    <3>1. "RELEASED" \in RELEASE_TRANSITIONS[m.release_state]
        BY <2>1 DEF Permitted, Before
    <3> QED
        BY <2>2, <3>1 DEF RELEASE_TRANSITIONS, ReleaseState
  <2>4. new.policy_frozen /\ InPipeline(new.release_state)
      BY <2>2, <2>3 DEF Walk, Visits, FrozenRight, InPipeline
  <2> QED
      BY <1>1, <2>1, <2>4 DEF At, Freezes
<1>11. CASE LoadVotes(w)
    BY <1>1, <1>11 DEF LoadVotes, At, Freezes
<1>12. CASE LoadChildren(w)
    BY <1>1, <1>12 DEF LoadChildren, At, Freezes
<1> QED
    BY <1>4, <1>5, <1>6, <1>7, <1>8, <1>9, <1>10, <1>11, <1>12 DEF Read

(* A commit that is no cancellation leaves the message right, and in the   *)
(* pipeline if it was.                                                     *)
LEMMA WriteSteady ==
    ASSUME TypeOK, Steady, NEW w \in Workers, request[w].phase # "idle",
           request[w].op # "cancel", WriteMessage(request[w])
    PROVE  /\ FrozenRight(msg')
           /\ InPipeline(msg.release_state) => InPipeline(msg'.release_state)
<1> DEFINE m == request[w].loaded
           new == Walk(m, request[w].path)
<1>1. m \in Message /\ new \in Message /\ msg \in Message
    BY InFlight, WalkType DEF Request, TypeOK
<1>2. /\ msg'.release_state = IF new.release_state # m.release_state
                              THEN new.release_state ELSE msg.release_state
      /\ msg'.policy_frozen = IF new.policy_frozen # m.policy_frozen
                              THEN new.policy_frozen ELSE msg.policy_frozen
    BY <1>1 DEF WriteMessage, Flush, Message
<1>3. /\ FrozenRight(msg) /\ FrozenRight(m)
      /\ InPipeline(m.release_state) => InPipeline(msg.release_state)
      /\ request[w].path # <<>> => new.policy_frozen /\ InPipeline(new.release_state)
    BY DEF Steady, Freezes
<1>4. /\ m.policy_frozen \in BOOLEAN /\ new.policy_frozen \in BOOLEAN
      /\ msg.policy_frozen \in BOOLEAN
    BY <1>1 DEF Message
<1>5. CASE request[w].path = <<>>
  <2>1. new = m
      BY <1>5 DEF Walk
  <2>2. /\ msg'.release_state = msg.release_state
        /\ msg'.policy_frozen = msg.policy_frozen
      BY <1>2, <2>1
  <2> QED
      BY <1>3, <2>2 DEF FrozenRight
<1>6. CASE request[w].path # <<>>
  <2>1. InPipeline(msg'.release_state)
      BY <1>2, <1>3, <1>6
  <2>2. msg'.policy_frozen
      BY <1>2, <1>3, <1>4, <1>6 DEF FrozenRight
  <2> QED
      BY <2>1, <2>2 DEF FrozenRight
<1> QED
    BY <1>5, <1>6

(* The history only grows, and a cancellation leaves a row in it.          *)
LEMMA WriteCancels ==
    ASSUME TypeOK, NEW r \in Request, WriteMessage(r)
    PROVE  /\ EverCancelled => EverCancelled'
           /\ r.path = <<"CANCELLED">> => EverCancelled'
<1> DEFINE rows == Record(r.loaded.release_state, r.path)
<1>1. /\ r.path \in Path /\ r.loaded.release_state \in ReleaseState
      /\ history \in Seq(Transition)
    BY DEF Request, Message, TypeOK
<1>2. rows \in Seq(Transition) /\ Len(rows) = Len(r.path)
    BY <1>1, RecordType DEF Transition
<1>3. r.path = <<"CANCELLED">> => Len(rows) = 1 /\ rows[1].to = "CANCELLED"
    BY <1>2 DEF Record
<1> HIDE DEF rows
<1>4. /\ history \o rows \in Seq(Transition)
      /\ Len(history \o rows) = Len(history) + Len(rows)
      /\ \A i \in 1..(Len(history) + Len(rows)) : (history \o rows)[i] =
            IF i <= Len(history) THEN history[i] ELSE rows[i - Len(history)]
    BY <1>1, <1>2, ConcatProperties
<1>5. /\ history' = history \o rows
      /\ DOMAIN history' = 1..(Len(history) + Len(rows))
      /\ DOMAIN history = 1..Len(history)
      /\ Len(history) \in Nat /\ Len(rows) \in Nat
  <2>1. history' = history \o rows
      BY DEF WriteMessage, rows
  <2> QED
      BY <1>1, <1>2, <1>4, <2>1
<1>6. EverCancelled => EverCancelled'
  <2> SUFFICES ASSUME NEW i \in DOMAIN history, history[i].to = "CANCELLED"
               PROVE  i \in DOMAIN history' /\ history'[i] = history[i]
      BY DEF EverCancelled
  <2> QED
      BY <1>4, <1>5
<1>7. ASSUME r.path = <<"CANCELLED">>
      PROVE  EverCancelled'
  <2> DEFINE last == Len(history) + 1
  <2>0. Len(rows) = 1 /\ rows[1].to = "CANCELLED"
      BY <1>3, <1>7
  <2>1. last \in 1..(Len(history) + Len(rows)) /\ ~ last <= Len(history)
      BY <1>5, <2>0
  <2>2. (history \o rows)[last] = rows[last - Len(history)]
      BY <1>4, <1>5, <2>1
  <2>3. last - Len(history) = 1
      BY <1>5
  <2>4. history'[last] = rows[1] /\ last \in DOMAIN history'
      BY <1>5, <2>1, <2>2, <2>3
  <2> HIDE DEF last
  <2> QED
      BY <2>0, <2>4 DEF EverCancelled
<1> QED
    BY <1>6, <1>7

LEMMA SteadyNext ==
    TypeOK /\ Named /\ SteadyInv /\ [Next]_vars => SteadyInv'
<1> SUFFICES ASSUME TypeOK, Named, SteadyInv, [Next]_vars, ~ EverCancelled'
             PROVE  Steady'
    BY DEF SteadyInv
<1>a. ASSUME request' = request, msg' = msg, history' = history
      PROVE  Steady'
    BY <1>a DEF SteadyInv, Steady, EverCancelled
<1>1. CASE \E w \in Workers : Step(w)
  <2>1. PICK w \in Workers : Step(w)
      BY <1>1
  <2>2. CASE Read(w)
    <3>1. \A v \in Workers \ {w} : request'[v] = request[v]
        BY <2>2, ReadKeeps
    <3>2. msg' = msg /\ Steady
        BY <2>2, ReadKeeps DEF database, SteadyInv, EverCancelled
    <3> QED
        BY <2>2, <3>1, <3>2, ReadSteady DEF Steady
  <2>3. ASSUME Done(w), Steady, FrozenRight(msg'),
               InPipeline(msg.release_state) => InPipeline(msg'.release_state)
        PROVE  Steady'
      BY <2>3, EndsRequest DEF Steady
  <2>4. ASSUME WriteMessage(request[w]), Done(w), request[w].phase = "ready"
        PROVE  Steady'
    <3>1. request[w] \in Request
        BY <2>4, InFlight
    <3>2. Steady /\ request[w].path # <<"CANCELLED">>
        BY <2>4, <3>1, WriteCancels DEF SteadyInv
    <3>3. request[w].op # "cancel"
        BY <2>4, <3>2 DEF Steady, Freezes
    <3> QED
        BY <2>3, <2>4, <3>2, <3>3, WriteSteady
  <2>5. CASE CommitConfirm(w)
      BY <2>4, <2>5 DEF CommitConfirm, At
  <2>6. CASE CommitTransitions(w)
      BY <2>4, <2>6 DEF CommitTransitions, At
  <2>7. CASE CommitCancel(w)
      BY <2>4, <2>7 DEF CommitCancel, At
  <2>8. CASE CommitDelete(w) \/ Abort(w)
    <3>1. Done(w) /\ msg' = msg /\ history' = history
        BY <2>8 DEF CommitDelete, Abort, database
    <3>2. Steady
        BY <3>1 DEF SteadyInv, EverCancelled
    <3> QED
        BY <2>3, <3>1, <3>2 DEF Steady
  <2> QED
      BY <2>1, <2>2, <2>5, <2>6, <2>7, <2>8 DEF Step, Commit
<1>2. CASE Tick
    BY <1>2, <1>a DEF Tick
<1>3. CASE VerifyDeath
    BY <1>3, <1>a DEF VerifyDeath
<1>4. CASE UNCHANGED vars
    BY <1>4, <1>a DEF vars
<1> QED
    BY <1>1, <1>2, <1>3, <1>4 DEF Next, Step

LEMMA SteadyInit == Init => SteadyInv
  BY DEF Init, SteadyInv, Steady, FrozenRight, InPipeline, NewMessage, Idle

(* Until somebody cancels, no interleaving of requests thaws the policy of *)
(* a message in the pipeline or leaves it frozen outside.                  *)
THEOREM FrozenBeforeCancellation == Spec => []FrozenUntilCancel
<1>1. SteadyInv => FrozenUntilCancel
    BY DEF SteadyInv, Steady, FrozenRight, FrozenUntilCancel
<1> QED
    BY <1>1, WellTyped, SteadyInit, SteadyNext, PTL DEF Spec

-----------------------------------------------------------------------------
(* One request at a time *)

OneAtATime == \A v, w \in Workers : request[v] # Idle /\ request[w] # Idle => v = w

(* What a request has read is still so, for nobody else has written since. *)
Current(r) ==
    /\ r.op # "delete_family" => r.loaded = msg
    /\ r.op \in {"confirm", "delete_family"} /\ r.phase # "loaded"
          => r.contact \in contacts
    /\ r.op = "confirm" /\ r.phase # "loaded" => MayVouch(r.contact, r.user)
    /\ r.op = "confirm" /\ r.phase \in {"checked", "ready"}
          => /\ ~ HasValid(confirmations, r.contact)
             /\ msg.release_state \notin {"RELEASED", "CANCELLED"}
    /\ r.op = "confirm" /\ r.phase = "ready"
          => r.path = ConfirmPath(msg.release_state,
                  QuorumAdvances(policy, CountValid(confirmations, contacts)))
    /\ r.op = "owner_request" /\ r.phase = "ready"
          => /\ Satisfied
             /\ msg.release_state = "ACTIVE"
             /\ r.path = OwnerPath
    /\ r.op \in {"finalize", "cancel"} => r.user \in Admins \cup {Owner}
    /\ r.op = "finalize" /\ r.phase \in {"checked", "ready"}
          => Satisfied /\ msg.release_state = "RELEASE_PENDING"
    /\ r.op = "finalize" /\ r.phase = "ready" => r.path = <<"RELEASED">>
    /\ r.op = "cancel" /\ r.phase = "ready"
          => /\ msg.release_state # "RELEASED"
             /\ r.path = <<"CANCELLED">>
             /\ r.votes = {i \in DOMAIN confirmations : confirmations[i].is_valid}
    /\ r.op = "delete_family" /\ r.phase = "ready"
          => \A i \in DOMAIN confirmations : confirmations[i].contact # r.contact
    /\ r.phase = "ready" => Permitted(msg.release_state, r.path)

UpToDate == \A w \in Workers : request[w].phase # "idle" => Current(request[w])

(* The operators of the engine, as the instance of ReleaseWorkflow has     *)
(* them, are those of this module.                                         *)
LEMMA SameEngine ==
    /\ \A s, q : Workflow!ConfirmPath(s, q) = ConfirmPath(s, q)
    /\ Workflow!OwnerPath = OwnerPath
    /\ \A p, n : Workflow!QuorumAdvances(p, n) = QuorumAdvances(p, n)
    /\ \A rows, people : Workflow!CountValid(rows, people) = CountValid(rows, people)
    /\ \A p, t, d, n : Workflow!PolicySatisfied(p, t, d, n) <=> PolicySatisfied(p, t, d, n)
    /\ \A c, u : Workflow!MayVouch(c, u) <=> MayVouch(c, u)
    /\ \A rows, c : Workflow!HasValid(rows, c) <=> HasValid(rows, c)
    /\ \A m, path : Workflow!Walk(m, path) = Walk(m, path)
    /\ \A s, path : Workflow!Record(s, path) = Record(s, path)
    /\ \A s, path : Workflow!Permitted(s, path) <=> Permitted(s, path)
    /\ \A rows : Workflow!Revoke(rows) = Revoke(rows)
    /\ \A c, u : Workflow!NewConfirmation(c, u) = NewConfirmation(c, u)
    /\ Workflow!NewMessage = NewMessage
<1>1. \A s, q : Workflow!ConfirmPath(s, q) = ConfirmPath(s, q)
    BY SMT DEF Workflow!ConfirmPath, ConfirmPath, Workflow!OwnerPath, OwnerPath
<1>2. Workflow!OwnerPath = OwnerPath
    BY DEF Workflow!OwnerPath, OwnerPath
<1>3. \A p, n : Workflow!QuorumAdvances(p, n) = QuorumAdvances(p, n)
    BY DEF Workflow!QuorumAdvances, QuorumAdvances
<1>4. \A rows, people : Workflow!CountValid(rows, people) = CountValid(rows, people)
    BY Zenon DEF Workflow!CountValid, CountValid, Workflow!Counted, Counted,
           Workflow!SelfConfirmation, SelfConfirmation,
           Workflow!Cardinality, Cardinality
<1>5. \A p, t, d, n : Workflow!PolicySatisfied(p, t, d, n) <=> PolicySatisfied(p, t, d, n)
    BY DEF Workflow!PolicySatisfied, PolicySatisfied, Workflow!Stored, Stored
<1>6. \A c, u : Workflow!MayVouch(c, u) <=> MayVouch(c, u)
    BY DEF Workflow!MayVouch, MayVouch
<1>7. \A rows, c : Workflow!HasValid(rows, c) <=> HasValid(rows, c)
    BY DEF Workflow!HasValid, HasValid
<1>8. \A m, path : Workflow!Walk(m, path) = Walk(m, path)
    BY Zenon DEF Workflow!Walk, Walk, Workflow!Visits, Visits, Workflow!Freezing, Freezing
<1>9. \A s, path : Workflow!Record(s, path) = Record(s, path)
    BY Zenon DEF Workflow!Record, Record, Workflow!Before, Before
<1>10. \A s, path : Workflow!Permitted(s, path) <=> Permitted(s, path)
    BY Zenon DEF Workflow!Permitted, Permitted, Workflow!RELEASE_TRANSITIONS,
           RELEASE_TRANSITIONS, Workflow!ReleaseState, ReleaseState, Workflow!Before, Before
<1>11. \A rows : Workflow!Revoke(rows) = Revoke(rows)
    BY Zenon DEF Workflow!Revoke, Revoke
<1>12. \A c, u : Workflow!NewConfirmation(c, u) = NewConfirmation(c, u)
    BY DEF Workflow!NewConfirmation, NewConfirmation
<1>13. Workflow!NewMessage = NewMessage
    BY DEF Workflow!NewMessage, NewMessage
<1> QED
    BY <1>1, <1>2, <1>3, <1>4, <1>5, <1>6, <1>7, <1>8, <1>9, <1>10, <1>11, <1>12, <1>13
(* Reading leaves a request up to date, if it was.                         *)
LEMMA ReadUpToDate ==
    ASSUME TypeOK, UpToDate, NEW w \in Workers, Read(w)
    PROVE  Current(request'[w])
<1>1. ASSUME NEW phase, NEW path, NEW votes, request[w].phase # "idle",
             Continue(w, phase, path, votes)
      PROVE  /\ Current(request[w])
             /\ request[w] \in Request
             /\ request'[w].op = request[w].op
             /\ request'[w].user = request[w].user
             /\ request'[w].contact = request[w].contact
             /\ request'[w].loaded = request[w].loaded
             /\ request'[w].phase = phase
             /\ request'[w].path = path
             /\ request'[w].votes = votes
  <2>1. request[w] \in Request
      BY <1>1, InFlight
  <2>2. request'[w] =
          [request[w] EXCEPT !.phase = phase, !.path = path, !.votes = votes]
      BY <1>1 DEF Continue, TypeOK
  <2> QED
      BY <1>1, <2>1, <2>2 DEF Request, UpToDate
<1>2. CASE \E op \in Operation, u \in Users, c \in Contacts \cup {NoContact} :
              Load(w, op, u, c)
  <2>1. PICK op \in Operation, u \in Users, c \in Contacts \cup {NoContact} :
           Load(w, op, u, c)
      BY <1>2
  <2>2. /\ request'[w].op = op
        /\ request'[w].user = u
        /\ request'[w].phase = "loaded"
        /\ op # "delete_family" => request'[w].loaded = msg
      BY <2>1 DEF Load, TypeOK
  <2>3. op \in {"finalize", "cancel"} => u \in Admins \cup {Owner}
      BY <2>1 DEF Load, Authorized
  <2> QED
      BY <2>2, <2>3 DEF Current
<1>3. CASE AdmitContact(w)
    BY <1>1, <1>3 DEF AdmitContact, Current
<1>4. CASE CheckDuplicate(w)
    BY <1>1, <1>4 DEF CheckDuplicate, At, Current
<1>5. CASE CountVotes(w)
    BY <1>1, <1>5 DEF CountVotes, At, Current
<1>6. CASE EvaluateRequest(w)
    BY <1>1, <1>6 DEF EvaluateRequest, At, Current
<1>7. CASE EvaluateFinalize(w)
    BY <1>1, <1>7 DEF EvaluateFinalize, At, Current
<1>8. CASE EvaluateRelease(w)
    BY <1>1, <1>8 DEF EvaluateRelease, At, Current
<1>9. CASE LoadVotes(w)
    BY <1>1, <1>9 DEF LoadVotes, At, Current
<1>10. CASE LoadChildren(w)
  <2>1. Permitted(msg.release_state, <<>>)
      BY DEF Permitted
  <2> QED
      BY <1>1, <1>10, <2>1 DEF LoadChildren, At, Current
<1> QED
    BY <1>2, <1>3, <1>4, <1>5, <1>6, <1>7, <1>8, <1>9, <1>10 DEF Read

(* Neither the clock nor a verified death takes back what is satisfied.    *)
LEMMA SatisfiedStays ==
    ASSUME TypeOK, Tick \/ VerifyDeath, Satisfied
    PROVE  Satisfied'
<1>1. /\ UNCHANGED <<policy, confirmations, contacts>>
      /\ death => death'
      /\ now \in Nat /\ now' \in Nat /\ now <= now'
    BY RequestsAssumption DEF Tick, VerifyDeath, TypeOK
<1>2. policy.requested_at # NoDate => Stored(policy) \in Int
    BY PolicyType DEF TypeOK, Stored
<1> QED
    BY <1>1, <1>2 DEF Satisfied, PolicySatisfied, Stored

LEMMA UpToDateNext ==
    TypeOK /\ Named /\ OneAtATime /\ OneAtATime' /\ UpToDate /\ [Next]_vars
        => UpToDate'
<1> SUFFICES ASSUME TypeOK, Named, OneAtATime, OneAtATime', UpToDate, [Next]_vars
             PROVE  UpToDate'
    OBVIOUS
<1>1. CASE \E w \in Workers : Step(w)
  <2>1. PICK w \in Workers : Step(w)
      BY <1>1
  <2>2. CASE Read(w)
    <3>1. \A v \in Workers \ {w} : request'[v].phase = "idle"
        BY <2>2, ReadKeeps DEF OneAtATime, Idle
    <3>2. Current(request'[w])
        BY <2>2, ReadUpToDate
    <3>3. UNCHANGED <<policy, msg, confirmations, history, contacts, now, death>>
        BY <2>2, ReadKeeps DEF database
    <3>4. Current(request[w])'
        BY <3>2, <3>3 DEF Current, Satisfied
    <3> QED
        BY <3>1, <3>4 DEF UpToDate
  <2>3. CASE Commit(w) \/ Abort(w)
    <3>1. Done(w)
        BY <2>3, CommitType DEF Abort
    <3>2. request[w] # Idle
        BY <2>3 DEF Commit, CommitConfirm, CommitTransitions, CommitCancel,
                    CommitDelete, Abort, At, Idle
    <3>3. \A v \in Workers : request'[v].phase = "idle"
        BY <3>1, <3>2, EndsRequest DEF OneAtATime, Idle
    <3> QED
        BY <3>3 DEF UpToDate
  <2> QED
      BY <2>1, <2>2, <2>3 DEF Step
<1>2. CASE Tick \/ VerifyDeath
  <2>1. /\ UNCHANGED <<policy, msg, confirmations, contacts, request>>
        /\ Satisfied => Satisfied'
      BY <1>2, SatisfiedStays DEF Tick, VerifyDeath
  <2>2. ASSUME NEW w \in Workers, Current(request[w]) PROVE Current(request[w])'
      BY <2>1, <2>2 DEF Current
  <2> QED
      BY <2>1, <2>2 DEF UpToDate
<1>3. CASE UNCHANGED vars
    BY <1>3 DEF vars, UpToDate, Current, Satisfied
<1> QED
    BY <1>1, <1>2, <1>3 DEF Next, Step

LEMMA UpToDateInit == Init => UpToDate
  BY DEF Init, UpToDate, Idle

(* A message loaded since the last write is written as the calls leave it. *)
LEMMA FlushOwn ==
    ASSUME NEW m \in Message, NEW new \in Message
    PROVE  Flush(m, m, new) = new
  BY DEF Flush, Message

(* What an up to date request writes is what Follow does.                  *)
LEMMA WriteFollows ==
    ASSUME TypeOK, UpToDate, NEW w \in Workers, request[w].phase = "ready",
           request[w].op # "delete_family", WriteMessage(request[w])
    PROVE  Workflow!Follow(request[w].path)
<1> DEFINE r == request[w]
<1>1. r \in Request /\ r.loaded = msg
    BY InFlight DEF UpToDate, Current
<1>2. msg \in Message /\ Walk(msg, r.path) \in Message
    BY <1>1, WalkType DEF Request, TypeOK
<1>3. msg' = Walk(msg, r.path)
    BY <1>1, <1>2, FlushOwn DEF WriteMessage
<1>4. history' = history \o Record(msg.release_state, r.path)
    BY <1>1 DEF WriteMessage
<1> QED
    BY <1>3, <1>4, SameEngine DEF Workflow!Follow

(* Each commit is the call it stands for.                                  *)
LEMMA CommitServes ==
    ASSUME TypeOK, Named, UpToDate, NEW w \in Workers, Commit(w)
    PROVE  Workflow!Next
<1> DEFINE r == request[w]
<1>0. r \in Request /\ Current(r) /\ r.phase = "ready"
    BY InFlight DEF Commit, CommitConfirm, CommitTransitions, CommitCancel,
                    CommitDelete, At, UpToDate
<1>1. CASE CommitConfirm(w)
  <2>1. /\ At(w, "confirm", "ready")
        /\ confirmations' = Append(confirmations, NewConfirmation(r.contact, r.user))
        /\ UNCHANGED <<policy, contacts, now, death>>
        /\ WriteMessage(r)
      BY <1>1 DEF CommitConfirm
  <2>2. Workflow!Follow(r.path)
      BY <2>1, WriteFollows DEF At
  <2>3. /\ r.contact \in contacts
        /\ MayVouch(r.contact, r.user)
        /\ ~ HasValid(confirmations, r.contact)
        /\ msg.release_state \notin {"RELEASED", "CANCELLED"}
        /\ r.path = ConfirmPath(msg.release_state,
                QuorumAdvances(policy, CountValid(confirmations, contacts)))
        /\ Permitted(msg.release_state, r.path)
      BY <1>0, <2>1 DEF At, Current
  <2>4. Workflow!TrustedConfirm(r.contact, r.user)
    <3>1. Workflow!ConfirmPath(msg.release_state,
                Workflow!QuorumAdvances(policy,
                    Workflow!CountValid(confirmations, contacts))) = r.path
        BY <2>3, SameEngine
    <3>2. /\ Workflow!MayVouch(r.contact, r.user)
          /\ ~ Workflow!HasValid(confirmations, r.contact)
          /\ Workflow!Permitted(msg.release_state, r.path)
          /\ confirmations' = Append(confirmations,
                                     Workflow!NewConfirmation(r.contact, r.user))
        BY <2>1, <2>3, SameEngine
    <3> QED
        BY <2>1, <2>2, <2>3, <3>1, <3>2 DEF Workflow!TrustedConfirm
  <2>5. r.contact \in Contacts /\ r.user \in Users
      BY <1>0, <2>3 DEF TypeOK, Request
  <2> QED
      BY <2>4, <2>5 DEF Workflow!Next
<1>2. CASE CommitTransitions(w)
  <2>1. /\ At(w, "owner_request", "ready") \/ At(w, "finalize", "ready")
        /\ UNCHANGED <<policy, confirmations, contacts, now, death>>
        /\ WriteMessage(r)
      BY <1>2 DEF CommitTransitions
  <2>2. Workflow!Follow(r.path)
      BY <2>1, WriteFollows DEF At
  <2>3. Satisfied => Workflow!Satisfied
      BY SameEngine DEF Satisfied, Workflow!Satisfied, Workflow!Votes
  <2>4. CASE At(w, "owner_request", "ready")
    <3>1. /\ Satisfied
          /\ msg.release_state = "ACTIVE"
          /\ r.path = OwnerPath
          /\ Permitted(msg.release_state, OwnerPath)
        BY <1>0, <2>4 DEF At, Current
    <3>2. Workflow!OwnerRequest
        BY <2>1, <2>2, <2>3, <3>1, SameEngine DEF Workflow!OwnerRequest
    <3> QED
        BY <3>2 DEF Workflow!Next
  <2>5. CASE At(w, "finalize", "ready")
    <3>1. /\ Satisfied
          /\ r.user \in Admins \cup {Owner}
          /\ msg.release_state = "RELEASE_PENDING"
          /\ r.path = <<"RELEASED">>
          /\ Permitted(msg.release_state, <<"RELEASED">>)
        BY <1>0, <2>5 DEF At, Current
    <3>2. Workflow!Finalize(r.user) /\ r.user \in Users
        BY <1>0, <2>1, <2>2, <2>3, <3>1, SameEngine DEF Workflow!Finalize, Request
    <3> QED
        BY <3>2 DEF Workflow!Next
  <2> QED
      BY <2>1, <2>4, <2>5
<1>3. CASE CommitCancel(w)
  <2>1. /\ At(w, "cancel", "ready")
        /\ confirmations' = [i \in DOMAIN confirmations |->
              IF i \in r.votes
              THEN [confirmations[i] EXCEPT !.is_valid = FALSE]
              ELSE confirmations[i]]
        /\ UNCHANGED <<policy, contacts, now, death>>
        /\ WriteMessage(r)
      BY <1>3 DEF CommitCancel
  <2>2. Workflow!Follow(r.path)
      BY <2>1, WriteFollows DEF At
  <2>3. /\ r.user \in Admins \cup {Owner}
        /\ msg.release_state # "RELEASED"
        /\ r.path = <<"CANCELLED">>
        /\ Permitted(msg.release_state, <<"CANCELLED">>)
        /\ r.votes = {i \in DOMAIN confirmations : confirmations[i].is_valid}
      BY <1>0, <2>1 DEF At, Current
  <2>4. confirmations' = Revoke(confirmations)
    <3>1. ASSUME NEW i \in DOMAIN confirmations, i \notin r.votes
          PROVE  confirmations[i] = [confirmations[i] EXCEPT !.is_valid = FALSE]
      <4>1. confirmations[i] \in Confirmation /\ ~ confirmations[i].is_valid
          BY <2>3, <3>1 DEF TypeOK
      <4> QED
          BY <4>1 DEF Confirmation
    <3> QED
        BY <2>1, <3>1 DEF Revoke
  <2>5. Workflow!Cancel(r.user) /\ r.user \in Users
      BY <1>0, <2>1, <2>2, <2>3, <2>4, SameEngine DEF Workflow!Cancel, Request
  <2> QED
      BY <2>5 DEF Workflow!Next
<1>4. CASE CommitDelete(w)
  <2>1. /\ At(w, "delete_family", "ready")
        /\ contacts' = contacts \ {r.contact}
        /\ UNCHANGED <<policy, msg, confirmations, history, now, death>>
      BY <1>4 DEF CommitDelete
  <2>2. /\ r.contact \in contacts
        /\ \A i \in DOMAIN confirmations : confirmations[i].contact # r.contact
      BY <1>0, <2>1 DEF At, Current
  <2>3. Workflow!DeleteFamily(r.contact) /\ r.contact \in Contacts
      BY <2>1, <2>2 DEF Workflow!DeleteFamily, TypeOK
  <2> QED
      BY <2>3 DEF Workflow!Next
<1> QED
    BY <1>1, <1>2, <1>3, <1>4 DEF Commit

LEMMA StepServes ==
    TypeOK /\ Named /\ UpToDate /\ [Next]_vars => [Workflow!Next]_(Workflow!vars)
<1> SUFFICES ASSUME TypeOK, Named, UpToDate, [Next]_vars
             PROVE  [Workflow!Next]_(Workflow!vars)
    OBVIOUS
<1>a. ASSUME UNCHANGED database PROVE UNCHANGED Workflow!vars
    BY <1>a DEF database, Workflow!vars
<1>1. CASE \E w \in Workers : Step(w)
  <2>1. PICK w \in Workers : Step(w)
      BY <1>1
  <2>2. CASE Read(w)
      BY <1>a, <2>2, ReadKeeps
  <2>3. CASE Commit(w)
      BY <2>3, CommitServes
  <2>4. CASE Abort(w)
      BY <1>a, <2>4 DEF Abort
  <2> QED
      BY <2>1, <2>2, <2>3, <2>4 DEF Step
<1>2. CASE Tick
    BY <1>2 DEF Tick, Workflow!Tick, Workflow!Next
<1>3. CASE VerifyDeath
    BY <1>3 DEF VerifyDeath, Workflow!VerifyDeath, Workflow!Next
<1>4. CASE UNCHANGED vars
    BY <1>a, <1>4 DEF vars, database
<1> QED
    BY <1>1, <1>2, <1>3, <1>4 DEF Next, Step

(* However many workers there are, as long as no two requests overlap, the *)
(* steps of each amount to one call of the service layer or to none.       *)
THEOREM OneAtATimeServesWorkflow == Spec /\ []OneAtATime => ServesWorkflow
<1>1. Init => Workflow!Init
    BY SameEngine DEF Init, Workflow!Init
<1> QED
    BY <1>1, WellTyped, UpToDateInit, UpToDateNext, StepServes, PTL
    DEF Spec, ServesWorkflow, Workflow!Spec

(* A server with a single worker does what the service layer does.         *)
THEOREM OneWorkerServesWorkflow ==
    ASSUME \A v, w \in Workers : v = w
    PROVE  Spec => ServesWorkflow
<1>1. OneAtATime
    BY DEF OneAtATime
<1> QED
    BY <1>1, OneAtATimeServesWorkflow, PTL

ReleasedRight == msg.is_released => msg.release_state = "RELEASED"

(* No request that is up to date has a path that leads out of RELEASED or, *)
(* having released, ends elsewhere.                                        *)
LEMMA FollowsRight ==
    ASSUME TypeOK, UpToDate, ReleasedRight, NEW w \in Workers,
           request[w].phase = "ready", request[w].op # "delete_family",
           WriteMessage(request[w])
    PROVE  /\ msg.is_released => msg' = msg
           /\ ReleasedRight'
<1> DEFINE r == request[w]
           path == r.path
           s == msg.release_state
<1>1. /\ r \in Request /\ Current(r) /\ path \in Path
      /\ msg \in Message /\ s \in ReleaseState
    BY InFlight DEF UpToDate, Request, TypeOK, Message
<1>2. msg' = Walk(msg, path)
  <2>1. r.loaded = msg /\ Walk(msg, path) \in Message
      BY <1>1, WalkType DEF Current
  <2> QED
      BY <1>1, <2>1, FlushOwn DEF WriteMessage
<1>3. \/ path = OwnerPath /\ s = "ACTIVE"
      \/ /\ s # "RELEASED"
         /\ \E q \in BOOLEAN : path = ConfirmPath(s, q)
      \/ path = <<"RELEASED">> /\ s = "RELEASE_PENDING"
      \/ path = <<"CANCELLED">> /\ s # "RELEASED"
  <2>1. QuorumAdvances(policy, CountValid(confirmations, contacts)) \in BOOLEAN
      BY DEF QuorumAdvances
  <2> QED
      BY <1>1, <2>1 DEF Current, Request, Operation
<1>4. s # "RELEASED"
    BY <1>3
<1>5. ~ msg.is_released
    BY <1>4 DEF ReleasedRight
<1>6. Walk(msg, path).is_released => path = <<"RELEASED">>
  <2>1. ~ Visits(<<"CANCELLED">>, {"RELEASED"})
      BY DEF Visits
  <2> QED
      BY <1>1, <1>3, <1>5, <2>1, WalkReleases, OperationPaths
<1>7. Walk(msg, <<"RELEASED">>).release_state = "RELEASED"
    BY DEF Walk
<1> QED
    BY <1>2, <1>5, <1>6, <1>7 DEF ReleasedRight

LEMMA ReleasedStep ==
    TypeOK /\ Named /\ UpToDate /\ ReleasedRight /\ [Next]_vars
        => /\ ReleasedRight'
           /\ msg.is_released => msg' = msg
<1> SUFFICES ASSUME TypeOK, Named, UpToDate, ReleasedRight, [Next]_vars
             PROVE  /\ ReleasedRight'
                    /\ msg.is_released => msg' = msg
    OBVIOUS
<1>a. ASSUME msg' = msg
      PROVE  /\ ReleasedRight'
             /\ msg.is_released => msg' = msg
    BY <1>a DEF ReleasedRight
<1>1. CASE \E w \in Workers : Step(w)
  <2>1. PICK w \in Workers : Step(w)
      BY <1>1
  <2>2. CASE CommitConfirm(w) \/ CommitTransitions(w) \/ CommitCancel(w)
    <3>1. /\ request[w].phase = "ready" /\ request[w].op # "delete_family"
          /\ WriteMessage(request[w])
        BY <2>2 DEF CommitConfirm, CommitTransitions, CommitCancel, At
    <3> QED
        BY <3>1, FollowsRight
  <2>3. CASE Read(w) \/ CommitDelete(w) \/ Abort(w)
    <3>1. msg' = msg
        BY <2>3, ReadKeeps DEF CommitDelete, Abort, database
    <3> QED
        BY <1>a, <3>1
  <2> QED
      BY <2>1, <2>2, <2>3 DEF Step, Commit
<1>2. CASE Tick \/ VerifyDeath \/ UNCHANGED vars
    BY <1>2, <1>a DEF Tick, VerifyDeath, vars
<1> QED
    BY <1>1, <1>2 DEF Next, Step

(* What interleaved requests do not keep, requests served one at a time    *)
(* do: nothing changes a released message.                                 *)
THEOREM OneAtATimeReleasesForGood == Spec /\ []OneAtATime => ReleasedForGood
<1>1. Init => ReleasedRight
    BY DEF Init, NewMessage, ReleasedRight
<1>2. TypeOK /\ Named /\ UpToDate /\ ReleasedRight /\ [Next]_vars
          => [Workflow!Unforced' /\ msg.is_released
                => msg.release_state = "RELEASED" /\ UNCHANGED msg]_(Workflow!vars)
    BY ReleasedStep DEF ReleasedRight
<1> QED
    BY <1>1, <1>2, WellTyped, UpToDateInit, UpToDateNext, ReleasedStep, PTL
    DEF Spec, ReleasedForGood, Workflow!ReleasedForGood

=============================================================================
