------------------------ MODULE ReleaseWorkflowProofs ------------------------
(***************************************************************************)
(* Theorems about ReleaseWorkflow, for any people, contacts and policies,  *)
(* with or without autoflush, and for any direct calls of transition().    *)
(***************************************************************************)
EXTENDS ReleaseWorkflow, ReleaseEngineLemmas, SequenceTheorems

-----------------------------------------------------------------------------
(* Type correctness *)

(* Whatever path an operation follows, the message and its history keep    *)
(* their types.                                                            *)
LEMMA FollowType ==
    ASSUME TypeOK, NEW path \in Path, Follow(path)
    PROVE  msg' \in Message /\ history' \in Seq(Transition)
<1>1. msg \in Message /\ msg.release_state \in ReleaseState /\ history \in Seq(Transition)
    BY DEF TypeOK, Message
<1>2. msg' \in Message
    BY <1>1, WalkType DEF Follow
<1>3. Record(msg.release_state, path) \in Seq(Transition)
    BY <1>1, RecordType DEF Transition
<1> QED
    BY <1>1, <1>2, <1>3 DEF Follow

LEMMA AddedType ==
    ASSUME TypeOK, NEW c \in Contacts, NEW u \in Users \cup {NoUser}
    PROVE  Append(confirmations, NewConfirmation(c, u)) \in Seq(Confirmation)
  BY DEF TypeOK, NewConfirmation, Confirmation

LEMMA RevokeType ==
    ASSUME NEW rows \in Seq(Confirmation)
    PROVE  /\ Revoke(rows) \in Seq(Confirmation)
           /\ Len(Revoke(rows)) = Len(rows)
           /\ \A i \in 1..Len(rows) : /\ Revoke(rows)[i].contact = rows[i].contact
                                      /\ Revoke(rows)[i].actor = rows[i].actor
                                      /\ ~ Revoke(rows)[i].is_valid
<1>0. \A row \in Confirmation : [row EXCEPT !.is_valid = FALSE] \in Confirmation
    BY DEF Confirmation
<1>1. \A i \in 1..Len(rows) : [rows[i] EXCEPT !.is_valid = FALSE] \in Confirmation
    BY <1>0
<1>2. Revoke(rows) = [i \in 1..Len(rows) |-> [rows[i] EXCEPT !.is_valid = FALSE]]
    BY DEF Revoke
<1>3. Revoke(rows) \in Seq(Confirmation) /\ Len(Revoke(rows)) = Len(rows)
    BY <1>1, <1>2
<1>4. \A i \in 1..Len(rows) : rows[i] \in Confirmation
    OBVIOUS
<1> QED
    BY <1>2, <1>3, <1>4 DEF Confirmation

LEMMA ConfirmFollows ==
    ASSUME TypeOK, NEW c \in Contacts, NEW u \in Users \cup {NoUser},
           TrustedConfirm(c, u)
    PROVE  \E path \in Path : /\ Follow(path)
                              /\ ~ Visits(path, {"RELEASED"})
                              /\ \E q \in BOOLEAN :
                                   path = ConfirmPath(msg.release_state, q)
<1> DEFINE added == Append(confirmations, NewConfirmation(c, u))
           seen  == IF Autoflush THEN added ELSE confirmations
           q     == QuorumAdvances(policy, CountValid(seen, contacts))
           path  == ConfirmPath(msg.release_state, q)
<1>1. Follow(path)
    BY DEF TrustedConfirm
<1>2. q \in BOOLEAN
    BY DEF QuorumAdvances
<1>3. msg.release_state \in ReleaseState
    BY DEF TypeOK, Message
<1>4. path \in Path /\ ~ Visits(path, {"RELEASED"})
    BY <1>2, <1>3, OperationPaths
<1> QED
    BY <1>1, <1>2, <1>4

LEMMA TypeInit == Init => TypeOK
<1> SUFFICES ASSUME Init PROVE TypeOK
    OBVIOUS
<1>1. policy \in Policy /\ 0 \in 0..MaxTime
    BY WorkflowAssumption DEF Init
<1>2. NewMessage \in Message
    BY DEF NewMessage, Message, ReleaseState
<1>3. <<>> \in Seq(Confirmation) /\ <<>> \in Seq(Transition)
    OBVIOUS
<1> QED
    BY <1>1, <1>2, <1>3 DEF Init, TypeOK

LEMMA TypeNext == TypeOK /\ [Next]_vars => TypeOK'
<1> SUFFICES ASSUME TypeOK, [Next]_vars PROVE TypeOK'
    OBVIOUS
<1>1. CASE OwnerRequest
    BY <1>1, FollowType, OperationPaths DEF OwnerRequest, TypeOK
<1>2. CASE \E c \in Contacts, u \in Users \cup {NoUser} : TrustedConfirm(c, u)
  <2>1. PICK c \in Contacts, u \in Users \cup {NoUser} : TrustedConfirm(c, u)
      BY <1>2
  <2>2. confirmations' \in Seq(Confirmation)
      BY <2>1, AddedType DEF TrustedConfirm
  <2>3. msg' \in Message /\ history' \in Seq(Transition)
      BY <2>1, ConfirmFollows, FollowType
  <2> QED
      BY <2>1, <2>2, <2>3 DEF TrustedConfirm, TypeOK
<1>3. CASE \E u \in Users : Finalize(u)
    BY <1>3, FollowType, LiteralPaths DEF Finalize, TypeOK
<1>4. CASE \E u \in Users : Cancel(u)
  <2>1. confirmations' \in Seq(Confirmation)
      BY <1>4, RevokeType DEF Cancel, TypeOK
  <2> QED
      BY <1>4, <2>1, FollowType, LiteralPaths DEF Cancel, TypeOK
<1>5. CASE \E to \in DirectTargets, force \in ForceArgs : Direct(to, force)
  <2>1. PICK to \in DirectTargets, force \in ForceArgs : Direct(to, force)
      BY <1>5
  <2>2. confirmations' \in Seq(Confirmation)
      BY <2>1, RevokeType DEF Direct, TypeOK
  <2>3. <<to>> \in Path
      BY LiteralPaths, WorkflowAssumption
  <2> QED
      BY <2>1, <2>2, <2>3, FollowType DEF Direct, TypeOK
<1>6. CASE \E c \in Contacts : DeleteFamily(c)
    BY <1>6 DEF DeleteFamily, TypeOK
<1>7. CASE Tick
    BY <1>7, WorkflowAssumption DEF Tick, TypeOK
<1>8. CASE VerifyDeath
    BY <1>8 DEF VerifyDeath, TypeOK
<1>9. CASE UNCHANGED vars
    BY <1>9 DEF vars, TypeOK
<1> QED
    BY <1>1, <1>2, <1>3, <1>4, <1>5, <1>6, <1>7, <1>8, <1>9 DEF Next

(* Every call of the engine leaves the tables it writes well typed.        *)
THEOREM TypeCorrect == Spec => []TypeOK
<1> QED
    BY TypeInit, TypeNext, PTL DEF Spec

-----------------------------------------------------------------------------
(* The contract *)

(* What no step of the engine takes back. *)
Keeps ==
    /\ policy' = policy
    /\ now <= now'
    /\ death => death'
    /\ Len(confirmations) <= Len(confirmations')
    /\ \A i \in 1..Len(confirmations) :
          /\ confirmations'[i].contact = confirmations[i].contact
          /\ confirmations'[i].actor = confirmations[i].actor

(* A step that releases: it evaluates the condition and touches nothing    *)
(* the condition depends on.                                               *)
Releases ==
    /\ Satisfied
    /\ msg'.is_released = TRUE
    /\ UNCHANGED <<policy, now, death, confirmations>>

LEMMA FollowReleases ==
    ASSUME TypeOK, NEW path \in Path, Follow(path)
    PROVE  /\ ~ Visits(path, {"RELEASED"}) => msg'.is_released = msg.is_released
           /\ Visits(path, {"RELEASED"}) => msg'.is_released = TRUE
<1>1. msg \in Message /\ msg' \in Message
    BY FollowType DEF TypeOK
<1>2. msg'.is_released <=> msg.is_released \/ Visits(path, {"RELEASED"})
    BY <1>1, WalkReleases DEF Follow
<1>3. msg.is_released \in BOOLEAN /\ msg'.is_released \in BOOLEAN
    BY <1>1 DEF Message
<1> QED
    BY <1>2, <1>3

LEMMA KeepsOrReleases ==
    TypeOK /\ [Next]_vars =>
        Keeps /\ (msg'.is_released = msg.is_released \/ Releases)
<1> SUFFICES ASSUME TypeOK, [Next]_vars
             PROVE  Keeps /\ (msg'.is_released = msg.is_released \/ Releases)
    OBVIOUS
<1>0. /\ now \in Nat
      /\ confirmations \in Seq(Confirmation)
      /\ Len(confirmations) \in Nat
      /\ death \in BOOLEAN
    BY WorkflowAssumption DEF TypeOK
<1> USE <1>0
<1>a. ASSUME UNCHANGED <<policy, confirmations, now, death>> PROVE Keeps
    BY <1>a DEF Keeps
<1>1. CASE OwnerRequest
  <2>1. Keeps
      BY <1>1, <1>a DEF OwnerRequest
  <2>2. msg'.is_released = msg.is_released
      BY <1>1, FollowReleases, OperationPaths DEF OwnerRequest
  <2> QED
      BY <2>1, <2>2
<1>2. CASE \E c \in Contacts, u \in Users \cup {NoUser} : TrustedConfirm(c, u)
  <2>1. PICK c \in Contacts, u \in Users \cup {NoUser} : TrustedConfirm(c, u)
      BY <1>2
  <2>2. msg'.is_released = msg.is_released
      BY <2>1, ConfirmFollows, FollowReleases
  <2>3. confirmations' = Append(confirmations, NewConfirmation(c, u))
      BY <2>1 DEF TrustedConfirm
  <2>4. Len(confirmations) <= Len(confirmations')
      BY <2>3
  <2>5. \A i \in 1..Len(confirmations) : confirmations'[i] = confirmations[i]
      BY <2>3
  <2>6. UNCHANGED <<policy, now, death>>
      BY <2>1 DEF TrustedConfirm
  <2>7. Keeps
      BY <2>4, <2>5, <2>6 DEF Keeps
  <2> QED
      BY <2>2, <2>7
<1>3. CASE \E u \in Users : Finalize(u)
  <2>1. Satisfied /\ Follow(<<"RELEASED">>) /\ UNCHANGED <<policy, confirmations, now, death>>
      BY <1>3 DEF Finalize
  <2>2. Visits(<<"RELEASED">>, {"RELEASED"})
      BY DEF Visits
  <2>3. msg'.is_released = TRUE
      BY <2>1, <2>2, FollowReleases, LiteralPaths
  <2> QED
      BY <1>a, <2>1, <2>3 DEF Releases
<1>4. CASE \E u \in Users : Cancel(u)
  <2>1. ~ Visits(<<"CANCELLED">>, {"RELEASED"})
      BY DEF Visits
  <2>2. msg'.is_released = msg.is_released
      BY <1>4, <2>1, FollowReleases, LiteralPaths DEF Cancel
  <2>3. confirmations' = Revoke(confirmations) /\ UNCHANGED <<policy, now, death>>
      BY <1>4 DEF Cancel
  <2>4. Keeps
      BY <2>3, RevokeType DEF Keeps
  <2> QED
      BY <2>2, <2>4
<1>5. CASE \E to \in DirectTargets, force \in ForceArgs : Direct(to, force)
  <2>1. PICK to \in DirectTargets, force \in ForceArgs : Direct(to, force)
      BY <1>5
  <2>2. Keeps
      BY <2>1, RevokeType DEF Direct, Keeps
  <2>3. <<to>> \in Path
      BY LiteralPaths, WorkflowAssumption
  <2>4. CASE to = "RELEASED"
    <3>1. Visits(<<to>>, {"RELEASED"})
        BY <2>4 DEF Visits
    <3> QED
        BY <2>1, <2>2, <2>3, <2>4, <3>1, FollowReleases DEF Direct, Releases
  <2>5. CASE to # "RELEASED"
    <3>1. ~ Visits(<<to>>, {"RELEASED"})
        BY <2>5 DEF Visits
    <3> QED
        BY <2>1, <2>2, <2>3, <3>1, FollowReleases DEF Direct
  <2> QED
      BY <2>4, <2>5
<1>6. CASE \E c \in Contacts : DeleteFamily(c)
    BY <1>6 DEF DeleteFamily, Keeps
<1>7. CASE Tick
    BY <1>7 DEF Tick, Keeps
<1>8. CASE VerifyDeath
    BY <1>8 DEF VerifyDeath, Keeps
<1>9. CASE UNCHANGED vars
    BY <1>9 DEF vars, Keeps
<1> QED
    BY <1>1, <1>2, <1>3, <1>4, <1>5, <1>6, <1>7, <1>8, <1>9 DEF Next

LEMMA MetStays == TypeOK /\ TypeOK' /\ Keeps /\ Met => Met'
<1> SUFFICES ASSUME TypeOK, TypeOK', Keeps, Met
             PROVE  Met'
    OBVIOUS
<1>1. Cardinality(EverCounted(confirmations)) <= Cardinality(EverCounted(confirmations'))
    BY EverCountedGrows DEF TypeOK, Keeps
<1>2. /\ Cardinality(EverCounted(confirmations)) \in Nat
      /\ Cardinality(EverCounted(confirmations')) \in Nat
    BY CountBound DEF TypeOK
<1>3. now \in Nat /\ now' \in Nat
    BY WorkflowAssumption DEF TypeOK
<1> QED
    BY <1>1, <1>2, <1>3, HoldsForever DEF TypeOK, Keeps, Met

LEMMA SatisfiedIsMet == TypeOK /\ Satisfied => Met
<1> SUFFICES ASSUME TypeOK, Satisfied
             PROVE  Met
    OBVIOUS
<1>1. /\ Votes \in Nat
      /\ Cardinality(EverCounted(confirmations)) \in Nat
      /\ Votes <= Cardinality(EverCounted(confirmations))
    BY CountBound DEF TypeOK, Votes
<1>2. now \in Nat
    BY WorkflowAssumption DEF TypeOK
<1> QED
    BY <1>1, <1>2, SatisfiedHolds DEF TypeOK, Satisfied, Met

LEMMA MetBoolean ==
    /\ TypeOK => Met \in BOOLEAN
    /\ TypeOK' => Met' \in BOOLEAN
<1>1. ASSUME TypeOK PROVE Met \in BOOLEAN
  <2>1. now - policy.utc_offset \in Int
      BY <1>1, WorkflowAssumption, PolicyType DEF TypeOK
  <2> QED
      BY <1>1, <2>1, HoldsBoolean, CountBound DEF TypeOK, Met
<1>2. ASSUME TypeOK' PROVE Met' \in BOOLEAN
  <2>1. now' - policy'.utc_offset \in Int
      BY <1>2, WorkflowAssumption, PolicyType DEF TypeOK
  <2> QED
      BY <1>2, <2>1, HoldsBoolean, CountBound DEF TypeOK, Met
<1> QED
    BY <1>1, <1>2

(* The engine implements its contract: for any people, policies and        *)
(* callers, forced or not, a message is released only if its condition has *)
(* been satisfied, and never unreleased.                                   *)
THEOREM ImplementsContract == Spec => KeepsContract
<1>1. Init => Contract!Init
  <2> SUFFICES ASSUME Init PROVE Contract!Init
      OBVIOUS
  <2>1. Met \in BOOLEAN
      BY TypeInit, MetBoolean
  <2> QED
      BY <2>1 DEF Init, NewMessage, Contract!Init
<1>2. TypeOK /\ TypeOK' /\ [Next]_vars => [Contract!Next]_(Contract!vars)
  <2> SUFFICES ASSUME TypeOK, TypeOK', [Next]_vars
               PROVE  [Contract!Next]_(Contract!vars)
      OBVIOUS
  <2>1. Keeps /\ (msg'.is_released = msg.is_released \/ Releases)
      BY KeepsOrReleases
  <2>2. Met \in BOOLEAN /\ Met' \in BOOLEAN /\ msg.is_released \in BOOLEAN
      BY MetBoolean DEF TypeOK, Message
  <2>3. CASE msg'.is_released = msg.is_released
    <3>1. Met => Met'
        BY <2>1, MetStays
    <3> QED
        BY <2>2, <2>3, <3>1 DEF Contract!Next, Contract!Satisfy, Contract!vars
  <2>4. CASE Releases
    <3>1. Met /\ Met' = Met
        BY <2>4, SatisfiedIsMet DEF Releases, Met
    <3> QED
        BY <2>2, <2>4, <3>1 DEF Releases, Contract!Next, Contract!Release, Contract!vars
  <2> QED
      BY <2>1, <2>3, <2>4
<1> QED
    BY <1>1, <1>2, TypeCorrect, PTL DEF Spec, KeepsContract, Contract!Spec

-----------------------------------------------------------------------------
(* Confirmations *)

LEMMA FollowState ==
    ASSUME TypeOK, NEW path \in Path, Follow(path)
    PROVE  msg'.release_state = IF path = <<>> THEN msg.release_state
                                ELSE path[Len(path)]
  BY DEF Follow, Walk

LEMMA ConfirmState ==
    ASSUME TypeOK, NEW c \in Contacts, NEW u \in Users \cup {NoUser},
           TrustedConfirm(c, u)
    PROVE  msg'.release_state # "CANCELLED"
<1>1. PICK path \in Path, q \in BOOLEAN :
         Follow(path) /\ path = ConfirmPath(msg.release_state, q)
    BY ConfirmFollows
<1>2. msg.release_state # "CANCELLED"
    BY DEF TrustedConfirm
<1> DEFINE s == msg.release_state
<1>3. CASE s = "ACTIVE" /\ ~ q
    BY <1>1, <1>3, FollowState DEF ConfirmPath
<1>4. CASE s = "ACTIVE" /\ q
    BY <1>1, <1>4, FollowState DEF ConfirmPath, OwnerPath
<1>5. CASE s = "VERIFICATION_REQUIRED" /\ q
    BY <1>1, <1>5, FollowState DEF ConfirmPath
<1>6. CASE s = "VERIFIED" /\ q
    BY <1>1, <1>6, FollowState DEF ConfirmPath
<1>7. CASE s # "ACTIVE" /\ (q => s \notin {"VERIFICATION_REQUIRED", "VERIFIED"})
    BY <1>1, <1>2, <1>7, FollowState DEF ConfirmPath
<1> QED
    BY <1>3, <1>4, <1>5, <1>6, <1>7

(* The rows after a step: the same, one more, or all revoked.              *)
LEMMA RowsNext ==
    ASSUME TypeOK, [Next]_vars
    PROVE  \/ confirmations' = confirmations /\ msg'.release_state # "CANCELLED"
           \/ confirmations' = confirmations /\ msg' = msg
           \/ confirmations' = Revoke(confirmations)
           \/ \E c \in Contacts, u \in Users \cup {NoUser} : TrustedConfirm(c, u)
<1>1. CASE OwnerRequest
    BY <1>1, FollowState, OperationPaths DEF OwnerRequest, OwnerPath
<1>2. CASE \E u \in Users : Finalize(u)
    BY <1>2, FollowState, LiteralPaths DEF Finalize
<1>3. CASE \E u \in Users : Cancel(u)
    BY <1>3 DEF Cancel
<1>4. CASE \E to \in DirectTargets, force \in ForceArgs : Direct(to, force)
  <2>1. PICK to \in DirectTargets, force \in ForceArgs : Direct(to, force)
      BY <1>4
  <2>2. CASE to = "CANCELLED"
      BY <2>1, <2>2 DEF Direct
  <2>3. CASE to # "CANCELLED"
    <3>1. <<to>> \in Path
        BY LiteralPaths, WorkflowAssumption
    <3>2. msg'.release_state = to
        BY <2>1, <3>1, FollowState DEF Direct
    <3> QED
        BY <2>1, <2>3, <3>2 DEF Direct
  <2> QED
      BY <2>2, <2>3
<1>5. CASE \E c \in Contacts : DeleteFamily(c)
    BY <1>5 DEF DeleteFamily
<1>6. CASE Tick
    BY <1>6 DEF Tick
<1>7. CASE VerifyDeath
    BY <1>7 DEF VerifyDeath
<1>8. CASE UNCHANGED vars
    BY <1>8 DEF vars
<1> QED
    BY <1>1, <1>2, <1>3, <1>4, <1>5, <1>6, <1>7, <1>8 DEF Next

(* Sequentially, the duplicate check of add_confirmation is enough: valid  *)
(* confirmations are of distinct contacts and never the owner's, under any *)
(* calls, forced transitions included.                                     *)
THEOREM OneVoice == Spec => []OneVoicePerContact
<1>1. Init => OneVoicePerContact
    BY DEF Init, OneVoicePerContact
<1>2. TypeOK /\ OneVoicePerContact /\ [Next]_vars => OneVoicePerContact'
  <2> SUFFICES ASSUME TypeOK, OneVoicePerContact, [Next]_vars
               PROVE  OneVoicePerContact'
      OBVIOUS
  <2>0. confirmations \in Seq(Confirmation)
      BY DEF TypeOK
  <2>1. CASE confirmations' = confirmations
      BY <2>1 DEF OneVoicePerContact
  <2>2. CASE confirmations' = Revoke(confirmations)
      BY <2>0, <2>2, RevokeType DEF OneVoicePerContact
  <2>3. CASE \E c \in Contacts, u \in Users \cup {NoUser} : TrustedConfirm(c, u)
    <3>1. PICK c \in Contacts, u \in Users \cup {NoUser} : TrustedConfirm(c, u)
        BY <2>3
    <3> DEFINE row == NewConfirmation(c, u)
    <3>2. confirmations' = Append(confirmations, row)
        BY <3>1 DEF TrustedConfirm
    <3>3. row.contact = c /\ ~ SelfConfirmation(row)
        BY <3>1 DEF TrustedConfirm, MayVouch, SelfConfirmation, NewConfirmation
    <3>4. \A i \in DOMAIN confirmations :
             ~ (confirmations[i].contact = c /\ confirmations[i].is_valid)
        BY <3>1 DEF TrustedConfirm, HasValid
    <3> HIDE DEF row
    <3>5. /\ DOMAIN confirmations' = 1..(Len(confirmations) + 1)
          /\ DOMAIN confirmations = 1..Len(confirmations)
          /\ \A i \in DOMAIN confirmations : confirmations'[i] = confirmations[i]
          /\ confirmations'[Len(confirmations) + 1] = row
        BY <2>0, <3>2
    <3> QED
        BY <2>0, <3>3, <3>4, <3>5 DEF OneVoicePerContact
  <2> QED
      BY <2>1, <2>2, <2>3, RowsNext
<1> QED
    BY <1>1, <1>2, TypeCorrect, PTL DEF Spec

(* As no contact speaks twice, as many votes count as people vouch.        *)
LEMMA VotesAreVoices ==
    ASSUME TypeOK, OneVoicePerContact
    PROVE  /\ Votes \in Nat /\ Cardinality(Voices) \in Nat
           /\ Votes <= Cardinality(Voices)
<1> DEFINE S == {i \in DOMAIN confirmations : /\ confirmations[i].is_valid
                                              /\ confirmations[i].contact \in contacts}
           f == [i \in S |-> confirmations[i].contact]
<1>1. IsFiniteSet(S)
  <2>1. DOMAIN confirmations = 1..Len(confirmations) /\ Len(confirmations) \in Nat
      BY DEF TypeOK
  <2>2. IsFiniteSet(1..Len(confirmations)) /\ S \subseteq 1..Len(confirmations)
      BY <2>1, FS_Interval
  <2> QED
      BY <2>2, FS_Subset
<1>2. f \in Surjection(S, Voices) /\ f \in Injection(S, Voices)
  <2>1. f \in [S -> Voices]
      BY DEF Voices, HasValid
  <2>2. \A c \in Voices : \E i \in S : f[i] = c
      BY DEF Voices, HasValid
  <2>3. \A i, j \in S : f[i] = f[j] => i = j
      BY DEF OneVoicePerContact
  <2> QED
      BY <2>1, <2>2, <2>3 DEF Surjection, Injection, IsInjective
<1>3. IsFiniteSet(Voices) /\ Cardinality(Voices) = Cardinality(S)
    BY <1>1, <1>2, FS_Surjection
<1>4. Counted(confirmations, contacts) \subseteq S
    BY DEF Counted
<1> HIDE DEF S
<1>5. /\ IsFiniteSet(Counted(confirmations, contacts))
      /\ Cardinality(Counted(confirmations, contacts)) <= Cardinality(S)
    BY <1>1, <1>4, FS_Subset
<1> QED
    BY <1>3, <1>5, FS_CardinalityType DEF Votes, CountValid

(* Under any calls, forced transitions included, a message is released     *)
(* only when its condition holds as the owner stated it, but for a date    *)
(* written west of UTC, whose release is early by its distance from UTC at *)
(* most (_policy_satisfied).                                               *)
THEOREM ReleasesHonourConditions == Spec => ReleaseHonoursCondition
<1>1. TypeOK /\ OneVoicePerContact /\ [Next]_vars
          => [msg'.is_released /\ ~ msg.is_released
                 => ConditionHolds(policy, now + West, death, Cardinality(Voices))]_vars
  <2> SUFFICES ASSUME TypeOK, OneVoicePerContact, [Next]_vars,
                      msg'.is_released, ~ msg.is_released
               PROVE  ConditionHolds(policy, now + West, death, Cardinality(Voices))
      OBVIOUS
  <2>1. Satisfied
      BY KeepsOrReleases DEF Releases
  <2>2. policy \in Policy /\ now \in Nat
      BY WorkflowAssumption DEF TypeOK
  <2>3. Votes \in Nat /\ Cardinality(Voices) \in Nat /\ Votes <= Cardinality(Voices)
      BY VotesAreVoices
  <2> USE <2>1, <2>2, <2>3, PolicyType DEF Satisfied, PolicySatisfied, ConditionHolds
  <2>4. CASE policy.release_condition = "MANUAL"
      BY <2>4
  <2>5. CASE policy.release_condition = "SCHEDULED"
      BY <2>5 DEF Stored, West
  <2>6. CASE policy.release_condition = "ON_DEATH"
      BY <2>6
  <2>7. CASE policy.release_condition = "TRUSTED_CONSENSUS"
      BY <2>7
  <2> QED
      BY <2>4, <2>5, <2>6, <2>7 DEF ReleaseCondition
<1> QED
    BY <1>1, TypeCorrect, OneVoice, PTL DEF Spec, ReleaseHonoursCondition

(* Sequentially, no confirmation survives the cancellation of its release. *)
THEOREM CancelTakesBack == Spec => []CancelRevokes
<1>1. Init => CancelRevokes
    BY DEF Init, CancelRevokes
<1>2. TypeOK /\ CancelRevokes /\ [Next]_vars => CancelRevokes'
  <2> SUFFICES ASSUME TypeOK, CancelRevokes, [Next]_vars
               PROVE  CancelRevokes'
      OBVIOUS
  <2>1. CASE confirmations' = confirmations /\ msg'.release_state # "CANCELLED"
      BY <2>1 DEF CancelRevokes
  <2>2. CASE confirmations' = confirmations /\ msg' = msg
      BY <2>2 DEF CancelRevokes
  <2>3. CASE confirmations' = Revoke(confirmations)
      BY <2>3, RevokeType DEF CancelRevokes, TypeOK
  <2>4. CASE \E c \in Contacts, u \in Users \cup {NoUser} : TrustedConfirm(c, u)
      BY <2>4, ConfirmState DEF CancelRevokes
  <2> QED
      BY <2>1, <2>2, <2>3, <2>4, RowsNext
<1> QED
    BY <1>1, <1>2, TypeCorrect, PTL DEF Spec

-----------------------------------------------------------------------------
(* History *)

LEMMA FollowReplays ==
    ASSUME TypeOK, HistoryReplays, NEW path \in Path, Follow(path)
    PROVE  HistoryReplays'
<1> DEFINE s == msg.release_state
           rows == Record(s, path)
<1>1. /\ history \in Seq(Transition)
      /\ Len(history) \in Nat
      /\ Len(path) \in Nat
      /\ path \in Seq(ReleaseState)
    BY DEF TypeOK, Path
<1>2. /\ DOMAIN rows = 1..Len(path)
      /\ Len(rows) = Len(path)
      /\ rows \in Seq(Transition)
      /\ \A i \in 1..Len(path) : /\ rows[i].from = IF i = 1 THEN s ELSE path[i - 1]
                                 /\ rows[i].to = path[i]
  <2>1. s \in ReleaseState
      BY DEF TypeOK, Message
  <2> QED
      BY <1>1, <2>1, RecordType DEF Record, Before, Transition
<1> HIDE DEF rows
<1>3. /\ history' = history \o rows
      /\ DOMAIN history' = 1..(Len(history) + Len(path))
      /\ Len(history') = Len(history) + Len(path)
      /\ \A i \in 1..Len(history) : history'[i] = history[i]
      /\ \A i \in 1..Len(path) : history'[Len(history) + i] = rows[i]
  <2>1. history' = history \o rows
      BY DEF Follow, rows
  <2>2. /\ Len(history \o rows) = Len(history) + Len(rows)
        /\ DOMAIN (history \o rows) = 1..(Len(history) + Len(rows))
        /\ \A i \in 1..Len(history) : (history \o rows)[i] = history[i]
        /\ \A i \in 1..Len(rows) : (history \o rows)[Len(history) + i] = rows[i]
    <3>1. /\ history \o rows \in Seq(Transition)
          /\ Len(history \o rows) = Len(history) + Len(rows)
          /\ \A i \in 1..(Len(history) + Len(rows)) : (history \o rows)[i] =
                IF i <= Len(history) THEN history[i] ELSE rows[i - Len(history)]
      <4>1. history \in Seq(Transition) /\ rows \in Seq(Transition)
          BY <1>1, <1>2
      <4> QED
          BY <4>1, ConcatProperties
    <3>2. /\ \A i \in 1..Len(history) : /\ i \in 1..(Len(history) + Len(rows))
                                        /\ i <= Len(history)
          /\ \A i \in 1..Len(rows) : /\ Len(history) + i \in 1..(Len(history) + Len(rows))
                                     /\ ~ (Len(history) + i <= Len(history))
                                     /\ Len(history) + i - Len(history) = i
        BY <1>1, <1>2
    <3>3. DOMAIN (history \o rows) = 1..(Len(history) + Len(rows))
        BY <3>1
    <3> QED
        BY <3>1, <3>2, <3>3
  <2> QED
      BY <1>2, <2>1, <2>2
<1>4. /\ s = IF history = <<>> THEN "ACTIVE" ELSE history[Len(history)].to
      /\ \A i \in 1..Len(history) :
            history[i].from = IF i = 1 THEN "ACTIVE" ELSE history[i - 1].to
    BY <1>1 DEF HistoryReplays
<1>5. msg'.release_state = IF path = <<>> THEN s ELSE path[Len(path)]
    BY FollowState
<1>6. CASE path = <<>>
  <2>1. history' = history /\ msg'.release_state = s
      BY <1>1, <1>2, <1>3, <1>5, <1>6
  <2> QED
      BY <2>1 DEF HistoryReplays
<1>7. CASE path # <<>>
  <2>1. Len(path) > 0 /\ history' # <<>>
      BY <1>1, <1>3, <1>7
  <2>2. msg'.release_state = history'[Len(history')].to
      BY <1>1, <1>2, <1>3, <1>5, <1>7, <2>1
  <2>3. ASSUME NEW i \in DOMAIN history'
        PROVE  history'[i].from = IF i = 1 THEN "ACTIVE" ELSE history'[i - 1].to
    <3>1. CASE i <= Len(history)
        BY <1>1, <1>3, <1>4, <3>1
    <3>2. CASE i = Len(history) + 1
      <4>1. history'[i].from = s
          BY <1>1, <1>2, <1>3, <2>1, <3>2
      <4>2. CASE history = <<>>
          BY <1>4, <3>2, <4>1, <4>2
      <4>3. CASE history # <<>>
        <5>1. Len(history) \in 1..Len(history) /\ i - 1 = Len(history) /\ i # 1
            BY <1>1, <3>2, <4>3
        <5> QED
            BY <1>3, <1>4, <4>1, <4>3, <5>1
      <4> QED
          BY <4>2, <4>3
    <3>3. CASE i > Len(history) + 1
      <4> DEFINE j == i - Len(history)
      <4>1. j \in 1..Len(path) /\ j - 1 \in 1..Len(path) /\ j # 1 /\ i # 1
          BY <1>1, <1>3, <3>3
      <4>2. i = Len(history) + j /\ i - 1 = Len(history) + (j - 1)
          BY <1>1, <1>3
      <4>3. history'[i].from = path[j - 1]
          BY <1>2, <1>3, <4>1, <4>2
      <4>4. history'[i - 1].to = path[j - 1]
          BY <1>2, <1>3, <4>1, <4>2
      <4> QED
          BY <4>1, <4>3, <4>4
    <3> QED
        BY <1>1, <1>3, <3>1, <3>2, <3>3
  <2> QED
      BY <2>1, <2>2, <2>3 DEF HistoryReplays
<1> QED
    BY <1>6, <1>7

LEMMA StepFollows ==
    TypeOK /\ [Next]_vars =>
        (\E path \in Path : Follow(path)) \/ UNCHANGED <<msg, history>>
<1> SUFFICES ASSUME TypeOK, [Next]_vars
             PROVE  (\E path \in Path : Follow(path)) \/ UNCHANGED <<msg, history>>
    OBVIOUS
<1>1. CASE OwnerRequest
    BY <1>1, OperationPaths DEF OwnerRequest
<1>2. CASE \E c \in Contacts, u \in Users \cup {NoUser} : TrustedConfirm(c, u)
    BY <1>2, ConfirmFollows
<1>3. CASE \E u \in Users : Finalize(u)
    BY <1>3, LiteralPaths DEF Finalize
<1>4. CASE \E u \in Users : Cancel(u)
    BY <1>4, LiteralPaths DEF Cancel
<1>5. CASE \E to \in DirectTargets, force \in ForceArgs : Direct(to, force)
    BY <1>5, LiteralPaths, WorkflowAssumption DEF Direct
<1>6. CASE \E c \in Contacts : DeleteFamily(c)
    BY <1>6 DEF DeleteFamily
<1>7. CASE Tick
    BY <1>7 DEF Tick
<1>8. CASE VerifyDeath
    BY <1>8 DEF VerifyDeath
<1>9. CASE UNCHANGED vars
    BY <1>9 DEF vars
<1> QED
    BY <1>1, <1>2, <1>3, <1>4, <1>5, <1>6, <1>7, <1>8, <1>9 DEF Next

(* Sequentially, the history replays to the state of the message.          *)
THEOREM HistoryIsReplayable == Spec => []HistoryReplays
<1>1. Init => HistoryReplays
    BY DEF Init, NewMessage, HistoryReplays
<1>2. TypeOK /\ HistoryReplays /\ [Next]_vars => HistoryReplays'
  <2>1. ASSUME HistoryReplays, UNCHANGED <<msg, history>> PROVE HistoryReplays'
      BY <2>1 DEF HistoryReplays
  <2> QED
      BY <2>1, StepFollows, FollowReplays
<1> QED
    BY <1>1, <1>2, TypeCorrect, PTL DEF Spec

-----------------------------------------------------------------------------
(* What the graph guarantees as long as no caller forces transitions       *)

(* The flags that transition() sets as it goes agree with the state.       *)
Consistent ==
    /\ msg.policy_frozen <=> InPipeline(msg.release_state)
    /\ msg.is_released <=> msg.release_state = "RELEASED"

(* The history only grows: a step that leaves no forced transition in it   *)
(* found none.                                                             *)
LEMMA UnforcedBefore ==
    ASSUME TypeOK, NEW path \in Path, Follow(path), Unforced'
    PROVE  /\ Unforced
           /\ path # <<>> => path[1] \in RELEASE_TRANSITIONS[msg.release_state]
<1> DEFINE s == msg.release_state
           rows == Record(s, path)
<1>1. /\ history \in Seq(Transition)
      /\ Len(history) \in Nat
      /\ Len(path) \in Nat
      /\ path \in Seq(ReleaseState)
      /\ s \in ReleaseState
    BY DEF TypeOK, Path, Message
<1>2. /\ DOMAIN rows = 1..Len(path)
      /\ Len(rows) = Len(path)
      /\ rows \in Seq(Transition)
      /\ path # <<>> => rows[1].from = s /\ rows[1].to = path[1]
  <2>1. /\ DOMAIN rows = 1..Len(path)
        /\ Len(rows) = Len(path)
        /\ rows \in Seq(Transition)
        /\ \A i \in 1..Len(path) : /\ rows[i].from = IF i = 1 THEN s ELSE path[i - 1]
                                   /\ rows[i].to = path[i]
      BY <1>1, RecordType DEF Record, Before, Transition
  <2>2. path # <<>> => 1 \in 1..Len(path)
      BY <1>1
  <2> QED
      BY <2>1, <2>2
<1> HIDE DEF rows
<1>3. /\ history \o rows \in Seq(Transition)
      /\ Len(history \o rows) = Len(history) + Len(rows)
      /\ \A i \in 1..(Len(history) + Len(rows)) : (history \o rows)[i] =
            IF i <= Len(history) THEN history[i] ELSE rows[i - Len(history)]
  <2>1. history \in Seq(Transition) /\ rows \in Seq(Transition)
      BY <1>1, <1>2
  <2> QED
      BY <2>1, ConcatProperties
<1>4. history' = history \o rows
    BY DEF Follow, rows
<1>5. /\ DOMAIN history = 1..Len(history)
      /\ DOMAIN history' = 1..(Len(history) + Len(path))
    BY <1>1, <1>2, <1>3, <1>4
<1>6. \A i \in DOMAIN history : i \in DOMAIN history' /\ history'[i] = history[i]
    BY <1>1, <1>2, <1>3, <1>4, <1>5
<1>7. ASSUME path # <<>>
      PROVE  /\ Len(history) + 1 \in DOMAIN history'
             /\ history'[Len(history) + 1] = rows[1]
  <2>1. Len(path) >= 1
      BY <1>1, <1>7
  <2> QED
      BY <1>1, <1>2, <1>3, <1>4, <1>5, <2>1
<1> QED
    BY <1>2, <1>6, <1>7 DEF Unforced

LEMMA FollowFlags ==
    ASSUME TypeOK, NEW path \in Path, Follow(path), path # <<>>
    PROVE  /\ msg'.release_state = path[Len(path)]
           /\ msg'.is_released = (msg.is_released \/ Visits(path, {"RELEASED"}))
           /\ msg'.policy_frozen = (/\ ~ Visits(path, {"CANCELLED"})
                                    /\ msg.policy_frozen \/ Visits(path, Freezing))
  BY DEF Follow, Walk

LEMMA ConfirmConsistent ==
    ASSUME TypeOK, Consistent, NEW c \in Contacts, NEW u \in Users \cup {NoUser},
           TrustedConfirm(c, u)
    PROVE  Consistent'
<1>1. PICK path \in Path, q \in BOOLEAN :
         /\ Follow(path)
         /\ path = ConfirmPath(msg.release_state, q)
         /\ ~ Visits(path, {"RELEASED"})
    BY ConfirmFollows
<1> DEFINE s == msg.release_state
<1>2. s # "RELEASED" /\ ~ msg.is_released
    BY DEF TrustedConfirm, Consistent
<1>3. CASE path = <<>>
  <2>1. msg' = msg
      BY <1>1, <1>3 DEF Follow, Walk
  <2> QED
      BY <2>1 DEF Consistent
<1>4. CASE path # <<>>
  <2>1. /\ ~ Visits(path, {"CANCELLED"})
        /\ Visits(path, Freezing)
        /\ path[Len(path)] \in {"VERIFICATION_REQUIRED", "RELEASE_PENDING"}
    <3>1. s \in ReleaseState
        BY DEF TypeOK, Message
    <3> QED
        BY <1>1, <1>4, <3>1, PathsFreeze
  <2>2. /\ msg'.release_state \in {"VERIFICATION_REQUIRED", "RELEASE_PENDING"}
        /\ ~ msg'.is_released
        /\ msg'.policy_frozen
      BY <1>1, <1>2, <1>4, <2>1, FollowFlags
  <2> QED
      BY <2>2 DEF Consistent, InPipeline
<1> QED
    BY <1>3, <1>4

(* One permitted transition keeps the flags consistent.                    *)
LEMMA TransitionConsistent ==
    ASSUME TypeOK, Consistent, NEW to \in ReleaseState,
           Permitted(msg.release_state, <<to>>), Follow(<<to>>)
    PROVE  Consistent' /\ msg.release_state # "RELEASED"
<1> DEFINE s == msg.release_state
<1>1. s \in ReleaseState /\ to \in RELEASE_TRANSITIONS[s]
    BY DEF Permitted, Before, TypeOK, Message
<1>2. /\ msg'.release_state = to
      /\ msg'.is_released = (msg.is_released \/ to = "RELEASED")
      /\ msg'.policy_frozen = (to # "CANCELLED" /\ (msg.policy_frozen \/ to \in Freezing))
  <2>1. /\ Visits(<<to>>, {"RELEASED"}) <=> to = "RELEASED"
        /\ Visits(<<to>>, {"CANCELLED"}) <=> to = "CANCELLED"
        /\ Visits(<<to>>, Freezing) <=> to \in Freezing
      BY DEF Visits
  <2>2. /\ msg'.release_state = to
        /\ msg'.is_released = (msg.is_released \/ Visits(<<to>>, {"RELEASED"}))
        /\ msg'.policy_frozen = (/\ ~ Visits(<<to>>, {"CANCELLED"})
                                 /\ msg.policy_frozen \/ Visits(<<to>>, Freezing))
      BY FollowFlags, LiteralPaths
  <2> QED
      BY <2>1, <2>2 DEF Freezing
<1>3. /\ s # "RELEASED"
      /\ to \in Freezing \/ to = "CANCELLED" \/ (InPipeline(to) <=> InPipeline(s))
         \/ (s = "CANCELLED" /\ to = "ACTIVE")
    BY <1>1 DEF RELEASE_TRANSITIONS, ReleaseState, Freezing, InPipeline
<1>4. to \in Freezing => InPipeline(to)
    BY DEF Freezing, InPipeline
<1>5. ~ InPipeline("CANCELLED") /\ ~ InPipeline("ACTIVE") /\ "CANCELLED" \notin Freezing
    BY DEF InPipeline, Freezing
<1>6. msg.policy_frozen <=> InPipeline(s)
    BY DEF Consistent
<1>7. msg'.policy_frozen <=> InPipeline(to)
    BY <1>2, <1>3, <1>4, <1>5, <1>6
<1>8. msg'.is_released <=> to = "RELEASED"
    BY <1>2, <1>3 DEF Consistent
<1> QED
    BY <1>2, <1>3, <1>7, <1>8 DEF Consistent

LEMMA ConsistentNext ==
    ASSUME TypeOK, Consistent, [Next]_vars, Unforced'
    PROVE  Consistent' /\ (msg.is_released => UNCHANGED msg)
<1>0. msg.is_released <=> msg.release_state = "RELEASED"
    BY DEF Consistent
<1>a. ASSUME msg' = msg PROVE Consistent'
    BY <1>a DEF Consistent
<1>1. CASE OwnerRequest
  <2>1. msg.release_state = "ACTIVE" /\ Follow(OwnerPath)
      BY <1>1 DEF OwnerRequest
  <2>2. /\ ~ Visits(OwnerPath, {"CANCELLED"})
        /\ ~ Visits(OwnerPath, {"RELEASED"})
        /\ Visits(OwnerPath, Freezing)
        /\ OwnerPath # <<>> /\ OwnerPath[Len(OwnerPath)] = "RELEASE_PENDING"
      BY DEF Visits, Freezing, OwnerPath
  <2>3. /\ msg'.release_state = "RELEASE_PENDING"
        /\ ~ msg'.is_released
        /\ msg'.policy_frozen
      BY <1>0, <2>1, <2>2, FollowFlags, OperationPaths
  <2> QED
      BY <1>0, <2>1, <2>3 DEF Consistent, InPipeline
<1>2. CASE \E c \in Contacts, u \in Users \cup {NoUser} : TrustedConfirm(c, u)
  <2>1. PICK c \in Contacts, u \in Users \cup {NoUser} : TrustedConfirm(c, u)
      BY <1>2
  <2>2. Consistent'
      BY <2>1, ConfirmConsistent
  <2>3. msg.release_state # "RELEASED"
      BY <2>1 DEF TrustedConfirm
  <2> QED
      BY <1>0, <2>2, <2>3
<1>3. CASE \E u \in Users : Finalize(u)
  <2>1. Permitted(msg.release_state, <<"RELEASED">>) /\ Follow(<<"RELEASED">>)
      BY <1>3 DEF Finalize
  <2> QED
      BY <1>0, <2>1, TransitionConsistent DEF ReleaseState
<1>4. CASE \E u \in Users : Cancel(u)
  <2>1. Permitted(msg.release_state, <<"CANCELLED">>) /\ Follow(<<"CANCELLED">>)
      BY <1>4 DEF Cancel
  <2> QED
      BY <1>0, <2>1, TransitionConsistent DEF ReleaseState
<1>5. CASE \E to \in DirectTargets, force \in ForceArgs : Direct(to, force)
  <2>1. PICK to \in DirectTargets, force \in ForceArgs : Direct(to, force)
      BY <1>5
  <2>2. to \in ReleaseState /\ <<to>> \in Path /\ <<to>> # <<>> /\ Follow(<<to>>)
      BY <2>1, LiteralPaths, WorkflowAssumption DEF Direct
  <2>3. Permitted(msg.release_state, <<to>>) /\ Follow(<<to>>)
    <3>1. to \in RELEASE_TRANSITIONS[msg.release_state]
        BY <2>2, UnforcedBefore
    <3> QED
        BY <2>2, <3>1 DEF Permitted, Before
  <2> QED
      BY <1>0, <2>2, <2>3, TransitionConsistent
<1>6. CASE \E c \in Contacts : DeleteFamily(c)
    BY <1>6, <1>a DEF DeleteFamily
<1>7. CASE Tick
    BY <1>7, <1>a DEF Tick
<1>8. CASE VerifyDeath
    BY <1>8, <1>a DEF VerifyDeath
<1>9. CASE UNCHANGED vars
    BY <1>9, <1>a DEF vars
<1> QED
    BY <1>1, <1>2, <1>3, <1>4, <1>5, <1>6, <1>7, <1>8, <1>9 DEF Next

LEMMA StaysConsistent == Spec => [](TypeOK /\ (Unforced => Consistent))
<1>1. Init => (Unforced => Consistent)
    BY DEF Init, NewMessage, Consistent, InPipeline
<1>2. TypeOK /\ (Unforced => Consistent) /\ [Next]_vars => (Unforced => Consistent)'
  <2> SUFFICES ASSUME TypeOK, Unforced => Consistent, [Next]_vars, Unforced'
               PROVE  Consistent'
      OBVIOUS
  <2>1. CASE \E path \in Path : Follow(path)
      BY <2>1, UnforcedBefore, ConsistentNext
  <2>2. CASE UNCHANGED <<msg, history>>
    <3>1. Unforced
        BY <2>2 DEF Unforced
    <3> QED
        BY <3>1, ConsistentNext
  <2> QED
      BY <2>1, <2>2, StepFollows
<1> QED
    BY <1>1, <1>2, TypeCorrect, PTL DEF Spec

(* As long as no transition has been forced, the policy is frozen exactly  *)
(* while a release is under way or done.                                   *)
THEOREM FrozenWhileReleasing == Spec => []FrozenInPipeline
<1>1. (Unforced => Consistent) => FrozenInPipeline
    BY DEF Consistent, FrozenInPipeline
<1> QED
    BY <1>1, StaysConsistent, PTL

(* As long as no transition has been forced, RELEASED is the end.          *)
THEOREM ReleasedIsTerminal == Spec => ReleasedForGood
<1>1. TypeOK /\ (Unforced => Consistent) /\ [Next]_vars
        => [Unforced' /\ msg.is_released
               => msg.release_state = "RELEASED" /\ UNCHANGED msg]_vars
  <2> SUFFICES ASSUME TypeOK, Unforced => Consistent, [Next]_vars, Unforced',
                      msg.is_released
               PROVE  msg.release_state = "RELEASED" /\ UNCHANGED msg
      OBVIOUS
  <2>1. Unforced
    <3>1. CASE \E path \in Path : Follow(path)
        BY <3>1, UnforcedBefore
    <3>2. CASE UNCHANGED <<msg, history>>
        BY <3>2 DEF Unforced
    <3> QED
        BY <3>1, <3>2, StepFollows
  <2> QED
      BY <2>1, ConsistentNext DEF Consistent
<1> QED
    BY <1>1, StaysConsistent, PTL DEF Spec, ReleasedForGood

=============================================================================
