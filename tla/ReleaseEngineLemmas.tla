------------------------- MODULE ReleaseEngineLemmas -------------------------
(***************************************************************************)
(* Facts about the operators of ReleaseEngine, for the proofs about the    *)
(* two specifications built from them.                                     *)
(***************************************************************************)
EXTENDS ReleaseEngine, FiniteSetTheorems, TLAPS

(* transition() leaves a message in a state of the graph.                  *)
LEMMA WalkType == \A m \in Message, path \in Path : Walk(m, path) \in Message
<1> SUFFICES ASSUME NEW m \in Message, NEW path \in Path
             PROVE  Walk(m, path) \in Message
    OBVIOUS
<1>1. CASE path = <<>>
    BY <1>1 DEF Walk
<1>2. CASE path # <<>>
  <2>1. path[Len(path)] \in ReleaseState
      BY <1>2 DEF Path
  <2>2. /\ (m.is_released \/ Visits(path, {"RELEASED"})) \in BOOLEAN
        /\ (/\ ~ Visits(path, {"CANCELLED"})
            /\ m.policy_frozen \/ Visits(path, Freezing)) \in BOOLEAN
      BY DEF Visits, Message
  <2> QED
      BY <1>2, <2>1, <2>2 DEF Walk, Message
<1> QED
    BY <1>1, <1>2

(* _record_transition records states of the graph.                         *)
LEMMA RecordType ==
    \A s \in ReleaseState, path \in Path :
        /\ Record(s, path) \in Seq([from : ReleaseState, to : ReleaseState])
        /\ Len(Record(s, path)) = Len(path)
<1> SUFFICES ASSUME NEW s \in ReleaseState, NEW path \in Path
             PROVE  /\ Record(s, path) \in Seq([from : ReleaseState, to : ReleaseState])
                    /\ Len(Record(s, path)) = Len(path)
    OBVIOUS
<1>1. Len(path) \in Nat
    BY DEF Path
<1>2. \A i \in 1..Len(path) : /\ Before(s, path, i) \in ReleaseState
                              /\ path[i] \in ReleaseState
    BY DEF Before, Path
<1>3. \A i \in 1..Len(path) : [from |-> Before(s, path, i), to |-> path[i]]
                                \in [from : ReleaseState, to : ReleaseState]
    BY <1>2
<1> QED
    BY <1>1, <1>3 DEF Record

(* A run of transition() calls that never reaches RELEASED releases        *)
(* nothing, and nothing is ever unreleased.                                *)
LEMMA WalkReleases ==
    ASSUME NEW m \in Message, NEW path \in Path
    PROVE  Walk(m, path).is_released <=> m.is_released \/ Visits(path, {"RELEASED"})
<1>1. CASE path = <<>>
    BY <1>1 DEF Walk, Visits
<1>2. CASE path # <<>>
    BY <1>2 DEF Walk
<1> QED
    BY <1>1, <1>2

(* The paths of the operations are paths, and none of them releases.       *)
LEMMA OperationPaths ==
    /\ OwnerPath \in Path
    /\ ~ Visits(OwnerPath, {"RELEASED"})
    /\ \A s \in ReleaseState, q \in BOOLEAN :
          /\ ConfirmPath(s, q) \in Path
          /\ ~ Visits(ConfirmPath(s, q), {"RELEASED"})
<1>1. OwnerPath \in Path /\ ~ Visits(OwnerPath, {"RELEASED"})
    BY DEF OwnerPath, Path, Visits, ReleaseState
<1>2. ASSUME NEW s \in ReleaseState, NEW q \in BOOLEAN
      PROVE  /\ ConfirmPath(s, q) \in Path
             /\ ~ Visits(ConfirmPath(s, q), {"RELEASED"})
  <2>1. CASE s = "ACTIVE" /\ ~ q
      BY <2>1 DEF ConfirmPath, Path, Visits, ReleaseState
  <2>2. CASE s = "ACTIVE" /\ q
      BY <2>2, <1>1 DEF ConfirmPath
  <2>3. CASE s = "VERIFICATION_REQUIRED" /\ q
      BY <2>3 DEF ConfirmPath, Path, Visits, ReleaseState
  <2>4. CASE s = "VERIFIED" /\ q
      BY <2>4 DEF ConfirmPath, Path, Visits, ReleaseState
  <2>5. CASE s # "ACTIVE" /\ (q => s \notin {"VERIFICATION_REQUIRED", "VERIFIED"})
      BY <2>5 DEF ConfirmPath, Path, Visits
  <2> QED
      BY <2>1, <2>2, <2>3, <2>4, <2>5
<1> QED
    BY <1>1, <1>2

(* The operations but a cancellation freeze the policy and leave a message *)
(* that waits for confirmations or for its release.                        *)
LEMMA PathsFreeze ==
    ASSUME NEW s \in ReleaseState, NEW q \in BOOLEAN, NEW path,
           path = OwnerPath \/ path = ConfirmPath(s, q), path # <<>>
    PROVE  /\ ~ Visits(path, {"CANCELLED"})
           /\ Visits(path, Freezing)
           /\ path[Len(path)] \in {"VERIFICATION_REQUIRED", "RELEASE_PENDING"}
<1>1. \/ path = <<"VERIFICATION_REQUIRED">>
      \/ path = OwnerPath
      \/ path = <<"VERIFIED", "RELEASE_ELIGIBLE", "RELEASE_PENDING">>
      \/ path = <<"RELEASE_ELIGIBLE", "RELEASE_PENDING">>
  <2>1. CASE path = OwnerPath \/ s = "ACTIVE"
      BY <2>1 DEF ConfirmPath
  <2>2. CASE path = ConfirmPath(s, q) /\ s = "VERIFICATION_REQUIRED"
      BY <2>2 DEF ConfirmPath
  <2>3. CASE path = ConfirmPath(s, q) /\ s = "VERIFIED"
      BY <2>3 DEF ConfirmPath
  <2>4. CASE /\ path = ConfirmPath(s, q)
             /\ s \notin {"ACTIVE", "VERIFICATION_REQUIRED", "VERIFIED"}
      BY <2>4 DEF ConfirmPath
  <2> QED
      BY <2>1, <2>2, <2>3, <2>4
<1>2. CASE path = <<"VERIFICATION_REQUIRED">>
    BY <1>2 DEF Visits, Freezing
<1>3. CASE path = OwnerPath
    BY <1>3 DEF Visits, Freezing, OwnerPath
<1>4. CASE path = <<"VERIFIED", "RELEASE_ELIGIBLE", "RELEASE_PENDING">>
    BY <1>4 DEF Visits, Freezing
<1>5. CASE path = <<"RELEASE_ELIGIBLE", "RELEASE_PENDING">>
    BY <1>5 DEF Visits, Freezing
<1> QED
    BY <1>1, <1>2, <1>3, <1>4, <1>5

LEMMA LiteralPaths ==
    /\ <<"RELEASED">> \in Path
    /\ <<"CANCELLED">> \in Path
    /\ \A to \in ReleaseState : <<to>> \in Path
  BY DEF Path, ReleaseState

(* What counts once has counted for good, and only what has ever counted   *)
(* counts.                                                                 *)
LEMMA CountBound ==
    ASSUME NEW rows \in Seq(Confirmation), NEW people \in SUBSET Contacts
    PROVE  /\ IsFiniteSet(EverCounted(rows))
           /\ CountValid(rows, people) \in Nat
           /\ Cardinality(EverCounted(rows)) \in Nat
           /\ CountValid(rows, people) <= Cardinality(EverCounted(rows))
<1>1. IsFiniteSet(1..Len(rows))
    BY FS_Interval
<1>2. EverCounted(rows) \subseteq 1..Len(rows)
    BY DEF EverCounted
<1>3. IsFiniteSet(EverCounted(rows))
    BY <1>1, <1>2, FS_Subset
<1>4. Counted(rows, people) \subseteq EverCounted(rows)
    BY DEF Counted, EverCounted
<1> QED
    BY <1>3, <1>4, FS_Subset, FS_CardinalityType DEF CountValid

(* A table of confirmations that has kept its rows and the people named    *)
(* in them counts no fewer.                                                *)
LEMMA EverCountedGrows ==
    ASSUME NEW old \in Seq(Confirmation), NEW new \in Seq(Confirmation),
           Len(old) <= Len(new),
           \A i \in 1..Len(old) : /\ new[i].contact = old[i].contact
                                  /\ new[i].actor = old[i].actor
    PROVE  Cardinality(EverCounted(old)) <= Cardinality(EverCounted(new))
<1>1. EverCounted(old) \subseteq EverCounted(new)
    BY DEF EverCounted, SelfConfirmation
<1>2. IsFiniteSet(EverCounted(new))
    BY CountBound
<1> QED
    BY <1>1, <1>2, FS_Subset

LEMMA PolicyType ==
    ASSUME NEW p \in Policy
    PROVE  /\ p.release_condition \in ReleaseCondition
           /\ p.requested_at # NoDate => p.requested_at \in Nat
           /\ p.utc_offset \in Int
           /\ p.required_confirmations \in Nat
  BY DEF Policy

(* A satisfied policy is one whose condition holds, read as the stored     *)
(* date reads, for as many voices or more.                                 *)
LEMMA SatisfiedHolds ==
    ASSUME NEW p \in Policy, NEW t \in Nat, NEW d \in BOOLEAN,
           NEW n \in Nat, NEW k \in Nat, n <= k,
           PolicySatisfied(p, t, d, n)
    PROVE  ConditionHolds(p, t - p.utc_offset, d, k)
<1> USE PolicyType DEF PolicySatisfied, ConditionHolds
<1>1. CASE p.release_condition = "MANUAL"
    BY <1>1
<1>2. CASE p.release_condition = "SCHEDULED"
    BY <1>2 DEF Stored
<1>3. CASE p.release_condition = "ON_DEATH"
    BY <1>3
<1>4. CASE p.release_condition = "TRUSTED_CONSENSUS"
    BY <1>4
<1> QED
    BY <1>1, <1>2, <1>3, <1>4 DEF ReleaseCondition

(* A condition that holds goes on holding.                                 *)
LEMMA HoldsForever ==
    ASSUME NEW p \in Policy, NEW t1 \in Nat, NEW t2 \in Nat, t1 <= t2,
           NEW d1 \in BOOLEAN, NEW d2 \in BOOLEAN, d1 => d2,
           NEW n1 \in Nat, NEW n2 \in Nat, n1 <= n2,
           ConditionHolds(p, t1 - p.utc_offset, d1, n1)
    PROVE  ConditionHolds(p, t2 - p.utc_offset, d2, n2)
<1> USE PolicyType DEF ConditionHolds
<1>1. CASE p.release_condition = "MANUAL"
    BY <1>1
<1>2. CASE p.release_condition = "SCHEDULED"
    BY <1>2
<1>3. CASE p.release_condition = "ON_DEATH"
    BY <1>3
<1>4. CASE p.release_condition = "TRUSTED_CONSENSUS"
    BY <1>4
<1> QED
    BY <1>1, <1>2, <1>3, <1>4 DEF ReleaseCondition

LEMMA HoldsBoolean ==
    ASSUME NEW p \in Policy, NEW t \in Int, NEW d \in BOOLEAN, NEW n \in Nat
    PROVE  ConditionHolds(p, t, d, n) \in BOOLEAN
<1> USE PolicyType DEF ConditionHolds
<1>1. CASE p.release_condition = "MANUAL"
    BY <1>1
<1>2. CASE p.release_condition = "SCHEDULED"
    BY <1>2
<1>3. CASE p.release_condition = "ON_DEATH"
    BY <1>3
<1>4. CASE p.release_condition = "TRUSTED_CONSENSUS"
    BY <1>4
<1> QED
    BY <1>1, <1>2, <1>3, <1>4 DEF ReleaseCondition

=============================================================================
