---------------------------- MODULE ReleaseEngine ----------------------------
(***************************************************************************)
(* The tables of models.py and the computations of services/               *)
(* release_engine.py that the release modules share: the transition graph, *)
(* what a run of transition() calls does to a message, which confirmations *)
(* count, and when a release condition is satisfied.                       *)
(*                                                                         *)
(* One legacy message of one owner is modelled; messages share nothing but *)
(* the owner's contacts.  Titles, bodies, ids and released_at are left     *)
(* out.  A definition under the word Fault is a plausible mistake in the   *)
(* one that follows it.  No specification uses it: the runs are shown to   *)
(* detect it.                                                              *)
(***************************************************************************)
EXTENDS Integers, Sequences, FiniteSets

CONSTANTS
    Users,          \* every user identity
    Owner,          \* the user whose message this is
    Admins,         \* users with Role.ADMIN
    NoUser,         \* None, as an actor or a related user
    Contacts,       \* family members that may ever be named in a request
    Trusted,        \* those of the owner with is_trusted_contact set
    RelatedUser,    \* the user a contact is linked to, or NoUser
    NoDate          \* None, as a date

ASSUME PeopleAssumption ==
    /\ Owner \in Users
    /\ NoUser \notin Users
    /\ Admins \subseteq Users
    /\ Trusted \subseteq Contacts
    /\ RelatedUser \in [Contacts -> Users \cup {NoUser}]

-----------------------------------------------------------------------------
(* The release graph. *)

ReleaseState ==
    {"ACTIVE", "INACTIVITY_DETECTED", "GRACE_PERIOD", "VERIFICATION_REQUIRED",
     "VERIFIED", "RELEASE_ELIGIBLE", "RELEASE_PENDING", "RELEASED",
     "CANCELLED", "FAILED"}

RELEASE_TRANSITIONS == [s \in ReleaseState |->
    CASE s = "ACTIVE" -> {"INACTIVITY_DETECTED", "VERIFICATION_REQUIRED", "CANCELLED"}
      [] s = "INACTIVITY_DETECTED" -> {"GRACE_PERIOD", "CANCELLED"}
      [] s = "GRACE_PERIOD" -> {"VERIFICATION_REQUIRED", "ACTIVE", "CANCELLED"}
      [] s = "VERIFICATION_REQUIRED" -> {"VERIFIED", "FAILED", "CANCELLED"}
      [] s = "VERIFIED" -> {"RELEASE_ELIGIBLE", "CANCELLED"}
      [] s = "RELEASE_ELIGIBLE" -> {"RELEASE_PENDING", "CANCELLED"}
      [] s = "RELEASE_PENDING" -> {"RELEASED", "FAILED", "CANCELLED"}
      [] s = "RELEASED" -> {}
      [] s = "CANCELLED" -> {"ACTIVE"}
      [] s = "FAILED" -> {"VERIFICATION_REQUIRED", "CANCELLED"}]

Message == [release_state : ReleaseState,
            is_released   : BOOLEAN,
            policy_frozen : BOOLEAN]

NewMessage == [release_state |-> "ACTIVE", is_released |-> FALSE,
               policy_frozen |-> FALSE]

(* A path is the sequence of target states of the transition() calls one   *)
(* operation makes.  Before(s, path, i) is the state its i-th call finds.  *)
Path == Seq(ReleaseState)

Before(s, path, i) == IF i = 1 THEN s ELSE path[i - 1]

Permitted(s, path) ==
    \A i \in 1..Len(path) : path[i] \in RELEASE_TRANSITIONS[Before(s, path, i)]

(* The rows _record_transition adds for a path. *)
Record(s, path) ==
    [i \in 1..Len(path) |-> [from |-> Before(s, path, i), to |-> path[i]]]

Freezing == {"VERIFICATION_REQUIRED", "RELEASE_PENDING", "VERIFIED"}

Visits(path, states) == \E i \in 1..Len(path) : path[i] \in states

(* Fault: only the last state of the pipeline freezes the policy.          *)
FreezesAtPendingOnly(m, path) ==
    IF path = <<>> THEN m ELSE
    [release_state |-> path[Len(path)],
     is_released   |-> m.is_released \/ Visits(path, {"RELEASED"}),
     policy_frozen |-> /\ ~ Visits(path, {"CANCELLED"})
                       /\ m.policy_frozen \/ Visits(path, {"RELEASE_PENDING"})]

(* Fault: a message counts as released once its release is pending.        *)
ReleasesAtPending(m, path) ==
    IF path = <<>> THEN m ELSE
    [release_state |-> path[Len(path)],
     is_released   |-> m.is_released \/ Visits(path, {"RELEASE_PENDING"}),
     policy_frozen |-> /\ ~ Visits(path, {"CANCELLED"})
                       /\ m.policy_frozen \/ Visits(path, Freezing)]

(* What a path of transition() calls leaves in the message.  CANCELLED is  *)
(* only ever the whole of a path.                                          *)
Walk(m, path) ==
    IF path = <<>> THEN m ELSE
    [release_state |-> path[Len(path)],
     is_released   |-> m.is_released \/ Visits(path, {"RELEASED"}),
     policy_frozen |-> /\ ~ Visits(path, {"CANCELLED"})
                       /\ m.policy_frozen \/ Visits(path, Freezing)]

-----------------------------------------------------------------------------
(* Confirmations.  They are only ever inserted and revoked, so the table's *)
(* rows for the message are a sequence.                                    *)

Confirmation == [contact  : Contacts,
                 actor    : Users \cup {NoUser},
                 is_valid : BOOLEAN]

NewConfirmation(c, u) == [contact |-> c, actor |-> u, is_valid |-> TRUE]

(* The checks add_confirmation makes on the people involved. *)
MayVouch(c, u) == /\ c \in Trusted
                  /\ u # Owner
                  /\ RelatedUser[c] # Owner

HasValid(confirmations, c) ==
    \E i \in DOMAIN confirmations :
        confirmations[i].contact = c /\ confirmations[i].is_valid

Revoke(confirmations) ==
    [i \in DOMAIN confirmations |-> [confirmations[i] EXCEPT !.is_valid = FALSE]]

SelfConfirmation(row) == RelatedUser[row.contact] = Owner \/ row.actor = Owner

(* count_valid_confirmations: valid rows of contacts that still exist,     *)
(* without self-confirmations.                                             *)
Counted(confirmations, contacts) ==
    {i \in DOMAIN confirmations : /\ confirmations[i].is_valid
                                  /\ confirmations[i].contact \in contacts
                                  /\ ~ SelfConfirmation(confirmations[i])}

CountValid(confirmations, contacts) == Cardinality(Counted(confirmations, contacts))

(* Every confirmation that ever counted, revoked since or not.             *)
EverCounted(confirmations) ==
    {i \in DOMAIN confirmations : ~ SelfConfirmation(confirmations[i])}

-----------------------------------------------------------------------------
(* Release conditions. *)

ReleaseCondition == {"MANUAL", "SCHEDULED", "ON_DEATH", "TRUSTED_CONSENSUS"}

(* What the message was created with.  requested_at is the instant the     *)
(* owner asked for, utc_offset the offset of the zone it was written in.   *)
Policy == [release_condition      : ReleaseCondition,
           requested_at           : Nat \cup {NoDate},
           utc_offset             : Int,
           required_confirmations : Nat]

(* The DateTime column of SQLite keeps the wall clock and drops the zone.  *)
Stored(policy) == policy.requested_at + policy.utc_offset

(* Fault: one confirmation fewer than required is enough.                  *)
QuorumOffByOne(policy, now, death, n) ==
    \/ policy.release_condition = "MANUAL"
    \/ /\ policy.release_condition = "SCHEDULED"
       /\ policy.requested_at # NoDate
       /\ Stored(policy) <= now
    \/ /\ policy.release_condition = "ON_DEATH"
       /\ death
    \/ /\ policy.release_condition = "TRUSTED_CONSENSUS"
       /\ n + 1 >= policy.required_confirmations

(* _policy_satisfied, given the clock, whether a VERIFIED life event of    *)
(* category DEATH exists, and the count of valid confirmations.            *)
PolicySatisfied(policy, now, death, n) ==
    \/ policy.release_condition = "MANUAL"
    \/ /\ policy.release_condition = "SCHEDULED"
       /\ policy.requested_at # NoDate
       /\ Stored(policy) <= now
    \/ /\ policy.release_condition = "ON_DEATH"
       /\ death
    \/ /\ policy.release_condition = "TRUSTED_CONSENSUS"
       /\ n >= policy.required_confirmations

(* The condition as the owner stated it, for the properties.  clock is     *)
(* compared with the instant the owner asked for, voices with the quorum.  *)
ConditionHolds(policy, clock, death, voices) ==
    CASE policy.release_condition = "MANUAL" -> TRUE
      [] policy.release_condition = "SCHEDULED" ->
            policy.requested_at # NoDate /\ policy.requested_at <= clock
      [] policy.release_condition = "ON_DEATH" -> death
      [] policy.release_condition = "TRUSTED_CONSENSUS" ->
            voices >= policy.required_confirmations

-----------------------------------------------------------------------------
(* The paths of the operations. *)

OwnerPath == <<"VERIFICATION_REQUIRED", "VERIFIED", "RELEASE_ELIGIBLE",
               "RELEASE_PENDING">>

(* The confirmations advance a message only under these two conditions.    *)
QuorumAdvances(policy, n) ==
    /\ n >= policy.required_confirmations
    /\ policy.release_condition \in {"TRUSTED_CONSENSUS", "MANUAL"}

(* Fault: the quorum makes a message eligible, and leaves it there.        *)
StopsAtEligible(s, quorum) ==
    CASE s = "ACTIVE" /\ ~ quorum -> <<"VERIFICATION_REQUIRED">>
      [] s = "ACTIVE" /\ quorum -> <<"VERIFICATION_REQUIRED", "VERIFIED",
                                    "RELEASE_ELIGIBLE">>
      [] s = "VERIFICATION_REQUIRED" /\ quorum -> <<"VERIFIED", "RELEASE_ELIGIBLE">>
      [] OTHER -> <<>>

(* trusted_confirm_and_maybe_release from state s.                         *)
ConfirmPath(s, quorum) ==
    CASE s = "ACTIVE" /\ ~ quorum -> <<"VERIFICATION_REQUIRED">>
      [] s = "ACTIVE" /\ quorum -> OwnerPath
      [] s = "VERIFICATION_REQUIRED" /\ quorum ->
            <<"VERIFIED", "RELEASE_ELIGIBLE", "RELEASE_PENDING">>
      [] s = "VERIFIED" /\ quorum -> <<"RELEASE_ELIGIBLE", "RELEASE_PENDING">>
      [] OTHER -> <<>>

=============================================================================
