--------------------------- MODULE ReleaseWorkflow ---------------------------
(***************************************************************************)
(* The service layer, services/release_engine.py, one call at a time: each *)
(* action is one whole call followed by the commit its callers make.  A    *)
(* call that raises ReleaseError is rolled back and changes nothing, so it *)
(* is an action that is not enabled.  What concurrent requests make of     *)
(* these calls is the subject of ReleaseRequests.                          *)
(***************************************************************************)
EXTENDS ReleaseEngine

CONSTANTS
    Policies,       \* the policies messages are created with
    Autoflush,      \* does the session flush before it queries?
    DirectTargets,  \* states transition() is called with directly
    ForceArgs,      \* values of its force_admin argument
    MaxTime,        \* bound of the clock
    MaxHistory      \* bound of the history under direct calls

ASSUME WorkflowAssumption ==
    /\ Policies \subseteq Policy
    /\ Autoflush \in BOOLEAN
    /\ DirectTargets \subseteq ReleaseState
    /\ ForceArgs \subseteq BOOLEAN
    /\ MaxTime \in Nat
    /\ MaxHistory \in Nat

VARIABLES
    policy,         \* release_condition and its parameters; never updated
    msg,            \* the columns of legacy_messages the engine writes
    confirmations,  \* release_confirmations of the message
    history,        \* release_state_transitions of the message
    contacts,       \* family_members of the owner
    now,            \* utcnow()
    death           \* is there a VERIFIED life event of category DEATH?

vars == <<policy, msg, confirmations, history, contacts, now, death>>

Transition == [from : ReleaseState, to : ReleaseState]

TypeOK ==
    /\ policy \in Policy
    /\ msg \in Message
    /\ confirmations \in Seq(Confirmation)
    /\ history \in Seq(Transition)
    /\ contacts \subseteq Contacts
    /\ now \in 0..MaxTime
    /\ death \in BOOLEAN

Init ==
    /\ policy \in Policies
    /\ msg = NewMessage
    /\ confirmations = <<>>
    /\ history = <<>>
    /\ contacts = Contacts
    /\ now = 0
    /\ death = FALSE

-----------------------------------------------------------------------------

Votes == CountValid(confirmations, contacts)

Satisfied == PolicySatisfied(policy, now, death, Votes)

(* Fault: the state is read after the transition when it is recorded.      *)
RecordsNewState(path) ==
    /\ msg' = Walk(msg, path)
    /\ history' = history \o Record(msg'.release_state, path)

(* The transition() calls of an operation, as they affect the message. *)
Follow(path) ==
    /\ msg' = Walk(msg, path)
    /\ history' = history \o Record(msg.release_state, path)

(* owner_request_release *)
OwnerRequest ==
    /\ Satisfied
    /\ msg.release_state = "ACTIVE"
    /\ Permitted(msg.release_state, OwnerPath)
    /\ Follow(OwnerPath)
    /\ UNCHANGED <<policy, confirmations, contacts, now, death>>

(* Fault: no duplicate check. *)
ConfirmTwice(c, u) ==
    /\ c \in contacts
    /\ MayVouch(c, u)
    /\ msg.release_state \notin {"RELEASED", "CANCELLED"}
    /\ Len(confirmations) < 4
    /\ confirmations' = Append(confirmations, NewConfirmation(c, u))
    /\ Follow(ConfirmPath(msg.release_state, QuorumAdvances(policy,
                  CountValid(confirmations', contacts))))
    /\ UNCHANGED <<policy, contacts, now, death>>

(* Fault: the linked user is recorded instead of the contact. *)
ConfirmSwapsIds(c, u) ==
    /\ c \in contacts
    /\ MayVouch(c, u)
    /\ ~ HasValid(confirmations, c)
    /\ msg.release_state \notin {"RELEASED", "CANCELLED"}
    /\ confirmations' = Append(confirmations, NewConfirmation(RelatedUser[c], u))
    /\ UNCHANGED <<policy, msg, history, contacts, now, death>>

(* trusted_confirm_and_maybe_release.  The confirmation is added to the    *)
(* session before the votes are counted, so the count includes it only if  *)
(* the session flushes before it queries.                                  *)
TrustedConfirm(c, u) ==
    LET added == Append(confirmations, NewConfirmation(c, u))
        seen  == IF Autoflush THEN added ELSE confirmations
        path  == ConfirmPath(msg.release_state,
                             QuorumAdvances(policy, CountValid(seen, contacts)))
    IN  /\ c \in contacts
        /\ MayVouch(c, u)
        /\ ~ HasValid(confirmations, c)
        /\ msg.release_state \notin {"RELEASED", "CANCELLED"}
        /\ Permitted(msg.release_state, path)
        /\ confirmations' = added
        /\ Follow(path)
        /\ UNCHANGED <<policy, contacts, now, death>>

(* finalize_release *)
Finalize(u) ==
    /\ u \in Admins \cup {Owner}
    /\ msg.release_state = "RELEASE_PENDING"
    /\ Satisfied
    /\ Permitted(msg.release_state, <<"RELEASED">>)
    /\ Follow(<<"RELEASED">>)
    /\ UNCHANGED <<policy, confirmations, contacts, now, death>>

(* Fault: the confirmations stay valid. *)
CancelKeepsVotes(u) ==
    /\ u \in Admins \cup {Owner}
    /\ msg.release_state # "RELEASED"
    /\ Permitted(msg.release_state, <<"CANCELLED">>)
    /\ Follow(<<"CANCELLED">>)
    /\ UNCHANGED <<policy, confirmations, contacts, now, death>>

(* cancel_release *)
Cancel(u) ==
    /\ u \in Admins \cup {Owner}
    /\ msg.release_state # "RELEASED"
    /\ Permitted(msg.release_state, <<"CANCELLED">>)
    /\ Follow(<<"CANCELLED">>)
    /\ confirmations' = Revoke(confirmations)
    /\ UNCHANGED <<policy, contacts, now, death>>

(* transition() called by itself, as operators and the tests call it. *)
Direct(to, force) ==
    /\ \/ Permitted(msg.release_state, <<to>>)
       \/ force /\ to # "RELEASED"
    /\ to = "RELEASED" => Satisfied
    /\ Len(history) < MaxHistory
    /\ Follow(<<to>>)
    /\ confirmations' = IF to = "CANCELLED" THEN Revoke(confirmations)
                        ELSE confirmations
    /\ UNCHANGED <<policy, contacts, now, death>>

(* delete_family.  A contact with confirmations cannot be deleted: the     *)
(* flush would set their NOT NULL trusted_contact_id to NULL.              *)
DeleteFamily(c) ==
    /\ c \in contacts
    /\ \A i \in DOMAIN confirmations : confirmations[i].contact # c
    /\ contacts' = contacts \ {c}
    /\ UNCHANGED <<policy, msg, confirmations, history, now, death>>

(* External: the clock, and whoever verifies the death of the owner; no    *)
(* endpoint does.                                                          *)
Tick == /\ now < MaxTime
        /\ now' = now + 1
        /\ UNCHANGED <<policy, msg, confirmations, history, contacts, death>>

VerifyDeath == /\ ~ death
               /\ death' = TRUE
               /\ UNCHANGED <<policy, msg, confirmations, history, contacts, now>>

-----------------------------------------------------------------------------

Next ==
    \/ OwnerRequest
    \/ \E c \in Contacts, u \in Users \cup {NoUser} : TrustedConfirm(c, u)
    \/ \E u \in Users : Finalize(u)
    \/ \E u \in Users : Cancel(u)
    \/ \E to \in DirectTargets, force \in ForceArgs : Direct(to, force)
    \/ \E c \in Contacts : DeleteFamily(c)
    \/ Tick
    \/ VerifyDeath

Spec == Init /\ [][Next]_vars

(* Somebody who may finalize a pending release keeps trying to.            *)
Fairness == WF_vars(\E u \in Users : Finalize(u))

FairSpec == Spec /\ Fairness

-----------------------------------------------------------------------------
(* Safety *)

(* A contact speaks once: however the calls are ordered, no two valid      *)
(* confirmations of a message come from the same contact, and none comes   *)
(* from the owner (add_confirmation, count_valid_confirmations).           *)
OneVoicePerContact ==
    \A i, j \in DOMAIN confirmations :
        /\ confirmations[i].is_valid => ~ SelfConfirmation(confirmations[i])
        /\ /\ confirmations[i].is_valid
           /\ confirmations[j].is_valid
           /\ confirmations[i].contact = confirmations[j].contact
           => i = j

(* The people who vouch for the release, whatever rows they left.          *)
Voices == {c \in contacts : HasValid(confirmations, c)}

(* How far west of UTC the owner wrote the date: the zone is dropped, so   *)
(* the date is taken for one that much earlier (release_engine.py:71).     *)
West == IF policy.utc_offset < 0 THEN - policy.utc_offset ELSE 0

(* No step of any caller, not even one that forces transitions, releases a *)
(* message whose condition does not hold: the owner is dead, enough        *)
(* distinct people vouch, or the date the owner asked for has come, but    *)
(* for a date written west of UTC, whose release may be early by its       *)
(* distance from UTC and by no more (release_engine.py:4-6, 71).           *)
ReleaseHonoursCondition ==
    [][msg'.is_released /\ ~ msg.is_released
          => ConditionHolds(policy, now + West, death, Cardinality(Voices))]_vars

(* Every recorded transition is an edge of the graph: so far, no caller    *)
(* has forced its way.                                                     *)
Unforced ==
    \A i \in DOMAIN history : history[i].to \in RELEASE_TRANSITIONS[history[i].from]

(* RELEASED is the end: unless a transition was forced, a released message *)
(* is in state RELEASED and nothing the engine does changes it again       *)
(* (V2_SECURITY.md:52).                                                    *)
ReleasedForGood ==
    [][Unforced' /\ msg.is_released
          => msg.release_state = "RELEASED" /\ UNCHANGED msg]_vars

InPipeline(s) == s \in {"VERIFICATION_REQUIRED", "VERIFIED", "RELEASE_ELIGIBLE",
                        "RELEASE_PENDING", "RELEASED", "FAILED"}

(* The policy is frozen exactly while a release is under way or done: the  *)
(* flag transition() sets and clears at some states only is right in all,  *)
(* whatever route of the graph led there.                                  *)
FrozenInPipeline ==
    Unforced => (msg.policy_frozen <=> InPipeline(msg.release_state))

(* The history replays: every row starts where the row before it ended,    *)
(* and the last one ends where the message is (_record_transition).        *)
HistoryReplays ==
    /\ \A i \in DOMAIN history :
          history[i].from = IF i = 1 THEN "ACTIVE" ELSE history[i - 1].to
    /\ msg.release_state =
          IF history = <<>> THEN "ACTIVE" ELSE history[Len(history)].to

(* Cancelling a release takes back every confirmation of it                *)
(* (V2_SECURITY.md:53), so none is left to count in the next round.        *)
CancelRevokes ==
    msg.release_state = "CANCELLED" =>
        \A i \in DOMAIN confirmations : ~ confirmations[i].is_valid

(* A quorum is acted upon: no message waits for verification with enough   *)
(* votes to go on (release_engine.py:349).                                 *)
QuorumActedUpon ==
    msg.release_state = "VERIFICATION_REQUIRED" => ~ QuorumAdvances(policy, Votes)

-----------------------------------------------------------------------------
(* Liveness *)

Over == msg.release_state \in {"RELEASED", "CANCELLED"}

(* A release is due: it is pending and its condition is satisfied, or      *)
(* enough contacts have confirmed it.                                      *)
Due == \/ msg.release_state = "RELEASE_PENDING" /\ Satisfied
       \/ QuorumAdvances(policy, Votes)

(* What is due is delivered without any request but finalizations, unless  *)
(* it is cancelled.  No confirmation may leave a message in a state that   *)
(* only further confirmations lead out of                                  *)
(* (trusted_confirm_and_maybe_release).                                    *)
DueDelivered == Due ~> Over

-----------------------------------------------------------------------------
(* Refinement: the engine keeps its contract. *)

(* The condition has been satisfied, now or at some earlier instant: the   *)
(* clock does not turn back, deaths are not unverified and confirmations   *)
(* are never deleted.  The date is the one stored, zone dropped.           *)
Met == ConditionHolds(policy, now - policy.utc_offset, death,
                      Cardinality(EverCounted(confirmations)))

Contract == INSTANCE ReleaseContract WITH met <- Met, released <- msg.is_released

(* The engine implements the contract: a message is released once, and     *)
(* only when its condition has been satisfied.                             *)
KeepsContract == Contract!Spec

=============================================================================
