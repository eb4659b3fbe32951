--------------------------- MODULE ReleaseRequests ---------------------------
(***************************************************************************)
(* The release endpoints of main.py as the server runs them: every HTTP    *)
(* request is a worker thread with a SQLAlchemy session of its own         *)
(* (database.py), and requests interleave between their queries.           *)
(*                                                                         *)
(* Queries read what is committed at that moment, as pysqlite opens no     *)
(* transaction for a SELECT; everything a request writes is flushed by its *)
(* db.commit(), in one step; the message is the row the session loaded     *)
(* first, whatever is committed later.  A request that raises, that finds  *)
(* the database locked or that dies with the server leaves nothing behind. *)
(***************************************************************************)
EXTENDS ReleaseEngine

CONSTANTS
    Policies,       \* the policies messages are created with
    Workers,        \* the threads that serve requests
    NoContact,      \* the contact of a request that names none
    MaxTime         \* bound of the clock

ASSUME RequestsAssumption ==
    /\ Policies \subseteq Policy
    /\ MaxTime \in Nat
    /\ NoContact \notin Contacts
    /\ IsFiniteSet(Workers)

VARIABLES
    policy,         \* release_condition and its parameters; never updated
    msg,            \* the columns of legacy_messages the engine writes
    confirmations,  \* release_confirmations of the message
    history,        \* release_state_transitions of the message
    contacts,       \* family_members of the owner
    now,            \* utcnow()
    death,          \* is there a VERIFIED life event of category DEATH?
    request         \* the request each worker is serving

vars == <<policy, msg, confirmations, history, contacts, now, death, request>>

database == <<policy, msg, confirmations, history, contacts, now, death>>

Operation == {"confirm", "owner_request", "finalize", "cancel", "delete_family"}

(* How far a request is: the message is loaded, the contact has been       *)
(* looked up, the first check has passed, only the commit is left.         *)
Phase == {"loaded", "admitted", "checked", "ready"}

Request == [op      : Operation,
            user    : Users,
            contact : Contacts \cup {NoContact},
            phase   : Phase,
            loaded  : Message,    \* msg in the identity map of the session
            path    : Path,       \* the transition() calls made on it
            votes   : SUBSET Nat] \* the confirmations loaded to be revoked

Idle == [phase |-> "idle"]

Transition == [from : ReleaseState, to : ReleaseState]

TypeOK ==
    /\ policy \in Policy
    /\ msg \in Message
    /\ confirmations \in Seq(Confirmation)
    /\ history \in Seq(Transition)
    /\ contacts \subseteq Contacts
    /\ now \in 0..MaxTime
    /\ death \in BOOLEAN
    /\ request \in [Workers -> Request \cup {Idle}]

Init ==
    /\ policy \in Policies
    /\ msg = NewMessage
    /\ confirmations = <<>>
    /\ history = <<>>
    /\ contacts = Contacts
    /\ now = 0
    /\ death = FALSE
    /\ request = [w \in Workers |-> Idle]

-----------------------------------------------------------------------------
(* Steps of a request before its commit; they write nothing. *)

Satisfied == PolicySatisfied(policy, now, death, CountValid(confirmations, contacts))

At(w, op, phase) == request[w].phase = phase /\ request[w].op = op

Continue(w, phase, path, votes) ==
    /\ request' = [request EXCEPT ![w].phase = phase, ![w].path = path,
                                  ![w].votes = votes]
    /\ UNCHANGED database

(* Who gets past the authorization checks of the endpoint.  The owner's    *)
(* /release is always a request, an administrator's always a finalize.     *)
Authorized(op, u, c) ==
    CASE op = "confirm" -> /\ c \in Contacts
                           /\ u # Owner
                           /\ RelatedUser[c] = u \/ u \in Admins
      [] op = "delete_family" -> c \in Contacts /\ u = Owner
      [] op = "owner_request" -> c = NoContact /\ u = Owner
      [] op = "finalize" -> c = NoContact /\ u \in Admins \ {Owner}
      [] op = "cancel" -> c = NoContact /\ u \in Admins \cup {Owner}

(* A request arrives and, but to delete a contact, loads the message.      *)
Load(w, op, u, c) ==
    /\ request[w] = Idle
    /\ Authorized(op, u, c)
    /\ request' = [request EXCEPT ![w] =
          [op |-> op, user |-> u, contact |-> c, phase |-> "loaded",
           loaded |-> IF op = "delete_family" THEN NewMessage ELSE msg, path |-> <<>>, votes |-> {}]]
    /\ UNCHANGED database

(* confirm, delete_family: the contact is one of the owner's and, to       *)
(* confirm, a trusted one who is not the owner.                            *)
AdmitContact(w) ==
    /\ request[w].phase = "loaded"
    /\ request[w].contact \in contacts
    /\ request[w].op = "confirm" => MayVouch(request[w].contact, request[w].user)
    /\ Continue(w, "admitted", <<>>, {})

(* Fault: no duplicate check. *)
SkipDuplicateCheck(w) ==
    /\ At(w, "confirm", "admitted")
    /\ request[w].loaded.release_state \notin {"RELEASED", "CANCELLED"}
    /\ Continue(w, "checked", <<>>, {})

(* confirm: add_confirmation finds no valid confirmation of the contact.   *)
CheckDuplicate(w) ==
    /\ At(w, "confirm", "admitted")
    /\ ~ HasValid(confirmations, request[w].contact)
    /\ request[w].loaded.release_state \notin {"RELEASED", "CANCELLED"}
    /\ Continue(w, "checked", <<>>, {})

(* confirm: the votes are counted and the path chosen.  The session does   *)
(* not flush before it queries: its own confirmation is not counted.       *)
CountVotes(w) ==
    LET path == ConfirmPath(request[w].loaded.release_state,
                    QuorumAdvances(policy, CountValid(confirmations, contacts)))
    IN  /\ At(w, "confirm", "checked")
        /\ Permitted(request[w].loaded.release_state, path)
        /\ Continue(w, "ready", path, {})

(* owner_request: the condition is satisfied and the message was ACTIVE.   *)
EvaluateRequest(w) ==
    /\ At(w, "owner_request", "loaded")
    /\ Satisfied
    /\ request[w].loaded.release_state = "ACTIVE"
    /\ Permitted("ACTIVE", OwnerPath)
    /\ Continue(w, "ready", OwnerPath, {})

(* finalize: finalize_release evaluates the condition ...                  *)
EvaluateFinalize(w) ==
    /\ At(w, "finalize", "loaded")
    /\ request[w].loaded.release_state = "RELEASE_PENDING"
    /\ Satisfied
    /\ Continue(w, "checked", <<>>, {})

(* ... and transition() evaluates it again.                                *)
EvaluateRelease(w) ==
    /\ At(w, "finalize", "checked")
    /\ Satisfied
    /\ Permitted(request[w].loaded.release_state, <<"RELEASED">>)
    /\ Continue(w, "ready", <<"RELEASED">>, {})

(* cancel: the valid confirmations are loaded to be revoked.               *)
LoadVotes(w) ==
    /\ At(w, "cancel", "loaded")
    /\ request[w].loaded.release_state # "RELEASED"
    /\ Permitted(request[w].loaded.release_state, <<"CANCELLED">>)
    /\ Continue(w, "ready", <<"CANCELLED">>,
                {i \in DOMAIN confirmations : confirmations[i].is_valid})

(* delete_family: the contact has no confirmations to detach.              *)
LoadChildren(w) ==
    /\ At(w, "delete_family", "admitted")
    /\ \A i \in DOMAIN confirmations :
          confirmations[i].contact # request[w].contact
    /\ Continue(w, "ready", <<>>, {})

-----------------------------------------------------------------------------
(* Commits. *)

(* External: the UPDATE of a flush sets the columns the session changed    *)
(* and leaves the others as stored; there is no version check.             *)
Flush(stored, loaded, new) ==
    [stored EXCEPT
        !.release_state = IF new.release_state # loaded.release_state
                          THEN new.release_state ELSE @,
        !.is_released   = IF new.is_released # loaded.is_released
                          THEN new.is_released ELSE @,
        !.policy_frozen = IF new.policy_frozen # loaded.policy_frozen
                          THEN new.policy_frozen ELSE @]

(* Fault: policy_frozen is not among the columns written. *)
WriteForgetsFreeze(r) ==
    /\ msg' = [Flush(msg, r.loaded, Walk(r.loaded, r.path))
                  EXCEPT !.policy_frozen = msg.policy_frozen]
    /\ history' = history \o Record(r.loaded.release_state, r.path)

(* The message and its history, as a session flushes them. *)
WriteMessage(r) ==
    /\ msg' = Flush(msg, r.loaded, Walk(r.loaded, r.path))
    /\ history' = history \o Record(r.loaded.release_state, r.path)

Done(w) == request' = [request EXCEPT ![w] = Idle]

(* Fault: the user is recorded instead of the contact. *)
CommitConfirmSwapsIds(w) ==
    LET r == request[w]
    IN  /\ At(w, "confirm", "ready")
        /\ WriteMessage(r)
        /\ confirmations' = Append(confirmations, NewConfirmation(r.user, r.user))
        /\ Done(w)
        /\ UNCHANGED <<policy, contacts, now, death>>

(* The confirmation, and the transitions it brought about. *)
CommitConfirm(w) ==
    LET r == request[w]
    IN  /\ At(w, "confirm", "ready")
        /\ WriteMessage(r)
        /\ confirmations' = Append(confirmations, NewConfirmation(r.contact, r.user))
        /\ Done(w)
        /\ UNCHANGED <<policy, contacts, now, death>>

(* owner_request, finalize *)
CommitTransitions(w) ==
    /\ At(w, "owner_request", "ready") \/ At(w, "finalize", "ready")
    /\ WriteMessage(request[w])
    /\ Done(w)
    /\ UNCHANGED <<policy, confirmations, contacts, now, death>>

(* Fault: the confirmations stay valid. *)
RevokesNothing(w) ==
    /\ At(w, "cancel", "ready")
    /\ WriteMessage(request[w])
    /\ Done(w)
    /\ UNCHANGED <<policy, confirmations, contacts, now, death>>

(* The cancellation, and the confirmations it had loaded. *)
CommitCancel(w) ==
    /\ At(w, "cancel", "ready")
    /\ WriteMessage(request[w])
    /\ confirmations' = [i \in DOMAIN confirmations |->
          IF i \in request[w].votes
          THEN [confirmations[i] EXCEPT !.is_valid = FALSE]
          ELSE confirmations[i]]
    /\ Done(w)
    /\ UNCHANGED <<policy, contacts, now, death>>

CommitDelete(w) ==
    /\ At(w, "delete_family", "ready")
    /\ contacts' = contacts \ {request[w].contact}
    /\ Done(w)
    /\ UNCHANGED <<policy, msg, confirmations, history, now, death>>

(* A refusal, an error, a locked database, a restart of the server.        *)
Abort(w) == /\ request[w] # Idle
            /\ Done(w)
            /\ UNCHANGED database

(* External: the clock, and whoever verifies the death of the owner.       *)
Tick == /\ now < MaxTime
        /\ now' = now + 1
        /\ UNCHANGED <<policy, msg, confirmations, history, contacts, death, request>>

VerifyDeath == /\ ~ death
               /\ death' = TRUE
               /\ UNCHANGED <<policy, msg, confirmations, history, contacts, now,
                              request>>

-----------------------------------------------------------------------------

Read(w) ==
    \/ \E op \in Operation, u \in Users, c \in Contacts \cup {NoContact} :
          Load(w, op, u, c)
    \/ AdmitContact(w)
    \/ CheckDuplicate(w)
    \/ CountVotes(w)
    \/ EvaluateRequest(w)
    \/ EvaluateFinalize(w)
    \/ EvaluateRelease(w)
    \/ LoadVotes(w)
    \/ LoadChildren(w)

Commit(w) ==
    \/ CommitConfirm(w)
    \/ CommitTransitions(w)
    \/ CommitCancel(w)
    \/ CommitDelete(w)

Next ==
    \/ \E w \in Workers : Read(w) \/ Commit(w) \/ Abort(w)
    \/ Tick
    \/ VerifyDeath

Spec == Init /\ [][Next]_vars

-----------------------------------------------------------------------------
(* What holds whatever the interleaving *)

(* The condition has been satisfied at some instant so far: the date       *)
(* stored has come, the death was verified, as many confirmations as       *)
(* required were recorded, revoked since or not.                           *)
Met == ConditionHolds(policy, now - policy.utc_offset, death,
                      Cardinality(EverCounted(confirmations)))

Contract == INSTANCE ReleaseContract WITH met <- Met, released <- msg.is_released

(* Concurrent requests keep the contract of the engine                     *)
(* (release_engine.py:4-6): what a finalize evaluated and what it commits  *)
(* may be far apart, but no interleaving releases a message whose          *)
(* condition was never satisfied, or takes is_released back.               *)
KeepsContract == Contract!Spec

ValidRows(c) == {i \in DOMAIN confirmations :
                    confirmations[i].contact = c /\ confirmations[i].is_valid}

(* The duplicate check of add_confirmation bounds, without any lock, the   *)
(* valid confirmations of a contact by the number of requests in flight at *)
(* once: one, if requests are served one by one.                           *)
DuplicatesBounded ==
    \A c \in Contacts : Cardinality(ValidRows(c)) <= Cardinality(Workers)

InPipeline(s) == s \in {"VERIFICATION_REQUIRED", "VERIFIED", "RELEASE_ELIGIBLE",
                        "RELEASE_PENDING", "RELEASED", "FAILED"}

EverCancelled == \E i \in DOMAIN history : history[i].to = "CANCELLED"

(* Until somebody cancels, no race leaves a message in the pipeline with   *)
(* its policy thawed, or frozen outside it (transition()).                 *)
FrozenUntilCancel ==
    ~ EverCancelled => (msg.policy_frozen <=> InPipeline(msg.release_state))

-----------------------------------------------------------------------------
(* What one request at a time guarantees, and concurrent requests do not   *)

Workflow == INSTANCE ReleaseWorkflow
    WITH Autoflush <- FALSE, DirectTargets <- {}, ForceArgs <- {}, MaxHistory <- 0

(* Served one by one, requests do what the calls of the service layer do:  *)
(* the steps of a request amount to one call, or to none.                  *)
ServesWorkflow == Workflow!Spec

(* V2_SECURITY.md:52: RELEASED is terminal. *)
ReleasedForGood == Workflow!ReleasedForGood

=============================================================================
