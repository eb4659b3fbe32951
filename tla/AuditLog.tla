------------------------------- MODULE AuditLog -------------------------------
(***************************************************************************)
(* The audit trail: log_action and verify_audit_chain of services/audit.py *)
(* as the endpoints of main.py and the release engine call them, in        *)
(* concurrent requests, each with a database session of its own.           *)
(*                                                                         *)
(* Two kinds of caller are told apart.  The release engine adds its entry  *)
(* to the transaction of the change it describes (commit=False); the other *)
(* endpoints commit their change first and log it in a second transaction. *)
(*                                                                         *)
(* An entry is its created_at, which no two entries share, and its         *)
(* prev_hash.  The hash of an entry covers its id, so it stands for that   *)
(* entry alone and is identified with its created_at; 0 is no entry.       *)
(***************************************************************************)
EXTENDS Integers, FiniteSets

CONSTANTS
    Workers,        \* the threads that serve requests
    Limit,          \* how many entries verify_audit_chain looks at
    MaxChanges,     \* bound of the number of audited changes
    MaxTime         \* bound of the clock

ASSUME AuditAssumption ==
    /\ IsFiniteSet(Workers)
    /\ Limit \in Nat
    /\ MaxChanges \in Nat
    /\ MaxTime \in Nat

VARIABLES
    logs,           \* the rows of audit_logs
    changes,        \* how many changes that are to be audited are committed
    clock,          \* the last instant an entry was stamped with
    request         \* the request each worker is serving

vars == <<logs, changes, clock, request>>

Entry == [created_at : Nat, prev_hash : Nat]

(* changed: the change is committed, nothing is logged yet; linked: the    *)
(* last entry is read; stamped: the entry is added to the session.         *)
Phase == {"changed", "linked", "stamped"}

Request == [phase      : Phase,
            changed    : BOOLEAN,   \* is the change committed already?
            prev_hash  : Nat,
            created_at : Nat]

Idle == [phase |-> "idle"]

TypeOK ==
    /\ logs \subseteq Entry
    /\ changes \in 0..MaxChanges
    /\ clock \in 0..MaxTime
    /\ request \in [Workers -> Request \cup {Idle}]

Init ==
    /\ logs = {}
    /\ changes = 0
    /\ clock = 0
    /\ request = [w \in Workers |-> Idle]

-----------------------------------------------------------------------------

(* The entry with the greatest created_at of some entries, or 0.           *)
Latest(entries) ==
    IF entries = {} THEN 0
    ELSE CHOOSE t \in {e.created_at : e \in entries} :
            \A e \in entries : e.created_at <= t

(* An endpoint that logs afterwards commits its change.                    *)
CommitChange(w) ==
    /\ request[w] = Idle
    /\ changes < MaxChanges
    /\ changes' = changes + 1
    /\ request' = [request EXCEPT ![w] =
          [phase |-> "changed", changed |-> TRUE, prev_hash |-> 0, created_at |-> 0]]
    /\ UNCHANGED <<logs, clock>>

(* An endpoint that logs within its transaction has its change in hand.    *)
BeginChange(w) ==
    /\ request[w] = Idle
    /\ request' = [request EXCEPT ![w] =
          [phase |-> "changed", changed |-> FALSE, prev_hash |-> 0, created_at |-> 0]]
    /\ UNCHANGED <<logs, changes, clock>>

Link(w, prev) ==
    /\ request[w].phase = "changed"
    /\ request' = [request EXCEPT ![w].phase = "linked", ![w].prev_hash = prev]
    /\ UNCHANGED <<logs, changes, clock>>

(* Fault: the entries are sorted the wrong way round. *)
LinkFirst(w) ==
    Link(w, IF logs = {} THEN 0
            ELSE CHOOSE t \in {e.created_at : e \in logs} :
                    \A e \in logs : t <= e.created_at)

(* Fault: one before the last. *)
LinkOffByOne(w) == Link(w, Latest(logs) - 1)

(* log_action reads the last entry ...                                     *)
LinkLast(w) == Link(w, Latest(logs))

(* ... and then stamps its own with the time.                              *)
Stamp(w) ==
    /\ request[w].phase = "linked"
    /\ clock < MaxTime
    /\ clock' = clock + 1
    /\ request' = [request EXCEPT ![w].phase = "stamped",
                                  ![w].created_at = clock + 1]
    /\ UNCHANGED <<logs, changes>>

(* Fault: the last entry is looked up when the row is written.             *)
LinkAtCommit(w) ==
    LET r == request[w]
    IN  /\ r.phase = "stamped"
        /\ r.changed \/ changes < MaxChanges
        /\ logs' = logs \cup {[created_at |-> r.created_at,
                               prev_hash |-> Latest(logs)]}
        /\ changes' = IF r.changed THEN changes ELSE changes + 1
        /\ request' = [request EXCEPT ![w] = Idle]
        /\ UNCHANGED clock

(* Fault: log_action commits, the change it was to go with is rolled back. *)
CommitEntryAlone(w) ==
    LET r == request[w]
    IN  /\ r.phase = "stamped"
        /\ logs' = logs \cup {[created_at |-> r.created_at,
                               prev_hash |-> r.prev_hash]}
        /\ request' = [request EXCEPT ![w] = Idle]
        /\ UNCHANGED <<changes, clock>>

(* The entry is committed, with the change it describes unless that is     *)
(* committed already.                                                      *)
CommitEntry(w) ==
    LET r == request[w]
    IN  /\ r.phase = "stamped"
        /\ r.changed \/ changes < MaxChanges
        /\ logs' = logs \cup {[created_at |-> r.created_at,
                               prev_hash |-> r.prev_hash]}
        /\ changes' = IF r.changed THEN changes ELSE changes + 1
        /\ request' = [request EXCEPT ![w] = Idle]
        /\ UNCHANGED clock

(* An error, a locked database, a restart of the server.                   *)
Abort(w) == /\ request[w] # Idle
            /\ request' = [request EXCEPT ![w] = Idle]
            /\ UNCHANGED <<logs, changes, clock>>

Serve(w) ==
    \/ CommitChange(w)
    \/ BeginChange(w)
    \/ LinkLast(w)
    \/ Stamp(w)
    \/ CommitEntry(w)
    \/ Abort(w)

Next == \E w \in Workers : Serve(w)

Spec == Init /\ [][Next]_vars

-----------------------------------------------------------------------------
(* What holds whatever the interleaving *)

Following(t) == {e \in logs : e.prev_hash = t}

(* The chain forks no wider than the server: an entry, or the beginning,   *)
(* is the predecessor of at most one entry per request in flight           *)
(* (log_action).                                                           *)
ForksBounded ==
    \A t \in {0} \cup {e.created_at : e \in logs} :
        Cardinality(Following(t)) <= Cardinality(Workers)

(* Whatever forks, the entries are a tree: every one follows an entry that *)
(* is stored and older, so a walk along prev_hash ends at the beginning.   *)
LeadsBack ==
    \A e \in logs : \/ e.prev_hash = 0
                    \/ \E f \in logs : /\ f.created_at = e.prev_hash
                                       /\ f.created_at < e.created_at

InHand == {w \in Workers : request[w] # Idle /\ request[w].changed}

(* No entry records a change that did not happen: there is a committed     *)
(* change of its own behind every entry, whatever fails between the two    *)
(* transactions of an endpoint.                                            *)
EntriesAreReal == Cardinality(logs) + Cardinality(InHand) <= changes

(* What one request at a time guarantees, and concurrent requests do not   *)

Before(e) == {f \in logs : f.created_at < e.created_at}

(* verify_audit_chain: each of the first Limit entries by created_at names *)
(* the one before it.  Entries are never updated, so their hashes match.   *)
VerifyAuditChain ==
    \A e \in logs : Cardinality(Before(e)) < Limit => e.prev_hash = Latest(Before(e))

=============================================================================
