---------------------------- MODULE AuditLogProofs ----------------------------
(***************************************************************************)
(* Proofs about AuditLog, for any number of threads and entries: however   *)
(* requests interleave and wherever they fail, the entries are a tree of   *)
(* bounded width, and each of them records a change that was committed.    *)
(***************************************************************************)
EXTENDS MCAuditLog, FiniteSetTheorems, TLAPS

(* The workers that satisfy something are finitely many, at most all.      *)
LEMMA SomeWorkers ==
    ASSUME NEW S \in SUBSET Workers
    PROVE  /\ IsFiniteSet(S)
           /\ Cardinality(S) \in Nat
           /\ Cardinality(S) <= Cardinality(Workers)
  BY AuditAssumption, FS_Subset, FS_CardinalityType

LEMMA OneMore ==
    ASSUME NEW S, NEW x, IsFiniteSet(S)
    PROVE  /\ IsFiniteSet(S \cup {x})
           /\ Cardinality(S) \in Nat /\ Cardinality(S \cup {x}) \in Nat
           /\ Cardinality(S \cup {x}) <= Cardinality(S) + 1
  BY FS_AddElement, FS_CardinalityType

LEMMA OneLess ==
    ASSUME NEW S, NEW x \in S, IsFiniteSet(S)
    PROVE  /\ IsFiniteSet(S \ {x})
           /\ Cardinality(S) \in Nat /\ Cardinality(S \ {x}) \in Nat
           /\ Cardinality(S \ {x}) = Cardinality(S) - 1
  BY FS_RemoveElement, FS_CardinalityType

-----------------------------------------------------------------------------
(* Types *)

(* The last entry, of some that have one.                                  *)
HaveLast(entries) ==
    entries = {} \/ \E e \in entries : \A f \in entries : f.created_at <= e.created_at

LEMMA LatestIsLast ==
    ASSUME NEW entries \in SUBSET Entry, HaveLast(entries)
    PROVE  /\ Latest(entries) \in Nat
           /\ \A e \in entries : e.created_at <= Latest(entries)
           /\ entries # {} => \E e \in entries : e.created_at = Latest(entries)
           /\ entries = {} => Latest(entries) = 0
<1>1. CASE entries = {}
    BY <1>1 DEF Latest
<1>2. CASE entries # {}
  <2> DEFINE times == {e.created_at : e \in entries}
             Last(t) == \A e \in entries : e.created_at <= t
  <2>1. \E t \in times : Last(t)
      BY <1>2 DEF HaveLast
  <2>2. Latest(entries) = CHOOSE t \in times : Last(t)
      BY <1>2 DEF Latest
  <2>3. Latest(entries) \in times /\ Last(Latest(entries))
    <3> HIDE DEF times, Last
    <3> QED
        BY <2>1, <2>2
  <2> QED
      BY <1>2, <2>3 DEF Entry
<1> QED
    BY <1>1, <1>2

(* The entries are finite in number, none is younger than the clock, and   *)
(* no two requests in flight have one stamp.                               *)
Ordered ==
    /\ IsFiniteSet(logs)
    /\ HaveLast(logs)
    /\ \A e \in logs : e.created_at <= clock
    /\ \A e \in logs : \/ e.prev_hash = 0
                       \/ \E f \in logs : f.created_at = e.prev_hash
    /\ \A e \in logs : e.prev_hash < e.created_at
    /\ \A w \in Workers : request[w].phase \in {"linked", "stamped"} =>
          \/ request[w].prev_hash = 0
          \/ \E f \in logs : f.created_at = request[w].prev_hash
    /\ \A w \in Workers : request[w].phase = "stamped" =>
          /\ request[w].prev_hash < request[w].created_at
          /\ request[w].created_at <= clock
          /\ \A e \in logs : e.created_at # request[w].created_at
    /\ \A v, w \in Workers :
          /\ request[v].phase = "stamped" /\ request[w].phase = "stamped"
          /\ request[v].created_at = request[w].created_at
          => v = w

(* What one request reads or writes.                                       *)
Linked(t) == {w \in Workers : /\ request[w].phase \in {"linked", "stamped"}
                              /\ request[w].prev_hash = t}

(* Every request that will follow an entry has a place among the workers.  *)
Narrow ==
    \A t \in Nat : Cardinality(Following(t)) + Cardinality(Linked(t))
                      <= Cardinality(Workers)

Inv == TypeOK /\ Ordered /\ Narrow /\ EntriesAreReal

LEMMA Init_Inv == Init => Inv
<1> SUFFICES ASSUME Init PROVE Inv
    OBVIOUS
<1>1. TypeOK
    BY AuditAssumption DEF Init, TypeOK
<1>2. Ordered
    BY FS_EmptySet DEF Init, Ordered, HaveLast, Idle
<1>3. Narrow
  <2> SUFFICES ASSUME NEW t \in Nat
               PROVE  Cardinality(Following(t)) + Cardinality(Linked(t))
                         <= Cardinality(Workers)
      BY DEF Narrow
  <2>1. Following(t) = {} /\ Linked(t) \in SUBSET Workers
      BY DEF Init, Following, Linked
  <2> QED
      BY <2>1, SomeWorkers, FS_EmptySet, AuditAssumption, FS_CardinalityType
<1>4. EntriesAreReal
  <2>1. logs = {} /\ InHand = {} /\ changes = 0
      BY DEF Init, InHand
  <2> QED
      BY <2>1, FS_EmptySet DEF EntriesAreReal
<1> QED
    BY <1>1, <1>2, <1>3, <1>4 DEF Inv

LEMMA InFlight ==
    ASSUME TypeOK, NEW w \in Workers, request[w] # Idle
    PROVE  request[w] \in Request
  BY DEF TypeOK

(* How a step moves the request it serves.                                 *)
LEMMA Moves ==
    ASSUME TypeOK, NEW w \in Workers
    PROVE  /\ CommitChange(w) =>
                /\ request[w] = Idle /\ request'[w] \in Request
                /\ request'[w].phase = "changed" /\ request'[w].changed
           /\ BeginChange(w) =>
                /\ request[w] = Idle /\ request'[w] \in Request
                /\ request'[w].phase = "changed" /\ ~ request'[w].changed
           /\ HaveLast(logs) /\ LinkLast(w) =>
                /\ request[w] \in Request /\ request'[w] \in Request
                /\ request[w].phase = "changed"
                /\ request'[w].phase = "linked"
                /\ request'[w].prev_hash = Latest(logs)
                /\ request'[w].changed = request[w].changed
           /\ Stamp(w) =>
                /\ request[w] \in Request /\ request'[w] \in Request
                /\ request[w].phase = "linked"
                /\ request'[w].phase = "stamped"
                /\ request'[w].created_at = clock + 1
                /\ request'[w].prev_hash = request[w].prev_hash
                /\ request'[w].changed = request[w].changed
           /\ CommitEntry(w) =>
                /\ request[w] \in Request /\ request[w].phase = "stamped"
                /\ request'[w] = Idle
           /\ Abort(w) => request[w] # Idle /\ request'[w] = Idle
           /\ Serve(w) => request' = [request EXCEPT ![w] = request'[w]]
<1> USE DEF TypeOK
<1>0. request[w] \in Request \cup {Idle}
    OBVIOUS
<1>1. ASSUME CommitChange(w)
      PROVE  /\ request'[w] \in Request
             /\ request'[w].phase = "changed" /\ request'[w].changed
    BY <1>1 DEF CommitChange, Request, Phase
<1>2. ASSUME BeginChange(w)
      PROVE  /\ request'[w] \in Request
             /\ request'[w].phase = "changed" /\ ~ request'[w].changed
    BY <1>2 DEF BeginChange, Request, Phase
<1>3. ASSUME HaveLast(logs), LinkLast(w)
      PROVE  /\ request[w] \in Request /\ request'[w] \in Request
             /\ request'[w].phase = "linked"
             /\ request'[w].prev_hash = Latest(logs)
             /\ request'[w].changed = request[w].changed
  <2>1. request[w] \in Request
      BY <1>0, <1>3 DEF LinkLast, Link, Idle
  <2>2. Latest(logs) \in Nat
      BY <1>3, LatestIsLast
  <2>3. request'[w] = [request[w] EXCEPT !.phase = "linked", !.prev_hash = Latest(logs)]
      BY <1>3 DEF LinkLast, Link
  <2>4. PICK q : q = [request[w] EXCEPT !.phase = "linked", !.prev_hash = Latest(logs)]
      OBVIOUS
  <2>5. q \in Request /\ q.phase = "linked" /\ q.prev_hash = Latest(logs)
        /\ q.changed = request[w].changed
      BY <2>1, <2>2, <2>4 DEF Request, Phase
  <2> QED
      BY <2>1, <2>3, <2>4, <2>5
<1>4. ASSUME Stamp(w)
      PROVE  /\ request[w] \in Request /\ request'[w] \in Request
             /\ request'[w].phase = "stamped"
             /\ request'[w].created_at = clock + 1
             /\ request'[w].prev_hash = request[w].prev_hash
             /\ request'[w].changed = request[w].changed
  <2>1. request[w] \in Request
      BY <1>0, <1>4 DEF Stamp, Idle
  <2>2. clock + 1 \in Nat
      OBVIOUS
  <2>3. request'[w] = [request[w] EXCEPT !.phase = "stamped", !.created_at = clock + 1]
      BY <1>4 DEF Stamp
  <2>4. PICK q : q = [request[w] EXCEPT !.phase = "stamped", !.created_at = clock + 1]
      OBVIOUS
  <2>5. /\ q \in Request /\ q.phase = "stamped" /\ q.created_at = clock + 1
        /\ q.prev_hash = request[w].prev_hash /\ q.changed = request[w].changed
      BY <2>1, <2>2, <2>4 DEF Request, Phase
  <2> QED
      BY <2>1, <2>3, <2>4, <2>5
<1>5. ASSUME CommitEntry(w)
      PROVE  request[w] \in Request /\ request[w].phase = "stamped" /\ request'[w] = Idle
    BY <1>0, <1>5 DEF CommitEntry, Idle
<1>6. ASSUME Abort(w) PROVE request[w] # Idle /\ request'[w] = Idle
    BY <1>6 DEF Abort
<1>7. Serve(w) => \E r : request' = [request EXCEPT ![w] = r]
  <2>1. Link(w, Latest(logs)) => \E r : request' = [request EXCEPT ![w] = r]
    <3>1. \A p : [request EXCEPT ![w].phase = "linked", ![w].prev_hash = p]
               = [request EXCEPT ![w] = [request[w] EXCEPT !.phase = "linked",
                                                           !.prev_hash = p]]
        OBVIOUS
    <3> QED
        BY <3>1 DEF Link
  <2>2. Stamp(w) => \E r : request' = [request EXCEPT ![w] = r]
    <3>1. \A p : [request EXCEPT ![w].phase = "stamped", ![w].created_at = p]
               = [request EXCEPT ![w] = [request[w] EXCEPT !.phase = "stamped",
                                                           !.created_at = p]]
        OBVIOUS
    <3> QED
        BY <3>1 DEF Stamp
  <2> QED
      BY <2>1, <2>2 DEF Serve, CommitChange, BeginChange, LinkLast, CommitEntry, Abort
<1>8. Serve(w) => request' = [request EXCEPT ![w] = request'[w]]
    BY <1>7
<1> QED
    BY <1>1, <1>2, <1>3, <1>4, <1>5, <1>6, <1>8
       DEF CommitChange, BeginChange, LinkLast, Link, Stamp

LEMMA TypeNext == TypeOK /\ HaveLast(logs) /\ [Next]_vars => TypeOK'
<1> SUFFICES ASSUME TypeOK, HaveLast(logs), [Next]_vars PROVE TypeOK'
    OBVIOUS
<1>1. ASSUME NEW w \in Workers, Serve(w) PROVE TypeOK'
  <2>1. request'[w] \in Request \cup {Idle}
      BY <1>1, Moves DEF Serve
  <2>2. request' \in [Workers -> Request \cup {Idle}]
    <3>1. request' = [request EXCEPT ![w] = request'[w]]
        BY <1>1, Moves
    <3> QED
        BY <2>1, <3>1 DEF TypeOK
  <2>3. changes' \in 0..MaxChanges /\ clock' \in 0..MaxTime
      BY <1>1, AuditAssumption
         DEF TypeOK, Serve, CommitChange, BeginChange, LinkLast, Link, Stamp,
             CommitEntry, Abort
  <2>4. CASE CommitEntry(w)
    <3>1. request[w] \in Request
        BY <2>4, Moves
    <3>2. [created_at |-> request[w].created_at, prev_hash |-> request[w].prev_hash]
             \in Entry
        BY <3>1 DEF Request, Entry
    <3> QED
        BY <2>2, <2>3, <2>4, <3>2 DEF CommitEntry, TypeOK
  <2>5. CASE ~ CommitEntry(w)
    <3>1. logs' = logs
        BY <1>1, <2>5
           DEF Serve, CommitChange, BeginChange, LinkLast, Link, Stamp, Abort
    <3> QED
        BY <2>2, <2>3, <3>1 DEF TypeOK
  <2> QED
      BY <2>4, <2>5
<1>2. CASE UNCHANGED vars
    BY <1>2 DEF vars, TypeOK
<1> QED
    BY <1>1, <1>2 DEF Next

-----------------------------------------------------------------------------
(* The tree of the entries *)

LEMMA CommitOrdered ==
    ASSUME TypeOK, Ordered, NEW w \in Workers, CommitEntry(w)
    PROVE  Ordered'
<1> USE DEF TypeOK, Ordered
<1>1. /\ request[w] \in Request /\ request[w].phase = "stamped" /\ request'[w] = Idle
      /\ request' = [request EXCEPT ![w] = Idle]
    BY Moves DEF CommitEntry
<1>2. PICK x : x = [created_at |-> request[w].created_at,
                    prev_hash |-> request[w].prev_hash]
    OBVIOUS
<1>3. /\ x \in Entry /\ x.created_at = request[w].created_at
      /\ x.prev_hash = request[w].prev_hash
    BY <1>1, <1>2 DEF Request, Entry
<1>4. logs' = logs \cup {x} /\ clock' = clock
    BY <1>2 DEF CommitEntry
<1>5. \A v \in Workers : v # w => request'[v] = request[v]
    BY <1>1
<1>6. Idle.phase \notin {"linked", "stamped"}
    BY DEF Idle
<1>7. IsFiniteSet(logs')
    BY <1>4, OneMore
<1>8. HaveLast(logs')
  <2>1. \A e \in logs : e.created_at \in Nat
      BY DEF Entry
  <2>2. CASE logs = {}
      BY <1>3, <1>4, <2>2 DEF HaveLast, Entry
  <2>3. CASE logs # {}
    <3>1. PICK e \in logs : \A f \in logs : f.created_at <= e.created_at
        BY <2>3 DEF HaveLast
    <3>2. CASE x.created_at <= e.created_at
        BY <1>4, <3>1, <3>2 DEF HaveLast
    <3>3. CASE e.created_at < x.created_at
        BY <1>3, <1>4, <2>1, <3>1, <3>3 DEF HaveLast, Entry
    <3> QED
        BY <1>3, <2>1, <3>2, <3>3 DEF Entry
  <2> QED
      BY <2>2, <2>3
<1>9. /\ \A e \in logs' : e.created_at <= clock'
      /\ \A e \in logs' : \/ e.prev_hash = 0
                          \/ \E f \in logs' : f.created_at = e.prev_hash
      /\ \A e \in logs' : e.prev_hash < e.created_at
    BY <1>1, <1>3, <1>4
<1>10. \A v \in Workers : request'[v].phase \in {"linked", "stamped"} =>
          \/ request'[v].prev_hash = 0
          \/ \E f \in logs' : f.created_at = request'[v].prev_hash
    BY <1>1, <1>4, <1>5, <1>6
<1>11. \A v \in Workers : request'[v].phase = "stamped" =>
          /\ v # w /\ request[v].phase = "stamped"
          /\ request'[v] = request[v]
    BY <1>1, <1>5, <1>6
<1>12. \A v \in Workers : request'[v].phase = "stamped" =>
          /\ request'[v].prev_hash < request'[v].created_at
          /\ request'[v].created_at <= clock'
          /\ \A e \in logs' : e.created_at # request'[v].created_at
    BY <1>1, <1>3, <1>4, <1>11
<1>13. \A u, v \in Workers :
          /\ request'[u].phase = "stamped" /\ request'[v].phase = "stamped"
          /\ request'[u].created_at = request'[v].created_at
          => u = v
    BY <1>11
<1> QED
    BY <1>7, <1>8, <1>9, <1>10, <1>12, <1>13

LEMMA OrderedNext == TypeOK /\ Ordered /\ [Next]_vars => Ordered'
<1> SUFFICES ASSUME TypeOK, Ordered, [Next]_vars PROVE Ordered'
    OBVIOUS
<1> USE DEF Ordered
<1>1. ASSUME NEW w \in Workers, Serve(w) PROVE Ordered'
  <2>1. CASE CommitEntry(w)
      BY <2>1, CommitOrdered
  <2>2. CASE ~ CommitEntry(w)
    <3>1. logs' = logs
        BY <1>1, <2>2
           DEF Serve, CommitChange, BeginChange, LinkLast, Link, Stamp, Abort
    <3>2. clock \in Nat /\ clock' \in Nat /\ clock <= clock'
        BY <1>1, <2>2, AuditAssumption
           DEF TypeOK, Serve, CommitChange, BeginChange, LinkLast, Link, Stamp, Abort
    <3>3. \A v \in Workers : v # w => request'[v] = request[v]
      <4>1. request' = [request EXCEPT ![w] = request'[w]]
          BY <1>1, Moves
      <4> QED
          BY <4>1 DEF TypeOK
    <3>4. \A e \in logs : e.created_at \in Nat /\ e.prev_hash \in Nat
        BY DEF TypeOK, Entry
    <3>5. \A v \in Workers : request[v].phase = "stamped" => request[v].created_at \in Nat
        BY DEF TypeOK, Request, Idle
    <3>6. \A v \in Workers : request[v].phase \in {"linked", "stamped"} =>
                               request[v].prev_hash \in Nat
        BY DEF TypeOK, Request, Idle
    <3>7. CASE request'[w].phase \notin {"linked", "stamped"}
      <4>1. \A v \in Workers : request'[v].phase \in {"linked", "stamped"} =>
                                 request'[v] = request[v]
          BY <3>3, <3>7
      <4> QED
          BY <3>1, <3>2, <3>4, <3>5, <4>1
    <3>8. CASE LinkLast(w)
      <4>1. /\ request'[w].phase = "linked"
            /\ request'[w].prev_hash = Latest(logs)
          BY <3>8, Moves
      <4>2. \/ Latest(logs) = 0
            \/ \E f \in logs : f.created_at = Latest(logs)
          BY LatestIsLast DEF TypeOK
      <4>3. \A v \in Workers : request'[v].phase = "stamped" =>
                                 request'[v] = request[v]
          BY <3>3, <4>1
      <4> QED
          BY <3>1, <3>2, <3>3, <3>4, <3>5, <4>1, <4>2, <4>3
    <3>9. CASE Stamp(w)
      <4>1. /\ request[w].phase = "linked"
            /\ request'[w].phase = "stamped"
            /\ request'[w].created_at = clock + 1
            /\ request'[w].prev_hash = request[w].prev_hash
            /\ clock' = clock + 1
          BY <3>9, Moves DEF Stamp
      <4>2. \/ request[w].prev_hash = 0
            \/ \E f \in logs : f.created_at = request[w].prev_hash
          BY <4>1
      <4>3. request[w].prev_hash < clock + 1
          BY <3>2, <3>4, <4>2
      <4>4. \A v \in Workers : request'[v].phase \in {"linked", "stamped"} =>
               \/ request'[v].prev_hash = 0
               \/ \E f \in logs' : f.created_at = request'[v].prev_hash
          BY <3>1, <3>3, <4>1, <4>2
      <4>5. \A v \in Workers : request'[v].phase = "stamped" =>
               /\ request'[v].prev_hash < request'[v].created_at
               /\ request'[v].created_at <= clock'
               /\ \A e \in logs' : e.created_at # request'[v].created_at
          BY <3>1, <3>2, <3>3, <3>4, <3>5, <4>1, <4>3
      <4>6. \A v \in Workers : v # w /\ request'[v].phase = "stamped" =>
               request[v].phase = "stamped" /\ request'[v].created_at \in Nat
               /\ request'[v].created_at = request[v].created_at
               /\ request'[v].created_at < clock + 1
          BY <3>2, <3>3, <3>5
      <4>7. \A u, v \in Workers :
               /\ request'[u].phase = "stamped" /\ request'[v].phase = "stamped"
               /\ request'[u].created_at = request'[v].created_at
               => u = v
          BY <3>2, <4>1, <4>6
      <4> QED
          BY <3>1, <3>2, <3>4, <4>1, <4>4, <4>5, <4>7
    <3> QED
        BY <1>1, <2>2, <3>7, <3>8, <3>9, Moves DEF Serve, Idle
  <2> QED
      BY <2>1, <2>2
<1>2. CASE UNCHANGED vars
    BY <1>2 DEF vars
<1> QED
    BY <1>1, <1>2 DEF Next

-----------------------------------------------------------------------------
(* The width of the tree *)

LEMMA Counts ==
    ASSUME Ordered, NEW t
    PROVE  /\ IsFiniteSet(Following(t)) /\ Cardinality(Following(t)) \in Nat
           /\ IsFiniteSet(Linked(t)) /\ Cardinality(Linked(t)) \in Nat
           /\ Cardinality(Linked(t)) <= Cardinality(Workers)
<1>1. Following(t) \in SUBSET logs /\ Linked(t) \in SUBSET Workers
    BY DEF Following, Linked
<1> QED
    BY <1>1, SomeWorkers, FS_Subset, FS_CardinalityType DEF Ordered

(* A step that commits no entry widens nothing: an entry that is linked to *)
(* has no successor yet.                                                   *)
LEMMA NarrowNext == TypeOK /\ Ordered /\ Narrow /\ [Next]_vars => Narrow'
<1> SUFFICES ASSUME TypeOK, Ordered, Narrow, [Next]_vars, NEW t \in Nat
             PROVE  Cardinality(Following(t)') + Cardinality(Linked(t)')
                       <= Cardinality(Workers)
    BY DEF Narrow
<1>0. /\ Cardinality(Following(t)) + Cardinality(Linked(t)) <= Cardinality(Workers)
      /\ IsFiniteSet(Following(t)) /\ Cardinality(Following(t)) \in Nat
      /\ IsFiniteSet(Linked(t)) /\ Cardinality(Linked(t)) \in Nat
      /\ Cardinality(Workers) \in Nat
    BY Counts, FS_CardinalityType, AuditAssumption DEF Narrow
<1>1. ASSUME NEW w \in Workers, Serve(w)
      PROVE  Cardinality(Following(t)') + Cardinality(Linked(t)')
                <= Cardinality(Workers)
  <2>1. \A v \in Workers : v # w => request'[v] = request[v]
    <3>1. request' = [request EXCEPT ![w] = request'[w]]
        BY <1>1, Moves
    <3> QED
        BY <3>1 DEF TypeOK
  <2>2. CASE /\ ~ CommitEntry(w)
             /\ \/ request'[w].phase \notin {"linked", "stamped"}
                \/ /\ request[w].phase \in {"linked", "stamped"}
                   /\ request'[w].prev_hash = request[w].prev_hash
    <3>1. logs' = logs
        BY <1>1, <2>2
           DEF Serve, CommitChange, BeginChange, LinkLast, Link, Stamp, Abort
    <3>2. Following(t)' = Following(t)
        BY <3>1 DEF Following
    <3>3. Linked(t)' \in SUBSET Linked(t)
        BY <2>1, <2>2 DEF Linked
    <3>4. Cardinality(Linked(t)') <= Cardinality(Linked(t))
          /\ Cardinality(Linked(t)') \in Nat
        BY <1>0, <3>3, FS_Subset, FS_CardinalityType
    <3> QED
        BY <1>0, <3>2, <3>4
  <2>3. CASE LinkLast(w)
    <3>1. /\ request[w].phase = "changed" /\ request'[w].phase = "linked"
          /\ request'[w].prev_hash = Latest(logs) /\ logs' = logs
        BY <2>3, Moves DEF Ordered, LinkLast, Link
    <3>2. Following(t)' = Following(t)
        BY <3>1 DEF Following
    <3>3. CASE t = Latest(logs)
      <4>1. \A e \in logs : e.prev_hash # Latest(logs)
        <5>1. \A e \in logs : /\ e.created_at \in Nat /\ e.prev_hash \in Nat
                              /\ e.prev_hash < e.created_at
                              /\ e.created_at <= Latest(logs)
                              /\ Latest(logs) \in Nat
            BY LatestIsLast DEF TypeOK, Entry, Ordered
        <5> QED
            BY <5>1
      <4>2. Following(t)' = {}
          BY <3>2, <3>3, <4>1 DEF Following
      <4>3. Linked(t)' \in SUBSET Workers
          BY DEF Linked
      <4> QED
          BY <1>0, <4>2, <4>3, SomeWorkers, FS_EmptySet
    <3>4. CASE t # Latest(logs)
      <4>1. Linked(t)' = Linked(t)
          BY <2>1, <3>1, <3>4 DEF Linked
      <4> QED
          BY <1>0, <3>2, <4>1
    <3> QED
        BY <3>3, <3>4
  <2>4. CASE CommitEntry(w)
    <3>1. /\ request[w].phase = "stamped" /\ request'[w] = Idle
          /\ request[w] \in Request
        BY <2>4, Moves
    <3>2. PICK x : x = [created_at |-> request[w].created_at,
                        prev_hash |-> request[w].prev_hash]
        OBVIOUS
    <3>3. x.prev_hash = request[w].prev_hash
        BY <3>2
    <3>4. logs' = logs \cup {x}
        BY <2>4, <3>2 DEF CommitEntry
    <3>5. Linked(t)' = Linked(t) \ {w}
        BY <2>1, <3>1 DEF Linked, Idle
    <3>6. CASE request[w].prev_hash = t
      <4>1. Following(t)' = Following(t) \cup {x}
          BY <3>3, <3>4, <3>6 DEF Following
      <4>2. w \in Linked(t)
          BY <3>1, <3>6 DEF Linked
      <4>3. /\ Cardinality(Following(t)') \in Nat
            /\ Cardinality(Following(t)') <= Cardinality(Following(t)) + 1
          BY <1>0, <4>1, OneMore
      <4>4. /\ Cardinality(Linked(t)') \in Nat
            /\ Cardinality(Linked(t)') = Cardinality(Linked(t)) - 1
          BY <1>0, <3>5, <4>2, OneLess
      <4> QED
          BY <1>0, <4>3, <4>4
    <3>7. CASE request[w].prev_hash # t
      <4>1. Following(t)' = Following(t)
          BY <3>3, <3>4, <3>7 DEF Following
      <4>2. Linked(t)' = Linked(t)
          BY <3>5, <3>7 DEF Linked
      <4> QED
          BY <1>0, <4>1, <4>2
    <3> QED
        BY <3>6, <3>7
  <2>5. CASE Stamp(w)
      BY <2>2, <2>5, Moves DEF CommitEntry, Stamp
  <2>6. CASE CommitChange(w) \/ BeginChange(w) \/ Abort(w)
    <3>1. request'[w].phase \notin {"linked", "stamped"}
        BY <2>6, Moves DEF Idle
    <3> QED
        BY <2>2, <2>4, <3>1
  <2> QED
      BY <1>1, <2>3, <2>4, <2>5, <2>6 DEF Serve
<1>2. CASE UNCHANGED vars
    BY <1>0, <1>2 DEF vars, Following, Linked
<1> QED
    BY <1>1, <1>2 DEF Next

-----------------------------------------------------------------------------
(* An entry is not written for nothing *)

LEMMA RealNext ==
    TypeOK /\ Ordered /\ EntriesAreReal /\ [Next]_vars => EntriesAreReal'
<1> SUFFICES ASSUME TypeOK, Ordered, EntriesAreReal, [Next]_vars
             PROVE  EntriesAreReal'
    OBVIOUS
<1>0. /\ IsFiniteSet(logs) /\ Cardinality(logs) \in Nat
      /\ IsFiniteSet(InHand) /\ Cardinality(InHand) \in Nat
      /\ Cardinality(logs) + Cardinality(InHand) <= changes /\ changes \in Nat
  <2>1. InHand \in SUBSET Workers
      BY DEF InHand
  <2> QED
      BY <2>1, SomeWorkers, FS_CardinalityType, AuditAssumption
         DEF Ordered, EntriesAreReal, TypeOK
<1>1. ASSUME NEW w \in Workers, Serve(w) PROVE EntriesAreReal'
  <2>1. \A v \in Workers : v # w => request'[v] = request[v]
    <3>1. request' = [request EXCEPT ![w] = request'[w]]
        BY <1>1, Moves
    <3> QED
        BY <3>1 DEF TypeOK
  <2>2. Idle \notin Request
      BY DEF Idle, Request, Phase
  <2>3. CASE LinkLast(w) \/ Stamp(w)
    <3>1. /\ request[w] # Idle /\ request'[w] # Idle
          /\ request'[w].changed = request[w].changed
          /\ logs' = logs /\ changes' = changes
        BY <2>2, <2>3, Moves DEF Ordered, LinkLast, Link, Stamp
    <3>2. InHand' = InHand
        BY <2>1, <3>1 DEF InHand
    <3> QED
        BY <3>1, <3>2 DEF EntriesAreReal
  <2>4. CASE BeginChange(w)
    <3>1. /\ request[w] = Idle /\ request'[w] # Idle /\ ~ request'[w].changed
          /\ logs' = logs /\ changes' = changes
        BY <2>2, <2>4, Moves DEF BeginChange
    <3>2. InHand' = InHand
        BY <2>1, <3>1 DEF InHand
    <3> QED
        BY <3>1, <3>2 DEF EntriesAreReal
  <2>5. CASE CommitChange(w)
    <3>1. /\ request[w] = Idle /\ request'[w] # Idle /\ request'[w].changed
          /\ logs' = logs /\ changes' = changes + 1
        BY <2>2, <2>5, Moves DEF CommitChange
    <3>2. InHand' = InHand \cup {w}
        BY <2>1, <3>1 DEF InHand
    <3>3. /\ Cardinality(InHand') \in Nat
          /\ Cardinality(InHand') <= Cardinality(InHand) + 1
        BY <1>0, <3>2, OneMore
    <3> QED
        BY <1>0, <3>1, <3>3 DEF EntriesAreReal
  <2>6. CASE Abort(w)
    <3>1. request'[w] = Idle /\ logs' = logs /\ changes' = changes
        BY <2>6, Moves DEF Abort
    <3>2. InHand' \in SUBSET InHand
        BY <2>1, <3>1 DEF InHand
    <3>3. /\ Cardinality(InHand') \in Nat
          /\ Cardinality(InHand') <= Cardinality(InHand)
        BY <1>0, <3>2, FS_Subset, FS_CardinalityType
    <3> QED
        BY <1>0, <3>1, <3>3 DEF EntriesAreReal
  <2>7. CASE CommitEntry(w)
    <3>1. /\ request[w] \in Request /\ request'[w] = Idle
        BY <2>7, Moves
    <3>2. PICK x : logs' = logs \cup {x}
        BY <2>7 DEF CommitEntry
    <3>3. /\ Cardinality(logs') \in Nat
          /\ Cardinality(logs') <= Cardinality(logs) + 1
        BY <1>0, <3>2, OneMore
    <3>4. InHand' = InHand \ {w}
        BY <2>1, <3>1 DEF InHand
    <3>5. CASE request[w].changed
      <4>1. w \in InHand
          BY <2>2, <3>1, <3>5 DEF InHand
      <4>2. /\ Cardinality(InHand') \in Nat
            /\ Cardinality(InHand') = Cardinality(InHand) - 1
          BY <1>0, <3>4, <4>1, OneLess
      <4>3. changes' = changes
          BY <2>7, <3>5 DEF CommitEntry
      <4> QED
          BY <1>0, <3>3, <4>2, <4>3 DEF EntriesAreReal
    <3>6. CASE ~ request[w].changed
      <4>1. InHand' = InHand
          BY <3>4, <3>6 DEF InHand
      <4>2. changes' = changes + 1
          BY <2>7, <3>6 DEF CommitEntry
      <4> QED
          BY <1>0, <3>3, <4>1, <4>2 DEF EntriesAreReal
    <3> QED
        BY <3>5, <3>6
  <2> QED
      BY <1>1, <2>3, <2>4, <2>5, <2>6, <2>7 DEF Serve
<1>2. CASE UNCHANGED vars
    BY <1>2 DEF vars, EntriesAreReal, InHand
<1> QED
    BY <1>1, <1>2 DEF Next

-----------------------------------------------------------------------------

LEMMA InvNext == Inv /\ [Next]_vars => Inv'
<1> SUFFICES ASSUME Inv, [Next]_vars PROVE Inv'
    OBVIOUS
<1>1. TypeOK /\ Ordered /\ HaveLast(logs) /\ Narrow /\ EntriesAreReal
    BY DEF Inv, Ordered
<1> QED
    BY <1>1, TypeNext, OrderedNext, NarrowNext, RealNext DEF Inv

LEMMA AlwaysInv == Spec => []Inv
  BY InvNext, Init_Inv, PTL DEF Spec

(* The trail and the requests in flight keep their types.                  *)
THEOREM TypeCorrect == Spec => []TypeOK
<1>1. Inv => TypeOK
    BY DEF Inv
<1> QED
    BY <1>1, AlwaysInv, PTL

(* Every entry follows one that is stored and older: log_action reads its  *)
(* predecessor before it stamps itself, and no row is ever deleted.        *)
THEOREM EntriesLeadBack == Spec => []LeadsBack
<1>1. Inv => LeadsBack
  <2> SUFFICES ASSUME Inv, NEW e \in logs
               PROVE  \/ e.prev_hash = 0
                      \/ \E f \in logs : /\ f.created_at = e.prev_hash
                                         /\ f.created_at < e.created_at
      BY DEF LeadsBack
  <2> QED
      BY DEF Inv, Ordered
<1> QED
    BY <1>1, AlwaysInv, PTL

(* No entry, nor the beginning, is followed by more entries than there are *)
(* threads: what was linked to it while it was the last is all there is.   *)
THEOREM ChainForksWithinBounds == Spec => []ForksBounded
<1>1. Inv => ForksBounded
  <2> SUFFICES ASSUME Inv, NEW t \in {0} \cup {e.created_at : e \in logs}
               PROVE  Cardinality(Following(t)) <= Cardinality(Workers)
      BY DEF ForksBounded
  <2>1. t \in Nat
      BY DEF Inv, TypeOK, Entry
  <2>2. /\ Cardinality(Following(t)) + Cardinality(Linked(t)) <= Cardinality(Workers)
        /\ Cardinality(Following(t)) \in Nat /\ Cardinality(Linked(t)) \in Nat
        /\ Cardinality(Workers) \in Nat
      BY <2>1, Counts, FS_CardinalityType, AuditAssumption DEF Inv, Narrow
  <2> QED
      BY <2>2
<1> QED
    BY <1>1, AlwaysInv, PTL

(* There is a committed change of its own behind every entry, wherever a   *)
(* request fails between its two transactions.                             *)
THEOREM ChangesBehindEntries == Spec => []EntriesAreReal
<1>1. Inv => EntriesAreReal
    BY DEF Inv
<1> QED
    BY <1>1, AlwaysInv, PTL

-----------------------------------------------------------------------------
(* Requests that are served one by one *)

OneByOne == \A v, w \in Workers : request[v] # Idle /\ request[w] # Idle => v = w

(* The entries are a chain, and the request that is linked is to its end.  *)
Chained ==
    /\ \A e \in logs : e.prev_hash = Latest(Before(e))
    /\ \A w \in Workers : request[w].phase \in {"linked", "stamped"} =>
          request[w].prev_hash = Latest(logs)

LEMMA ChainedNext == Inv /\ Chained /\ OneByOne /\ [Next]_vars => Chained'
<1> SUFFICES ASSUME Inv, Chained, OneByOne, [Next]_vars PROVE Chained'
    OBVIOUS
<1> USE DEF Inv
<1>1. ASSUME NEW w \in Workers, Serve(w) PROVE Chained'
  <2>1. \A v \in Workers : v # w => request'[v] = request[v]
    <3>1. request' = [request EXCEPT ![w] = request'[w]]
        BY <1>1, Moves
    <3> QED
        BY <3>1 DEF TypeOK
  <2>2. CASE /\ ~ CommitEntry(w)
             /\ \/ request'[w].phase \notin {"linked", "stamped"}
                \/ request'[w].prev_hash = Latest(logs)
    <3>1. logs' = logs
        BY <1>1, <2>2
           DEF Serve, CommitChange, BeginChange, LinkLast, Link, Stamp, Abort
    <3>2. \A e \in logs : Before(e)' = Before(e)
        BY <3>1 DEF Before
    <3>3. /\ Latest(logs)' = Latest(logs)
          /\ \A e \in logs : Latest(Before(e))' = Latest(Before(e))
        BY <3>1, <3>2 DEF Latest, Before
    <3> QED
        BY <2>1, <2>2, <3>1, <3>3 DEF Chained
  <2>3. CASE CommitEntry(w)
    <3>1. /\ request[w].phase = "stamped" /\ request'[w] = Idle
          /\ request[w] \in Request /\ request[w] # Idle
        BY <2>3, Moves DEF Idle
    <3>2. PICK x : x = [created_at |-> request[w].created_at,
                        prev_hash |-> request[w].prev_hash]
        OBVIOUS
    <3>3. logs' = logs \cup {x}
        BY <2>3, <3>2 DEF CommitEntry
    <3>4. /\ x.prev_hash = Latest(logs) /\ x.prev_hash < x.created_at
          /\ x.created_at \in Nat
        BY <3>1, <3>2 DEF Chained, Ordered, Request
    <3>5. \A e \in logs : e.created_at \in Nat /\ e.created_at < x.created_at
        BY <3>4, LatestIsLast DEF TypeOK, Ordered, Entry
    <3>6. {f \in logs' : f.created_at < x.created_at} = logs
        BY <3>3, <3>4, <3>5
    <3>7. \A e \in logs : {f \in logs' : f.created_at < e.created_at} = Before(e)
        BY <3>3, <3>4, <3>5 DEF Before
    <3>8. \A e \in logs' : e.prev_hash = Latest({f \in logs' : f.created_at < e.created_at})
        BY <3>3, <3>4, <3>6, <3>7 DEF Chained
    <3>9. \A v \in Workers : request'[v].phase \notin {"linked", "stamped"}
      <4>1. \A v \in Workers : v # w => request[v] = Idle
          BY <3>1 DEF OneByOne
      <4> QED
          BY <2>1, <3>1, <4>1 DEF Idle
    <3> QED
        BY <3>8, <3>9 DEF Chained, Before
  <2>4. CASE LinkLast(w)
      BY <2>2, <2>4, Moves DEF CommitEntry, Ordered
  <2>5. CASE Stamp(w)
      BY <2>2, <2>5, Moves DEF CommitEntry, Chained
  <2>6. CASE CommitChange(w) \/ BeginChange(w) \/ Abort(w)
    <3>1. request'[w].phase \notin {"linked", "stamped"}
        BY <2>6, Moves DEF Idle
    <3> QED
        BY <2>2, <2>3, <3>1
  <2> QED
      BY <1>1, <2>3, <2>4, <2>5, <2>6 DEF Serve
<1>2. CASE UNCHANGED vars
    BY <1>2 DEF vars, Chained, Before, Latest
<1> QED
    BY <1>1, <1>2 DEF Next

-----------------------------------------------------------------------------
(* The watched specification: until two requests overlap *)

LEMMA WatchedOneByOne ==
    /\ WatchedInit => OneByOne
    /\ [WatchedNext]_<<vars, overlapped>> /\ ~ overlapped' /\ (~ overlapped => OneByOne)
          => ~ overlapped /\ OneByOne'
<1>1. WatchedInit => OneByOne
    BY DEF WatchedInit, Init, OneByOne
<1>2. ASSUME WatchedNext, ~ overlapped' PROVE ~ overlapped /\ OneByOne'
    BY <1>2 DEF WatchedNext, OneByOne
<1>3. ASSUME UNCHANGED <<vars, overlapped>>, ~ overlapped', ~ overlapped => OneByOne
      PROVE  ~ overlapped /\ OneByOne'
    BY <1>3 DEF vars, OneByOne
<1> QED
    BY <1>1, <1>2, <1>3

Alone == ~ overlapped => OneByOne /\ Chained

(* Until two requests overlap, what log_action writes verifies, however    *)
(* many entries are looked at and wherever a request failed.               *)
THEOREM ChainVerifies == WatchedSpec => []ChainVerifiesAlone
<1>1. WatchedInit => Inv /\ Alone
  <2>1. WatchedInit => Inv /\ Chained
      BY Init_Inv DEF WatchedInit, Init, Chained, Idle
  <2> QED
      BY <2>1, WatchedOneByOne DEF Alone
<1>2. [WatchedNext]_<<vars, overlapped>> => [Next]_vars
    BY DEF WatchedNext
<1>3. ASSUME Inv, Alone, [WatchedNext]_<<vars, overlapped>> PROVE Inv' /\ Alone'
  <2>1. Inv'
      BY <1>2, <1>3, InvNext
  <2>2. ASSUME ~ overlapped' PROVE OneByOne' /\ Chained'
    <3>1. ~ overlapped /\ OneByOne'
        BY <1>3, <2>2, WatchedOneByOne DEF Alone
    <3> QED
        BY <1>2, <1>3, <3>1, ChainedNext DEF Alone
  <2> QED
      BY <2>1, <2>2 DEF Alone
<1>4. Alone => ChainVerifiesAlone
    BY DEF Alone, Chained, VerifyAuditChain, ChainVerifiesAlone
<1> QED
    BY <1>1, <1>3, <1>4, PTL DEF WatchedSpec

=============================================================================
