----------------------------- MODULE ArchiveProofs -----------------------------
(***************************************************************************)
(* Proofs about Archive, for any number of users, rows, titles, texts and  *)
(* concurrent requests: what was stored reads back, and what was sealed    *)
(* for its owner stays so.                                                 *)
(***************************************************************************)
EXTENDS MCArchive, TLAPS

LEMMA Ciphertexts ==
    ASSUME NEW text \in Texts, NEW u \in Users
    PROVE  EncryptUserText(text, u) \in Sealed /\ EncryptText(text) \in Sealed
  BY DEF EncryptUserText, EncryptText, Sealed

LEMMA Replaced ==
    ASSUME NEW S, NEW s \in Seq(S), NEW i, NEW x, i \in DOMAIN s => x \in S
    PROVE  [s EXCEPT ![i] = x] \in Seq(S)
<1> DEFINE r == [s EXCEPT ![i] = x]
<1>1. /\ Len(s) \in Nat /\ DOMAIN s = 1..Len(s)
      /\ r = [j \in 1..Len(s) |-> r[j]]
    OBVIOUS
<1>2. \A j \in 1..Len(s) : r[j] \in S
    BY <1>1
<1> HIDE DEF r
<1>3. r \in Seq(S)
    BY <1>1, <1>2
<1> QED
    BY <1>3 DEF r

LEMMA LiveRows ==
    ASSUME TypeOK
    PROVE  /\ \A i : Stored(i) <=> i \in DOMAIN rows /\ rows[i] \in Row
           /\ Deleted \notin Row
  BY DEF TypeOK, Stored, Deleted, Row, Kind

-----------------------------------------------------------------------------
(* Types *)

LEMMA Inserted ==
    ASSUME TypeOK, NEW row \in Row, NEW title \in Titles, NEW text \in Texts \cup {None},
           Insert(row, title, text)
    PROVE  TypeOK'
<1>1. [title |-> title, text |-> text] \in Asked
    BY DEF Asked
<1> QED
    BY <1>1 DEF Insert, TypeOK

LEMMA PatchedRow ==
    ASSUME NEW row \in Row, NEW loaded \in Row, NEW body,
           body \in [title : Titles \cup {None}, content : Texts \cup {None}]
    PROVE  Patched(row, loaded, body) \in Row
<1> DEFINE t == IF body.title \in {None, loaded.title} THEN row.title ELSE body.title
           e == IF body.content # None THEN EncryptUserText(body.content, loaded.owner)
                ELSE row.sealed
           iv == IF body.content # None /\ loaded.iv THEN FALSE ELSE row.iv
           v == IF body.content # None /\ loaded.version # 2 THEN 2 ELSE row.version
<1>1. body.content # None => EncryptUserText(body.content, loaded.owner) \in Sealed
    BY Ciphertexts DEF Row
<1>2. /\ row.title \in Titles /\ row.sealed \in Sealed \cup {None}
      /\ row.iv \in BOOLEAN /\ row.version \in 1..2
      /\ body.title \in Titles \cup {None}
    BY DEF Row
<1>a. t \in Titles
    BY <1>2
<1>b. e \in Sealed \cup {None}
    BY <1>1, <1>2
<1>c. iv \in BOOLEAN
    BY <1>2, Zenon
<1>d. v \in 1..2
    BY <1>2
<1>3. Patched(row, loaded, body)
         = [row EXCEPT !.title = t, !.sealed = e, !.iv = iv, !.version = v]
    BY DEF Patched
<1> HIDE DEF t, e, iv, v
<1> QED
    BY <1>a, <1>b, <1>c, <1>d, <1>3 DEF Row

(* A deletion removes a row, takes the recipient off others, and leaves    *)
(* the rest alone.                                                         *)
LEMMA DetachedRow ==
    ASSUME TypeOK, NEW w \in Workers, CommitDelete(w), NEW j \in DOMAIN rows
    PROVE  /\ rows'[j] \in Row \cup {Deleted}
           /\ \/ rows'[j] = Deleted
              \/ rows'[j] = rows[j]
              \/ /\ rows[j] \in Row
                 /\ rows'[j] = [rows[j] EXCEPT !.recipient = None]
<1>1. rows[j] \in Row \cup {Deleted}
    BY DEF TypeOK
<1>2. \/ rows'[j] = Deleted
      \/ rows'[j] = rows[j]
      \/ rows'[j] = [rows[j] EXCEPT !.recipient = None]
    BY DEF CommitDelete
<1>3. [Deleted EXCEPT !.recipient = None] = Deleted
    BY DEF Deleted
<1>4. \A row \in Row : [row EXCEPT !.recipient = None] \in Row
    BY DEF Row
<1> QED
    BY <1>1, <1>2, <1>3, <1>4

LEMMA FourRows ==
    ASSUME NEW a \in Row, NEW b \in Row, NEW c \in Row, NEW d \in Row
    PROVE  /\ <<a, b, c, d>> \in Seq(Row)
           /\ DOMAIN <<a, b, c, d>> = 1..4
           /\ <<a, b, c, d>>[1] = a
           /\ <<a, b, c, d>>[2] = b
           /\ <<a, b, c, d>>[3] = c
           /\ <<a, b, c, d>>[4] = d
  OBVIOUS

LEMMA TypeInit == Init => TypeOK
<1> SUFFICES ASSUME NEW title \in Titles, NEW text \in Texts,
                    rows = Seeded(title, text),
                    asked = [i \in DOMAIN rows |->
                        [title |-> title, text |-> IF i = 1 THEN None ELSE text]],
                    request = [w \in Workers |-> Idle]
             PROVE  TypeOK
    BY DEF Init
<1>1. EncryptText(text) \in Sealed
    BY ArchiveAssumption, Ciphertexts
<1>2. /\ NewRow("contact", Demo, title, None, FALSE, 1, None) \in Row
      /\ NewRow("memory", Demo, title, EncryptText(text), TRUE, 2, None) \in Row
      /\ NewRow("event", Demo, title, EncryptText(text), TRUE, 2, None) \in Row
      /\ NewRow("message", Demo, title, EncryptText(text), TRUE, 1, 1) \in Row
    BY <1>1, ArchiveAssumption DEF NewRow, Row, Kind
<1>3. rows \in Seq(Row) /\ DOMAIN rows = 1..4
  <2> DEFINE contact == NewRow("contact", Demo, title, None, FALSE, 1, None)
             memory == NewRow("memory", Demo, title, EncryptText(text), TRUE, 2, None)
             event == NewRow("event", Demo, title, EncryptText(text), TRUE, 2, None)
             message == NewRow("message", Demo, title, EncryptText(text), TRUE, 1, 1)
  <2>1. rows = <<contact, memory, event, message>>
      BY DEF Seeded
  <2> HIDE DEF contact, memory, event, message
  <2>2. contact \in Row /\ memory \in Row /\ event \in Row /\ message \in Row
      BY <1>2 DEF contact, memory, event, message
  <2> QED
      BY <2>1, <2>2, FourRows
<1>4. asked \in Seq(Asked)
  <2>1. \A i \in 1..4 : [title |-> title, text |-> IF i = 1 THEN None ELSE text] \in Asked
      BY DEF Asked
  <2> QED
      BY <1>3, <2>1
<1> QED
    BY <1>3, <1>4 DEF TypeOK

LEMMA TypeNext == TypeOK /\ [Next]_vars => TypeOK'
<1> SUFFICES ASSUME TypeOK, [Next]_vars PROVE TypeOK'
    OBVIOUS
<1>1. ASSUME NEW u \in Users, NEW title \in Titles, Create(u, title) PROVE TypeOK'
  <2>1. ASSUME NEW text \in Texts \cup {None}, CreateContact(u, title, text)
        PROVE  TypeOK'
    <3> DEFINE row == NewRow("contact", u, title,
                             IF text = None THEN None ELSE EncryptText(text),
                             text # None, 1, None)
    <3>1. row \in Row
        BY Ciphertexts DEF NewRow, Row, Kind
    <3> QED
        BY <2>1, <3>1, Inserted DEF CreateContact
  <2>2. ASSUME NEW text \in Texts \cup {None}, CreateEvent(u, title, text)
        PROVE  TypeOK'
    <3> DEFINE row == NewRow("event", u, title,
                             IF text = None THEN None ELSE EncryptText(text),
                             text # None, 2, None)
    <3>1. row \in Row
        BY Ciphertexts DEF NewRow, Row, Kind
    <3> QED
        BY <2>2, <3>1, Inserted DEF CreateEvent
  <2>3. ASSUME NEW text \in Texts, CreateMemory(u, title, text) PROVE TypeOK'
    <3>1. NewRow("memory", u, title, EncryptUserText(text, u), FALSE, 2, None) \in Row
        BY Ciphertexts DEF NewRow, Row, Kind
    <3> QED
        BY <2>3, <3>1, Inserted DEF CreateMemory
  <2>4. ASSUME NEW text \in Texts, NEW recipient \in Nameable \cup {None},
               CreateMessage(u, title, text, recipient)
        PROVE  TypeOK'
    <3>1. recipient \in Nat \cup {None}
        BY DEF Nameable, TypeOK
    <3>2. NewRow("message", u, title, EncryptUserText(text, u), FALSE, 2, recipient) \in Row
        BY <3>1, Ciphertexts DEF NewRow, Row, Kind
    <3> QED
        BY <2>4, <3>2, Inserted DEF CreateMessage
  <2> QED
      BY <1>1, <2>1, <2>2, <2>3, <2>4 DEF Create
<1>2. ASSUME NEW w \in Workers, NEW u \in Users, NEW i \in DOMAIN rows,
             NEW title \in Titles \cup {None}, NEW content \in Texts \cup {None},
             BeginPatch(w, u, i, title, content)
      PROVE  TypeOK'
  <2>1. rows[i] \in Row /\ i \in Nat
      BY <1>2, LiveRows DEF BeginPatch, OfKind, TypeOK
  <2>2. [phase |-> "patching", id |-> i, loaded |-> rows[i],
         body |-> [title |-> title, content |-> content]] \in Patch
      BY <2>1 DEF Patch
  <2> QED
      BY <1>2, <2>2 DEF BeginPatch, TypeOK
<1>3. ASSUME NEW w \in Workers, CommitPatch(w) PROVE TypeOK'
  <2>1. request[w] \in Patch
      BY <1>3 DEF CommitPatch, TypeOK, Idle, Deletion
  <2>2. request[w].id \in DOMAIN rows /\ rows[request[w].id] \in Row
      BY <1>3, LiveRows DEF CommitPatch
  <2>3. Patched(rows[request[w].id], request[w].loaded, request[w].body) \in Row
      BY <2>1, <2>2, PatchedRow DEF Patch
  <2>4. rows' \in Seq(Row \cup {Deleted})
      BY <1>3, <2>2, <2>3 DEF CommitPatch, TypeOK
  <2>5. asked' \in Seq(Asked)
    <3> DEFINE i == request[w].id
               b == request[w].body
    <3>1. b.title \in Titles \cup {None} /\ b.content \in Texts \cup {None}
        BY <2>1 DEF Patch
    <3>2. asked' = [asked EXCEPT ![i] = AskedAfter(asked[i], b)]
        BY <1>3 DEF CommitPatch
    <3> HIDE DEF i, b
    <3>3. i \in DOMAIN asked => AskedAfter(asked[i], b) \in Asked
      <4> SUFFICES ASSUME i \in DOMAIN asked PROVE AskedAfter(asked[i], b) \in Asked
          OBVIOUS
      <4>1. asked[i] \in Asked
          BY DEF TypeOK
      <4> QED
          BY <3>1, <4>1 DEF Asked, AskedAfter
    <3> QED
        BY <3>2, <3>3, Replaced DEF TypeOK
  <2> QED
      BY <1>3, <2>4, <2>5 DEF CommitPatch, TypeOK
<1>4. ASSUME NEW w \in Workers, NEW u \in Users, NEW i \in DOMAIN rows,
             BeginDelete(w, u, i)
      PROVE  TypeOK'
  <2>1. [phase |-> "deleting", id |-> i,
         children |-> {j \in DOMAIN rows :
                          OfKind(j, "message") /\ rows[j].recipient = i}] \in Deletion
      BY DEF Deletion, TypeOK
  <2> QED
      BY <1>4, <2>1 DEF BeginDelete, TypeOK
<1>5. ASSUME NEW w \in Workers, CommitDelete(w) PROVE TypeOK'
  <2>1. \A j \in DOMAIN rows : rows'[j] \in Row \cup {Deleted}
      BY <1>5, DetachedRow
  <2>2. /\ Len(rows) \in Nat /\ DOMAIN rows = 1..Len(rows)
        /\ rows' = [j \in 1..Len(rows) |-> rows'[j]]
      BY <1>5 DEF CommitDelete, TypeOK
  <2>3. rows' \in Seq(Row \cup {Deleted})
      BY <2>1, <2>2
  <2> QED
      BY <1>5, <2>3 DEF CommitDelete, TypeOK
<1>6. ASSUME NEW w \in Workers, Abort(w) PROVE TypeOK'
    BY <1>6 DEF Abort, TypeOK
<1>7. CASE UNCHANGED vars
    BY <1>7 DEF vars, TypeOK
<1> QED
    BY <1>1, <1>2, <1>3, <1>4, <1>5, <1>6, <1>7 DEF Next, Serve

(* The rows keep their types.                                              *)
THEOREM TypeCorrect == Spec => []TypeOK
  BY TypeInit, TypeNext, PTL DEF Spec

-----------------------------------------------------------------------------
(* What is stored reads back *)

(* Under one key a text is with its nonce; under the other, with the owner *)
(* it was sealed for and the version that says so.  Only memories and      *)
(* messages are ever sealed for their owner.                               *)
Sound(row, a) ==
    /\ row.kind \in {"memory", "message"} =>
          /\ row.sealed \in Sealed
          /\ row.sealed.text = a.text
          /\ row.sealed.scheme = "envelope" => row.sealed.owner = row.owner
                                              /\ row.version = 2
          /\ row.sealed.scheme = "legacy" => row.iv
    /\ row.kind \in {"contact", "event"} =>
          \/ row.sealed = None /\ a.text = None
          \/ /\ row.sealed \in Sealed
             /\ row.sealed.scheme = "legacy"
             /\ row.sealed.text = a.text
             /\ row.iv
    /\ row.kind = "memory" => row.version = 2

(* A change under way loaded a memory of the owner the row still has.      *)
Loaded ==
    \A w \in Workers : request[w] \in Patch =>
        /\ request[w].id \in DOMAIN rows
        /\ request[w].loaded.version = 2
        /\ Stored(request[w].id) =>
              /\ rows[request[w].id].kind = "memory"
              /\ rows[request[w].id].owner = request[w].loaded.owner

Readable ==
    /\ DOMAIN asked = DOMAIN rows
    /\ \A i \in DOMAIN rows : Stored(i) => Sound(rows[i], asked[i])

Inv == TypeOK /\ Readable /\ Loaded

LEMMA SoundReads ==
    ASSUME NEW row \in Row, NEW a, Sound(row, a)
    PROVE  ReadBack(row) = a.text
<1>1. row.kind \in Kind /\ row.version \in 1..2 /\ row.iv \in BOOLEAN
    BY DEF Row
<1>2. CASE row.kind \in {"memory", "message"}
  <2>1. row.sealed.scheme \in {"envelope", "legacy"}
      BY <1>2 DEF Sound, Sealed
  <2>2. CASE row.sealed.scheme = "envelope"
    <3>1. /\ row.version = 2 /\ row.sealed.owner = row.owner
          /\ row.sealed.text = a.text
        BY <1>2, <2>2 DEF Sound
    <3>2. ReadBack(row) = DecryptUserText(row.sealed, row.owner)
        BY <1>2, <2>2, <3>1 DEF ReadBack, ReadVersioned
    <3> QED
        BY <2>2, <3>1, <3>2 DEF DecryptUserText
  <2>3. CASE row.sealed.scheme = "legacy"
      BY <1>2, <2>3 DEF Sound, ReadBack, ReadVersioned, DecryptText
  <2> QED
      BY <2>1, <2>2, <2>3
<1>3. CASE row.kind \in {"contact", "event"}
    BY <1>3, NoneAssumption DEF Sound, ReadBack, ReadNoted, DecryptText
<1> QED
    BY <1>1, <1>2, <1>3 DEF Kind

LEMMA SeededSound ==
    ASSUME NEW title \in Titles, NEW text \in Texts
    PROVE  \A kind \in Kind, version \in 1..2, recipient \in Nat \cup {None} :
              (kind = "memory" => version = 2) =>
                 Sound(NewRow(kind, Demo, title, EncryptText(text), TRUE, version,
                              recipient),
                       [title |-> title, text |-> text])
<1> SUFFICES ASSUME NEW kind \in Kind, NEW version \in 1..2,
                    NEW recipient \in Nat \cup {None},
                    kind = "memory" => version = 2
             PROVE  Sound(NewRow(kind, Demo, title, EncryptText(text), TRUE, version,
                                 recipient),
                          [title |-> title, text |-> text])
    OBVIOUS
<1> DEFINE row == NewRow(kind, Demo, title, EncryptText(text), TRUE, version, recipient)
<1>1. EncryptText(text) \in Sealed
    BY ArchiveAssumption, Ciphertexts
<1>2. EncryptText(text).scheme = "legacy" /\ EncryptText(text).text = text
    BY DEF EncryptText
<1>3. /\ row.kind = kind /\ row.sealed = EncryptText(text)
      /\ row.iv = TRUE /\ row.version = version
    BY DEF NewRow
<1> HIDE DEF row
<1>4. [title |-> title, text |-> text].text = text
    OBVIOUS
<1> QED
    BY <1>1, <1>2, <1>3, <1>4 DEF Sound, row

LEMMA ReadableInit == Init => Readable /\ Loaded
<1> SUFFICES ASSUME NEW title \in Titles, NEW text \in Texts,
                    rows = Seeded(title, text),
                    asked = [i \in DOMAIN rows |->
                        [title |-> title, text |-> IF i = 1 THEN None ELSE text]],
                    request = [w \in Workers |-> Idle]
             PROVE  Readable /\ Loaded
    BY DEF Init
<1>1. DOMAIN rows = 1..4 /\ DOMAIN asked = 1..4
    BY DEF Seeded
<1>2. EncryptText(text) \in Sealed
    BY ArchiveAssumption, Ciphertexts
<1>2a. /\ {"contact", "event", "memory", "message"} = Kind
       /\ "memory" \in Kind /\ "event" \in Kind /\ "message" \in Kind
       /\ 1 \in 1..2 /\ 2 \in 1..2 /\ 1 \in Nat \cup {None}
       /\ None \in Nat \cup {None} /\ "event" # "memory" /\ "message" # "memory"
    BY DEF Kind
<1>3. \A i \in 1..4 : Sound(rows[i], asked[i])
  <2>1. Sound(rows[1], asked[1])
      BY <1>1 DEF Seeded, Sound, NewRow
  <2>2. Sound(rows[2], asked[2])
    <3>1. /\ rows[2] = NewRow("memory", Demo, title, EncryptText(text), TRUE, 2, None)
          /\ asked[2] = [title |-> title, text |-> text]
        BY <1>1 DEF Seeded
    <3>2. Sound(NewRow("memory", Demo, title, EncryptText(text), TRUE, 2, None),
                [title |-> title, text |-> text])
        BY <1>2a, SeededSound
    <3> QED
        BY <3>1, <3>2
  <2>3. Sound(rows[3], asked[3])
    <3>1. /\ rows[3] = NewRow("event", Demo, title, EncryptText(text), TRUE, 2, None)
          /\ asked[3] = [title |-> title, text |-> text]
        BY <1>1 DEF Seeded
    <3>2. Sound(NewRow("event", Demo, title, EncryptText(text), TRUE, 2, None),
                [title |-> title, text |-> text])
        BY <1>2a, SeededSound
    <3> QED
        BY <3>1, <3>2
  <2>4. Sound(rows[4], asked[4])
    <3>1. /\ rows[4] = NewRow("message", Demo, title, EncryptText(text), TRUE, 1, 1)
          /\ asked[4] = [title |-> title, text |-> text]
        BY <1>1 DEF Seeded
    <3>2. Sound(NewRow("message", Demo, title, EncryptText(text), TRUE, 1, 1),
                [title |-> title, text |-> text])
        BY <1>2a, SeededSound
    <3> QED
        BY <3>1, <3>2
  <2>5. \A i \in 1..4 : i = 1 \/ i = 2 \/ i = 3 \/ i = 4
      OBVIOUS
  <2> QED
      BY <2>1, <2>2, <2>3, <2>4, <2>5
<1>4. Loaded
    BY DEF Loaded, Idle, Patch
<1> QED
    BY <1>1, <1>3, <1>4 DEF Readable

(* A row that is added reads back, and no other is touched.                *)
LEMMA InsertReadable ==
    ASSUME Inv, NEW row \in Row, NEW title, NEW text, Insert(row, title, text),
           Sound(row, [title |-> title, text |-> text])
    PROVE  Readable' /\ Loaded'
<1> USE DEF Inv
<1>1. /\ DOMAIN rows = 1..Len(rows) /\ DOMAIN asked = 1..Len(rows)
      /\ Len(rows) \in Nat /\ Len(asked) = Len(rows)
    BY DEF TypeOK, Readable
<1>2. /\ rows' = Append(rows, row)
      /\ asked' = Append(asked, [title |-> title, text |-> text])
      /\ request' = request
    BY DEF Insert
<1>3. /\ DOMAIN rows' = DOMAIN rows \cup {Len(rows) + 1}
      /\ DOMAIN asked' = DOMAIN rows'
      /\ \A i \in DOMAIN rows : rows'[i] = rows[i] /\ asked'[i] = asked[i]
      /\ rows'[Len(rows) + 1] = row
      /\ asked'[Len(rows) + 1] = [title |-> title, text |-> text]
    BY <1>1, <1>2 DEF TypeOK
<1>4. Readable'
    BY <1>3 DEF Readable, Stored
<1>5. Loaded'
    BY <1>2, <1>3 DEF Loaded, Stored
<1> QED
    BY <1>4, <1>5

LEMMA CreateReadable ==
    ASSUME Inv, NEW u \in Users, NEW title \in Titles, Create(u, title)
    PROVE  Readable' /\ Loaded'
<1>1. ASSUME NEW text \in Texts \cup {None}, CreateContact(u, title, text)
      PROVE  Readable' /\ Loaded'
  <2> DEFINE row == NewRow("contact", u, title,
                           IF text = None THEN None ELSE EncryptText(text),
                           text # None, 1, None)
  <2>1. row \in Row
      BY Ciphertexts DEF NewRow, Row, Kind
  <2>2. Sound(row, [title |-> title, text |-> text])
      BY Ciphertexts DEF NewRow, Sound, EncryptText
  <2> QED
      BY <1>1, <2>1, <2>2, InsertReadable DEF CreateContact
<1>2. ASSUME NEW text \in Texts \cup {None}, CreateEvent(u, title, text)
      PROVE  Readable' /\ Loaded'
  <2> DEFINE row == NewRow("event", u, title,
                           IF text = None THEN None ELSE EncryptText(text),
                           text # None, 2, None)
  <2>1. row \in Row
      BY Ciphertexts DEF NewRow, Row, Kind
  <2>2. Sound(row, [title |-> title, text |-> text])
      BY Ciphertexts DEF NewRow, Sound, EncryptText
  <2> QED
      BY <1>2, <2>1, <2>2, InsertReadable DEF CreateEvent
<1>3. ASSUME NEW text \in Texts, CreateMemory(u, title, text)
      PROVE  Readable' /\ Loaded'
  <2> DEFINE row == NewRow("memory", u, title, EncryptUserText(text, u), FALSE, 2, None)
  <2>1. row \in Row
      BY Ciphertexts DEF NewRow, Row, Kind
  <2>2. Sound(row, [title |-> title, text |-> text])
      BY Ciphertexts DEF NewRow, Sound, EncryptUserText
  <2> QED
      BY <1>3, <2>1, <2>2, InsertReadable DEF CreateMemory
<1>4. ASSUME NEW text \in Texts, NEW recipient \in Nameable \cup {None},
             CreateMessage(u, title, text, recipient)
      PROVE  Readable' /\ Loaded'
  <2> DEFINE row == NewRow("message", u, title, EncryptUserText(text, u), FALSE, 2,
                           recipient)
  <2>1. recipient \in Nat \cup {None}
      BY DEF Nameable, Inv, TypeOK
  <2>2. row \in Row
      BY <2>1, Ciphertexts DEF NewRow, Row, Kind
  <2>3. Sound(row, [title |-> title, text |-> text])
      BY Ciphertexts DEF NewRow, Sound, EncryptUserText
  <2> QED
      BY <1>4, <2>2, <2>3, InsertReadable DEF CreateMessage
<1> QED
    BY <1>1, <1>2, <1>3, <1>4 DEF Create

(* A change writes what it was asked to, and moves the text from one       *)
(* scheme to the other as a whole.                                         *)
LEMMA PatchedSound ==
    ASSUME NEW row \in Row, NEW loaded \in Row, NEW body, NEW a,
           body \in [title : Titles \cup {None}, content : Texts \cup {None}],
           row.kind = "memory", row.owner = loaded.owner, loaded.version = 2,
           Sound(row, a)
    PROVE  /\ Sound(Patched(row, loaded, body), AskedAfter(a, body))
           /\ Patched(row, loaded, body).kind = row.kind
           /\ Patched(row, loaded, body).owner = row.owner
           /\ \/ Patched(row, loaded, body).sealed = row.sealed
              \/ /\ Patched(row, loaded, body).sealed.scheme = "envelope"
                 /\ Patched(row, loaded, body).sealed.owner = row.owner
<1> DEFINE p == Patched(row, loaded, body)
<1>1. /\ p.kind = row.kind /\ p.owner = row.owner /\ p.version = row.version
      /\ p.sealed = IF body.content # None
                    THEN EncryptUserText(body.content, loaded.owner) ELSE row.sealed
      /\ body.content = None => p.iv = row.iv
    BY DEF Patched, Row
<1> HIDE DEF p
<1>2. row.version = 2 /\ row.sealed \in Sealed /\ row.sealed.text = a.text
    BY DEF Sound
<1>3. CASE body.content = None
    BY <1>1, <1>2, <1>3 DEF Sound, AskedAfter, p
<1>4. CASE body.content # None
  <2>1. /\ p.sealed \in Sealed
        /\ p.sealed.scheme = "envelope"
        /\ p.sealed.owner = row.owner
        /\ p.sealed.text = body.content
    <3>1. body.content \in Texts /\ loaded.owner \in Users
        BY <1>4 DEF Row
    <3> QED
        BY <1>1, <1>4, <3>1, Ciphertexts DEF EncryptUserText
  <2>2. AskedAfter(a, body).text = body.content
      BY <1>4 DEF AskedAfter
  <2> QED
      BY <1>1, <1>2, <2>1, <2>2 DEF Sound, p
<1> QED
    BY <1>3, <1>4

(* What a step may do to a stored row: delete it, take its recipient off,  *)
(* or change it as a memory is changed.                                    *)
LEMMA RowsStay ==
    ASSUME Inv, [Next]_vars, NEW i \in DOMAIN rows, Stored(i)
    PROVE  \/ rows'[i] = Deleted
           \/ /\ rows'[i] \in Row
              /\ rows'[i].kind = rows[i].kind
              /\ rows'[i].owner = rows[i].owner
              /\ \/ rows'[i].sealed = rows[i].sealed
                 \/ /\ rows'[i].sealed.scheme = "envelope"
                    /\ rows'[i].sealed.owner = rows[i].owner
<1> USE DEF Inv
<1>1. rows[i] \in Row
    BY LiveRows
<1>a. ASSUME rows' = rows
      PROVE  /\ rows'[i] \in Row
             /\ rows'[i].kind = rows[i].kind
             /\ rows'[i].owner = rows[i].owner
             /\ rows'[i].sealed = rows[i].sealed
    BY <1>1, <1>a
<1>2. ASSUME NEW u \in Users, NEW title \in Titles, Create(u, title)
      PROVE  rows'[i] = rows[i]
  <2>1. \E row : rows' = Append(rows, row)
      BY <1>2 DEF Create, CreateContact, CreateEvent, CreateMemory, CreateMessage,
                  Insert
  <2>2. \A S, row : \A s \in Seq(S) : \A j \in DOMAIN s : Append(s, row)[j] = s[j]
      OBVIOUS
  <2> QED
      BY <2>1, <2>2 DEF TypeOK
<1>3. ASSUME NEW w \in Workers, CommitPatch(w), request[w].id = i
      PROVE  /\ rows'[i] \in Row
             /\ rows'[i].kind = rows[i].kind
             /\ rows'[i].owner = rows[i].owner
             /\ \/ rows'[i].sealed = rows[i].sealed
                \/ /\ rows'[i].sealed.scheme = "envelope"
                   /\ rows'[i].sealed.owner = rows[i].owner
  <2>1. request[w] \in Patch
      BY <1>3 DEF CommitPatch, TypeOK, Idle, Deletion
  <2>2. rows'[i] = Patched(rows[i], request[w].loaded, request[w].body)
      BY <1>3 DEF CommitPatch, TypeOK
  <2>3. /\ rows[i].kind = "memory" /\ rows[i].owner = request[w].loaded.owner
        /\ request[w].loaded.version = 2
      BY <1>3, <2>1 DEF Loaded
  <2>4. Sound(rows[i], asked[i])
      BY DEF Readable
  <2>5. /\ request[w].loaded \in Row
        /\ request[w].body \in [title : Titles \cup {None}, content : Texts \cup {None}]
      BY <2>1 DEF Patch
  <2>6. rows'[i] \in Row
      BY <1>1, <2>2, <2>5, PatchedRow
  <2> QED
      BY <1>1, <2>2, <2>3, <2>4, <2>5, <2>6, PatchedSound
<1>4. ASSUME NEW w \in Workers, CommitPatch(w), request[w].id # i
      PROVE  rows'[i] = rows[i]
    BY <1>4 DEF CommitPatch, TypeOK
<1>5. ASSUME NEW w \in Workers, CommitDelete(w)
      PROVE  \/ rows'[i] = Deleted
             \/ /\ rows'[i] \in Row
                /\ rows'[i].kind = rows[i].kind
                /\ rows'[i].owner = rows[i].owner
                /\ rows'[i].sealed = rows[i].sealed
  <2>1. \A row \in Row : LET r == [row EXCEPT !.recipient = None]
                         IN  /\ r \in Row /\ r.kind = row.kind
                             /\ r.owner = row.owner /\ r.sealed = row.sealed
      BY DEF Row
  <2> QED
      BY <1>1, <1>5, <2>1, DetachedRow
<1>6. ASSUME NEW w \in Workers, Abort(w) PROVE rows' = rows
    BY <1>6 DEF Abort
<1>7. CASE UNCHANGED vars
    BY <1>7, <1>a DEF vars
<1>8. ASSUME NEW w \in Workers, Serve(w)
      PROVE  \/ CommitPatch(w)
             \/ CommitDelete(w)
             \/ rows' = rows
    BY <1>8, <1>6 DEF Serve, BeginPatch, BeginDelete
<1>9. \/ \E u \in Users, title \in Titles : Create(u, title)
      \/ \E w \in Workers : Serve(w)
      \/ UNCHANGED vars
    BY DEF Next
<1>10. \/ rows'[i] = rows[i]
       \/ \E w \in Workers : CommitPatch(w) /\ request[w].id = i
       \/ \E w \in Workers : CommitDelete(w)
    BY <1>2, <1>4, <1>7, <1>8, <1>9 DEF vars
<1>11. CASE rows'[i] = rows[i]
    BY <1>1, <1>11
<1>12. CASE \E w \in Workers : CommitPatch(w) /\ request[w].id = i
    BY <1>3, <1>12
<1>13. CASE \E w \in Workers : CommitDelete(w)
    BY <1>5, <1>13
<1> QED
    BY <1>10, <1>11, <1>12, <1>13

LEMMA ReadableNext == Inv /\ [Next]_vars => Readable' /\ Loaded'
<1> SUFFICES ASSUME Inv, [Next]_vars PROVE Readable' /\ Loaded'
    OBVIOUS
<1> USE DEF Inv
<1>0. TypeOK'
    BY TypeNext
(* Requests that were under way stay good for the row they loaded.         *)
<1>a. ASSUME DOMAIN rows \subseteq DOMAIN rows',
             \A w \in Workers : request'[w] \in Patch => request'[w] = request[w],
             \A i \in DOMAIN rows' : Stored(i)' => Stored(i)
      PROVE  Loaded'
  <2> SUFFICES ASSUME NEW w \in Workers, request'[w] \in Patch
               PROVE  /\ request[w].id \in DOMAIN rows'
                      /\ request[w].loaded.version = 2
                      /\ Stored(request[w].id)' =>
                            /\ rows'[request[w].id].kind = "memory"
                            /\ rows'[request[w].id].owner = request[w].loaded.owner
      BY <1>a DEF Loaded
  <2>1. /\ request[w].id \in DOMAIN rows
        /\ request[w].loaded.version = 2
        /\ Stored(request[w].id) =>
              /\ rows[request[w].id].kind = "memory"
              /\ rows[request[w].id].owner = request[w].loaded.owner
      BY <1>a DEF Loaded
  <2>2. ASSUME Stored(request[w].id)'
        PROVE  /\ rows'[request[w].id].kind = "memory"
               /\ rows'[request[w].id].owner = request[w].loaded.owner
    <3>1. Stored(request[w].id)
        BY <1>a, <2>1, <2>2 DEF Stored
    <3>2. rows'[request[w].id] # Deleted
        BY <1>a, <2>2 DEF Stored
    <3> QED
        BY <2>1, <3>1, <3>2, RowsStay
  <2> QED
      BY <1>a, <2>1, <2>2
<1>1. ASSUME NEW u \in Users, NEW title \in Titles, Create(u, title)
      PROVE  Readable' /\ Loaded'
    BY <1>1, CreateReadable
<1>2. ASSUME NEW w \in Workers, NEW u \in Users, NEW i \in DOMAIN rows,
             NEW title \in Titles \cup {None}, NEW content \in Texts \cup {None},
             BeginPatch(w, u, i, title, content)
      PROVE  Readable' /\ Loaded'
  <2>1. Sound(rows[i], asked[i]) /\ rows[i].kind = "memory"
      BY <1>2 DEF BeginPatch, OfKind, Readable
  <2>2. rows[i].version = 2
      BY <2>1 DEF Sound
  <2>3. Loaded'
      BY <1>2, <2>1, <2>2 DEF BeginPatch, Loaded, TypeOK, Stored
  <2>4. Readable'
      BY <1>2 DEF BeginPatch, Readable, Stored
  <2> QED
      BY <2>3, <2>4
<1>3. ASSUME NEW w \in Workers, CommitPatch(w) PROVE Readable' /\ Loaded'
  <2> DEFINE i == request[w].id
  <2>1. /\ request[w] \in Patch /\ request[w] # Idle
        /\ i \in DOMAIN rows /\ Stored(i)
      BY <1>3 DEF CommitPatch, TypeOK, Idle, Deletion, Stored
  <2>2. /\ DOMAIN rows' = DOMAIN rows /\ DOMAIN asked' = DOMAIN asked
        /\ rows' = [rows EXCEPT
              ![i] = Patched(rows[i], request[w].loaded, request[w].body)]
        /\ asked' = [asked EXCEPT ![i] = AskedAfter(asked[i], request[w].body)]
        /\ request' = [request EXCEPT ![w] = Idle]
      BY <1>3 DEF CommitPatch
  <2>3. /\ request[w].loaded \in Row
        /\ request[w].body \in [title : Titles \cup {None}, content : Texts \cup {None}]
      BY <2>1 DEF Patch
  <2>4. Sound(Patched(rows[i], request[w].loaded, request[w].body),
              AskedAfter(asked[i], request[w].body))
    <3>1. rows[i] \in Row
        BY <2>1, LiveRows
    <3>2. Sound(rows[i], asked[i])
        BY <2>1 DEF Readable
    <3> QED
        BY <2>1, <2>3, <3>1, <3>2, PatchedSound DEF Loaded
  <2> HIDE DEF i
  <2>5. \A j \in DOMAIN rows : Stored(j)' => Stored(j)
      BY <2>1, <2>2 DEF Stored
  <2>6. Readable'
    <3>1. Sound(rows'[i], asked'[i])
        BY <2>1, <2>2, <2>4 DEF Readable
    <3>2. \A j \in DOMAIN rows : j # i => rows'[j] = rows[j] /\ asked'[j] = asked[j]
        BY <2>2 DEF Readable
    <3> QED
        BY <2>2, <2>5, <3>1, <3>2 DEF Readable
  <2>7. Idle \notin Patch
      BY DEF Idle, Patch
  <2>8. Loaded'
      BY <1>a, <2>2, <2>5, <2>7 DEF TypeOK
  <2> QED
      BY <2>6, <2>8
<1>4. ASSUME NEW w \in Workers, NEW u \in Users, NEW i \in DOMAIN rows,
             BeginDelete(w, u, i)
      PROVE  Readable' /\ Loaded'
  <2>1. /\ rows' = rows /\ asked' = asked
        /\ \A v \in Workers : request'[v] \in Patch => request'[v] = request[v]
      BY <1>4 DEF BeginDelete, TypeOK, Patch
  <2> QED
      BY <1>a, <2>1 DEF Readable, Stored
<1>5. ASSUME NEW w \in Workers, CommitDelete(w) PROVE Readable' /\ Loaded'
  <2>1. /\ DOMAIN rows' = DOMAIN rows /\ asked' = asked
        /\ request' = [request EXCEPT ![w] = Idle]
      BY <1>5 DEF CommitDelete
  <2>2. \A j \in DOMAIN rows : Stored(j)' => Stored(j)
    <3>1. [Deleted EXCEPT !.recipient = None] = Deleted
        BY DEF Deleted
    <3>2. \A j \in DOMAIN rows : \/ rows'[j] = Deleted
                                 \/ rows'[j] = rows[j]
                                 \/ rows'[j] = [rows[j] EXCEPT !.recipient = None]
        BY <1>5 DEF CommitDelete
    <3> QED
        BY <2>1, <3>1, <3>2 DEF Stored
  <2>3. Readable'
    <3> SUFFICES ASSUME NEW j \in DOMAIN rows, Stored(j)'
                 PROVE  Sound(rows'[j], asked[j])
        BY <2>1 DEF Readable
    <3>1. rows[j] \in Row /\ Sound(rows[j], asked[j])
        BY <2>2, LiveRows DEF Readable
    <3>2. \A row \in Row : LET r == [row EXCEPT !.recipient = None]
                           IN  /\ r.kind = row.kind /\ r.owner = row.owner
                               /\ r.sealed = row.sealed /\ r.iv = row.iv
                               /\ r.version = row.version
        BY DEF Row
    <3>3. /\ rows'[j].kind = rows[j].kind /\ rows'[j].owner = rows[j].owner
          /\ rows'[j].sealed = rows[j].sealed /\ rows'[j].iv = rows[j].iv
          /\ rows'[j].version = rows[j].version
        BY <1>5, <3>1, <3>2, DetachedRow DEF Stored
    <3> QED
        BY <3>1, <3>3 DEF Sound
  <2>4. Idle \notin Patch
      BY DEF Idle, Patch
  <2>5. Loaded'
      BY <1>a, <2>1, <2>2, <2>4 DEF TypeOK
  <2> QED
      BY <2>3, <2>5
<1>6. ASSUME NEW w \in Workers, Abort(w) PROVE Readable' /\ Loaded'
  <2>1. /\ rows' = rows /\ asked' = asked
        /\ \A v \in Workers : request'[v] \in Patch => request'[v] = request[v]
      BY <1>6 DEF Abort, TypeOK, Patch, Idle
  <2> QED
      BY <1>a, <2>1 DEF Readable, Stored
<1>7. CASE UNCHANGED vars
    BY <1>7, <1>a DEF vars, Readable, Stored
<1> QED
    BY <1>1, <1>2, <1>3, <1>4, <1>5, <1>6, <1>7 DEF Next, Serve

LEMMA InvInit == Init => Inv
  BY TypeInit, ReadableInit DEF Inv

LEMMA InvNext == Inv /\ [Next]_vars => Inv'
  BY TypeNext, ReadableNext DEF Inv

LEMMA AlwaysInv == Spec => []Inv
  BY InvInit, InvNext, PTL DEF Spec

(* Whatever endpoint stored a text, and however requests interleave, it    *)
(* reads back as it was committed last.                                    *)
THEOREM TextsReadBack == Spec => []LastTextReads
<1>1. Inv => LastTextReads
    BY LiveRows, SoundReads DEF Inv, Readable, LastTextReads, Stored
<1> QED
    BY <1>1, AlwaysInv, PTL

(* What is sealed for its owner is never put back under the shared key.    *)
THEOREM TextsStaySealed == Spec => SealedForGood
<1> DEFINE Kept ==
       \A i \in DOMAIN rows :
          Stored(i) /\ rows[i].sealed # None /\ rows[i].sealed.scheme = "envelope"
              => \/ rows'[i] = Deleted
                 \/ /\ rows'[i].sealed.scheme = "envelope"
                    /\ rows'[i].sealed.owner = rows[i].owner
<1>1. Inv /\ [Next]_vars => [Kept]_vars
  <2> SUFFICES ASSUME Inv, [Next]_vars, NEW i \in DOMAIN rows, Stored(i),
                      rows[i].sealed # None, rows[i].sealed.scheme = "envelope"
               PROVE  \/ rows'[i] = Deleted
                      \/ /\ rows'[i].sealed.scheme = "envelope"
                         /\ rows'[i].sealed.owner = rows[i].owner
      OBVIOUS
  <2>1. rows[i] \in Row /\ Sound(rows[i], asked[i])
      BY LiveRows DEF Inv, Readable
  <2>2. rows[i].sealed.owner = rows[i].owner
      BY <2>1 DEF Sound, Row, Kind
  <2> QED
      BY <2>2, RowsStay
<1>2. Spec => [][Kept]_vars
    BY <1>1, AlwaysInv, PTL DEF Spec
<1> QED
    BY <1>2 DEF SealedForGood

-----------------------------------------------------------------------------
(* The watched specification: until two requests overlap *)

(* What a request loaded is what the rows still are: a change under way    *)
(* has the title in hand, and a deletion every message that names the row. *)
Fresh(w) ==
    /\ request[w] \in Patch =>
          /\ Stored(request[w].id)
          /\ request[w].loaded.title = rows[request[w].id].title
    /\ request[w] \in Deletion =>
          \A j \in DOMAIN rows :
              OfKind(j, "message") /\ rows[j].recipient = request[w].id
                  => j \in request[w].children

(* Only messages have a recipient.                                         *)
OnlyMessages ==
    \A i \in DOMAIN rows :
        Stored(i) => rows[i].kind = "message" \/ rows[i].recipient = None

Alone == ~ overlapped => LastTitleShows /\ OnlyMessages /\ \A w \in Workers : Fresh(w)

LEMMA IdleIsFresh ==
    ASSUME NEW w, request[w] = Idle
    PROVE  Fresh(w)
  BY DEF Fresh, Idle, Patch, Deletion

(* Until two requests overlap, whoever takes a step is served alone.       *)
LEMMA OthersIdle ==
    ASSUME WatchedNext, ~ overlapped'
    PROVE  /\ ~ overlapped
           /\ \A w \in Workers : request'[w] = request[w] => request[w] = Idle
  BY DEF WatchedNext

(* What an endpoint creates: a row that is new.                            *)
LEMMA Creates ==
    ASSUME TypeOK, NEW u \in Users, NEW title \in Titles, Create(u, title)
    PROVE  \E row \in Row, text \in Texts \cup {None} :
              /\ Insert(row, title, text) /\ row.title = title
              /\ row.kind = "message" \/ row.recipient = None
<1> DEFINE Some == \E row \in Row, text \in Texts \cup {None} :
                      /\ Insert(row, title, text) /\ row.title = title
                      /\ row.kind = "message" \/ row.recipient = None
<1>1. /\ 1 \in 1..2 /\ 2 \in 1..2 /\ TRUE \in BOOLEAN /\ FALSE \in BOOLEAN
      /\ None \in Nat \cup {None} /\ None \in Sealed \cup {None}
      /\ "contact" \in Kind /\ "event" \in Kind /\ "memory" \in Kind
      /\ "message" \in Kind
    BY DEF Kind
<1>2. ASSUME NEW text \in Texts \cup {None},
             CreateContact(u, title, text) \/ CreateEvent(u, title, text)
      PROVE  Some
  <2> DEFINE sealed == IF text = None THEN None ELSE EncryptText(text)
             contact == NewRow("contact", u, title, sealed, text # None, 1, None)
             event == NewRow("event", u, title, sealed, text # None, 2, None)
  <2>1. sealed \in Sealed \cup {None} /\ (text # None) \in BOOLEAN
      BY Ciphertexts
  <2> HIDE DEF sealed
  <2>2. /\ contact \in Row /\ contact.title = title /\ contact.recipient = None
        /\ event \in Row /\ event.title = title /\ event.recipient = None
    <3>1. contact \in Row /\ event \in Row
        BY <1>1, <2>1 DEF NewRow, Row
    <3> QED
        BY <3>1 DEF NewRow
  <2>3. Insert(contact, title, text) \/ Insert(event, title, text)
      BY <1>2 DEF CreateContact, CreateEvent, sealed
  <2> HIDE DEF contact, event
  <2> QED
      BY <2>2, <2>3
<1>3. ASSUME NEW text \in Texts, CreateMemory(u, title, text) PROVE Some
  <2> DEFINE row == NewRow("memory", u, title, EncryptUserText(text, u), FALSE, 2, None)
  <2>1. row \in Row /\ row.title = title /\ row.recipient = None
    <3>1. row \in Row
        BY <1>1, Ciphertexts DEF NewRow, Row
    <3> QED
        BY <3>1 DEF NewRow
  <2>2. Insert(row, title, text)
      BY <1>3 DEF CreateMemory
  <2> HIDE DEF row
  <2> QED
      BY <2>1, <2>2
<1>4. ASSUME NEW text \in Texts, NEW recipient \in Nameable \cup {None},
             CreateMessage(u, title, text, recipient)
      PROVE  Some
  <2> DEFINE row == NewRow("message", u, title, EncryptUserText(text, u), FALSE, 2,
                           recipient)
  <2>1. recipient \in Nat \cup {None}
      BY DEF Nameable, TypeOK
  <2>2. row \in Row /\ row.title = title /\ row.kind = "message"
    <3>1. row \in Row
        BY <1>1, <2>1, Ciphertexts DEF NewRow, Row
    <3> QED
        BY <3>1 DEF NewRow
  <2>3. Insert(row, title, text)
      BY <1>4 DEF CreateMessage
  <2> HIDE DEF row
  <2> QED
      BY <2>2, <2>3
<1> QED
    BY <1>2, <1>3, <1>4 DEF Create

LEMMA AloneInit == WatchedInit => Alone
<1> SUFFICES ASSUME NEW title \in Titles, NEW text \in Texts,
                    rows = Seeded(title, text),
                    asked = [i \in DOMAIN rows |->
                        [title |-> title, text |-> IF i = 1 THEN None ELSE text]],
                    request = [w \in Workers |-> Idle]
             PROVE  Alone
    BY DEF WatchedInit, Init
<1>1. DOMAIN rows = 1..4 /\ \A i \in 1..4 : asked[i].title = title
    BY DEF Seeded
<1>2. \A i \in 1..4 : i = 1 \/ i = 2 \/ i = 3 \/ i = 4
    OBVIOUS
<1>3. \A i \in 1..4 : /\ rows[i].title = title
                      /\ rows[i].kind = "message" \/ rows[i].recipient = None
    BY <1>2 DEF Seeded, NewRow
<1> QED
    BY <1>1, <1>3, IdleIsFresh DEF Alone, LastTitleShows, OnlyMessages

(* What a change does to the row it loaded.                                *)
LEMMA PatchedTitle ==
    ASSUME TypeOK, NEW w \in Workers, Fresh(w), CommitPatch(w)
    PROVE  /\ request[w] \in Patch /\ Stored(request[w].id)
           /\ rows' = [rows EXCEPT ![request[w].id] = rows'[request[w].id]]
           /\ asked' = [asked EXCEPT ![request[w].id] = asked'[request[w].id]]
           /\ rows'[request[w].id] \in Row
           /\ rows'[request[w].id].kind = rows[request[w].id].kind
           /\ rows'[request[w].id].recipient = rows[request[w].id].recipient
           /\ /\ request[w].id \in DOMAIN asked
              /\ rows[request[w].id].title = asked[request[w].id].title
              => rows'[request[w].id].title = asked'[request[w].id].title
<1> DEFINE i == request[w].id
           loaded == request[w].loaded
           body == request[w].body
<1>1. request[w] \in Patch /\ Stored(i)
    BY DEF CommitPatch, TypeOK, Idle, Deletion
<1>2. /\ loaded \in Row /\ loaded.title = rows[i].title
      /\ body \in [title : Titles \cup {None}, content : Texts \cup {None}]
      /\ i \in DOMAIN rows /\ rows[i] \in Row
    BY <1>1, LiveRows DEF Fresh, Patch
<1>3. /\ rows' = [rows EXCEPT ![i] = Patched(rows[i], loaded, body)]
      /\ asked' = [asked EXCEPT ![i] = AskedAfter(asked[i], body)]
    BY DEF CommitPatch
<1> HIDE DEF i, loaded, body
<1>4. PICK p : p = Patched(rows[i], loaded, body)
    OBVIOUS
<1>5. /\ p \in Row /\ p.kind = rows[i].kind /\ p.recipient = rows[i].recipient
      /\ p.title = IF body.title \in {None, loaded.title} THEN rows[i].title
                   ELSE body.title
  <2>1. p \in Row
      BY <1>2, <1>4, PatchedRow
  <2>2. \A row \in Row :
           LET q == Patched(row, loaded, body)
           IN  /\ q.kind = row.kind /\ q.recipient = row.recipient
               /\ q.title = IF body.title \in {None, loaded.title} THEN row.title
                            ELSE body.title
      BY DEF Patched, Row
  <2> QED
      BY <1>2, <1>4, <2>1, <2>2
<1>6. /\ rows' = [rows EXCEPT ![i] = rows'[i]] /\ rows'[i] = p
      /\ asked' = [asked EXCEPT ![i] = asked'[i]]
      /\ i \in DOMAIN asked => asked'[i] = AskedAfter(asked[i], body)
    BY <1>2, <1>3, <1>4
<1>7. ASSUME i \in DOMAIN asked, rows[i].title = asked[i].title
      PROVE  rows'[i].title = asked'[i].title
  <2>1. asked'[i].title = IF body.title = None THEN asked[i].title ELSE body.title
      BY <1>6, <1>7 DEF AskedAfter
  <2> QED
      BY <1>2, <1>5, <1>6, <1>7, <2>1
<1> QED
    BY <1>1, <1>5, <1>6, <1>7 DEF i

(* What a deletion does to the other rows.                                 *)
LEMMA DetachedRest ==
    ASSUME TypeOK, NEW w \in Workers, Fresh(w), OnlyMessages, CommitDelete(w),
           NEW j \in DOMAIN rows, rows'[j] # Deleted
    PROVE  /\ DOMAIN rows' = DOMAIN rows
           /\ Stored(j) /\ rows'[j] \in Row /\ j # request[w].id
           /\ rows'[j].kind = rows[j].kind /\ rows'[j].title = rows[j].title
           /\ rows'[j].recipient \in {rows[j].recipient, None}
           /\ request[w].id \in Nat => rows'[j].recipient # request[w].id
<1>1. request[w] \in Deletion
    BY DEF CommitDelete, TypeOK, Idle, Patch
<1>2. /\ DOMAIN rows' = DOMAIN rows /\ j # request[w].id
      /\ rows'[j] = IF j \in request[w].children THEN [rows[j] EXCEPT !.recipient = None]
                    ELSE rows[j]
    BY DEF CommitDelete
<1>3. [Deleted EXCEPT !.recipient = None] = Deleted
    BY DEF Deleted
<1>4. Stored(j) /\ rows[j] \in Row
    BY <1>2, <1>3, LiveRows DEF Stored
<1>5. PICK r : r = [rows[j] EXCEPT !.recipient = None]
    OBVIOUS
<1>6. /\ r \in Row /\ r.kind = rows[j].kind /\ r.title = rows[j].title
      /\ r.recipient = None
    BY <1>4, <1>5 DEF Row
<1>7. None \notin Nat
    BY ArchiveAssumption
<1>8. j \notin request[w].children =>
         rows[j].recipient = None \/ rows[j].recipient # request[w].id
    BY <1>1, <1>4 DEF Fresh, OfKind, OnlyMessages
<1> QED
    BY <1>2, <1>4, <1>5, <1>6, <1>7, <1>8

LEMMA AloneNext == Inv /\ Alone /\ [WatchedNext]_<<vars, overlapped>> => Alone'
<1> SUFFICES ASSUME Inv, Alone, [WatchedNext]_<<vars, overlapped>>, ~ overlapped'
             PROVE  LastTitleShows' /\ OnlyMessages' /\ \A w \in Workers : Fresh(w)'
    BY DEF Alone
<1>1. CASE UNCHANGED <<vars, overlapped>>
    BY <1>1 DEF Alone, vars, LastTitleShows, OnlyMessages, Fresh, Stored, OfKind
<1>2. CASE WatchedNext
  <2>1. /\ LastTitleShows /\ OnlyMessages /\ \A w \in Workers : Fresh(w)
        /\ \A w \in Workers : request'[w] = request[w] => request[w] = Idle
        /\ TypeOK /\ DOMAIN asked = DOMAIN rows /\ Next
      BY <1>2, OthersIdle DEF Alone, Inv, Readable, WatchedNext
  <2>2. ASSUME NEW u \in Users, NEW title \in Titles, Create(u, title)
        PROVE  LastTitleShows' /\ OnlyMessages' /\ \A w \in Workers : Fresh(w)'
    <3>1. PICK row \in Row, text \in Texts \cup {None} :
             /\ Insert(row, title, text) /\ row.title = title
             /\ row.kind = "message" \/ row.recipient = None
        BY <2>1, <2>2, Creates
    <3>2. request' = request
        BY <3>1 DEF Insert
    <3>3. \A w \in Workers : Fresh(w)'
        BY <2>1, <3>2, IdleIsFresh DEF Fresh, Idle, Patch, Deletion
    <3>4. /\ DOMAIN rows' = DOMAIN rows \cup {Len(rows) + 1}
          /\ \A i \in DOMAIN rows : rows'[i] = rows[i] /\ asked'[i] = asked[i]
          /\ rows'[Len(rows) + 1] = row
          /\ asked'[Len(rows) + 1].title = title
      <4>1. PICK a : a = [title |-> title, text |-> text]
          OBVIOUS
      <4>2. a.title = title /\ rows' = Append(rows, row) /\ asked' = Append(asked, a)
          BY <3>1, <4>1 DEF Insert
      <4>3. Len(asked) = Len(rows)
          BY <2>1 DEF TypeOK
      <4> QED
          BY <2>1, <4>2, <4>3 DEF TypeOK
    <3> QED
        BY <2>1, <3>1, <3>3, <3>4 DEF LastTitleShows, OnlyMessages, Stored
  <2>3. ASSUME NEW w \in Workers, Serve(w)
        PROVE  LastTitleShows' /\ OnlyMessages' /\ \A v \in Workers : Fresh(v)'
    <3>1. \A v \in Workers : v # w => request'[v] = Idle
      <4>1. \A v \in Workers : v # w => request'[v] = request[v]
          BY <2>1, <2>3 DEF Serve, BeginPatch, CommitPatch, BeginDelete, CommitDelete,
                            Abort, TypeOK
      <4> QED
          BY <2>1, <4>1
    <3>2. \A v \in Workers : request'[v] = Idle => Fresh(v)'
        BY DEF Fresh, Idle, Patch, Deletion
    <3>3. ASSUME rows' = rows, asked' = asked PROVE LastTitleShows' /\ OnlyMessages'
        BY <2>1, <3>3 DEF LastTitleShows, OnlyMessages, Stored
    <3>4. ASSUME NEW u \in Users, NEW i \in DOMAIN rows,
                 NEW title \in Titles \cup {None}, NEW content \in Texts \cup {None},
                 BeginPatch(w, u, i, title, content)
          PROVE  rows' = rows /\ asked' = asked /\ Fresh(w)'
      <4>1. PICK b : b = [title |-> title, content |-> content]
          OBVIOUS
      <4>2. /\ rows' = rows /\ asked' = asked /\ Stored(i)
            /\ request'[w] = [phase |-> "patching", id |-> i, loaded |-> rows[i],
                              body |-> b]
          BY <2>1, <3>4, <4>1 DEF BeginPatch, OfKind, TypeOK
      <4>3. /\ request'[w].id = i /\ request'[w].loaded = rows[i]
            /\ request'[w] \notin Deletion
          BY <4>2 DEF Deletion
      <4> QED
          BY <4>2, <4>3 DEF Fresh, Stored
    <3>5. ASSUME NEW u \in Users, NEW i \in DOMAIN rows, BeginDelete(w, u, i)
          PROVE  rows' = rows /\ asked' = asked /\ Fresh(w)'
      <4>1. PICK c : c = {j \in DOMAIN rows :
                             OfKind(j, "message") /\ rows[j].recipient = i}
          OBVIOUS
      <4>2. /\ rows' = rows /\ asked' = asked
            /\ request'[w] = [phase |-> "deleting", id |-> i, children |-> c]
          BY <2>1, <3>5, <4>1 DEF BeginDelete, TypeOK
      <4>3. /\ request'[w].id = i /\ request'[w].children = c
            /\ request'[w] \notin Patch
          BY <4>2 DEF Patch
      <4> QED
          BY <4>1, <4>2, <4>3 DEF Fresh, OfKind, Stored
    <3>6. CASE CommitPatch(w)
      <4>1. request'[w] = Idle
          BY <2>1, <3>6 DEF CommitPatch, TypeOK
      <4>2. Stored(request[w].id) /\ rows'[request[w].id] # Deleted
            /\ \A j \in DOMAIN rows : j # request[w].id =>
                  rows'[j] = rows[j] /\ asked'[j] = asked[j]
          BY <2>1, <3>6, PatchedTitle, LiveRows DEF Stored
      <4>3. /\ rows'[request[w].id].title = asked'[request[w].id].title
            /\ rows'[request[w].id].kind = rows[request[w].id].kind
            /\ rows'[request[w].id].recipient = rows[request[w].id].recipient
            /\ DOMAIN rows' = DOMAIN rows
          BY <2>1, <3>6, <4>2, PatchedTitle DEF LastTitleShows, Stored
      <4> QED
          BY <2>1, <3>1, <3>2, <4>1, <4>2, <4>3 DEF LastTitleShows, OnlyMessages, Stored
    <3>7. CASE CommitDelete(w)
      <4>1. request'[w] = Idle /\ asked' = asked /\ DOMAIN rows' = DOMAIN rows
          BY <2>1, <3>7 DEF CommitDelete, TypeOK
      <4>2. ASSUME NEW j \in DOMAIN rows, rows'[j] # Deleted
            PROVE  /\ Stored(j) /\ rows'[j].kind = rows[j].kind
                   /\ rows'[j].title = rows[j].title
                   /\ rows'[j].recipient \in {rows[j].recipient, None}
          BY <2>1, <3>7, <4>2, DetachedRest
      <4> QED
          BY <2>1, <3>1, <3>2, <4>1, <4>2 DEF LastTitleShows, OnlyMessages, Stored
    <3>8. CASE Abort(w)
      <4>1. request'[w] = Idle /\ rows' = rows /\ asked' = asked
          BY <2>1, <3>8 DEF Abort, TypeOK
      <4> QED
          BY <3>1, <3>2, <3>3, <4>1
    <3> QED
        BY <2>3, <3>1, <3>2, <3>3, <3>4, <3>5, <3>6, <3>7, <3>8 DEF Serve
  <2> QED
      BY <2>1, <2>2, <2>3 DEF Next
<1> QED
    BY <1>1, <1>2

LEMMA AlwaysAlone == WatchedSpec => [](Inv /\ Alone)
<1>1. WatchedInit => Inv /\ Alone
    BY InvInit, AloneInit DEF WatchedInit
<1>2. Inv /\ Alone /\ [WatchedNext]_<<vars, overlapped>> => Inv' /\ Alone'
  <2>1. [WatchedNext]_<<vars, overlapped>> => [Next]_vars
      BY DEF WatchedNext
  <2> QED
      BY <2>1, InvNext, AloneNext
<1> QED
    BY <1>1, <1>2, PTL DEF WatchedSpec

(* Until two requests overlap, no change of a title is lost.               *)
THEOREM TitlesShow == WatchedSpec => []LastTitleShowsAlone
<1>1. Alone => LastTitleShowsAlone
    BY DEF Alone, LastTitleShowsAlone
<1> QED
    BY <1>1, AlwaysAlone, PTL

(* Until two requests overlap, no message is left to a contact that a step *)
(* deletes: the deletion has loaded every message that names it.           *)
THEOREM MessagesAreDetached == WatchedSpec => LeftToNobodyAlone
<1>1. Inv /\ Alone /\ [WatchedNext]_<<vars, overlapped>>
         => [overlapped' \/ LeftToNobody]_<<vars, overlapped>>
  <2> SUFFICES ASSUME Inv, Alone, WatchedNext, ~ overlapped',
                      NEW i \in DOMAIN rows, NEW j \in DOMAIN rows, Stored(i),
                      rows'[i] = Deleted, rows'[j] # Deleted
               PROVE  rows'[j].recipient # i
      BY DEF LeftToNobody
  <2>1. /\ LastTitleShows /\ OnlyMessages /\ \A w \in Workers : Fresh(w)
        /\ TypeOK /\ Next
      BY OthersIdle DEF Alone, Inv, WatchedNext
  <2>2. rows[i] # Deleted /\ i \in Nat
      BY <2>1 DEF Stored, TypeOK
  <2>3. ~ \E u \in Users, title \in Titles : Create(u, title)
    <3>1. \A row \in Row, title \in Titles, text \in Texts \cup {None} :
             Insert(row, title, text) => rows'[i] = rows[i]
        BY <2>1 DEF Insert, TypeOK
    <3> QED
        BY <2>1, <2>2, <3>1, Creates
  <2>4. PICK w \in Workers : Serve(w)
      BY <2>1, <2>3 DEF Next
  <2>5. CASE CommitPatch(w)
      BY <2>1, <2>2, <2>5, PatchedTitle, LiveRows
  <2>6. CASE CommitDelete(w)
    <3>1. i = request[w].id
      <4>1. i # request[w].id => \/ rows'[i] = rows[i]
                                 \/ rows'[i] = [rows[i] EXCEPT !.recipient = None]
          BY <2>6 DEF CommitDelete
      <4>2. rows[i] \in Row /\ [rows[i] EXCEPT !.recipient = None] \in Row
        <5>1. \A row \in Row : [row EXCEPT !.recipient = None] \in Row
            BY DEF Row
        <5> QED
            BY <2>1, <5>1, LiveRows
      <4> QED
          BY <2>1, <4>1, <4>2, LiveRows
    <3> QED
        BY <2>1, <2>2, <2>6, <3>1, DetachedRest
  <2> QED
      BY <2>2, <2>4, <2>5, <2>6 DEF Serve, BeginPatch, BeginDelete, Abort
<1> QED
    BY <1>1, AlwaysAlone, PTL DEF WatchedSpec, LeftToNobodyAlone

=============================================================================
