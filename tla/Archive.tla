------------------------------- MODULE Archive -------------------------------
(***************************************************************************)
(* What owners store besides files: contacts, life events, memories and    *)
(* legacy messages, with their encrypted texts.  The endpoints of main.py  *)
(* that seed, create, list, change and delete them, over the two schemes   *)
(* of core/crypto.py, as concurrent requests.                              *)
(*                                                                         *)
(* A row is named by its place in rows and is never reused, as ids are.    *)
(* Cryptography is ideal: a ciphertext opens with the key, the owner and   *)
(* the nonce it was made with, and with no other.  Columns that are only   *)
(* copied are one, the title.  The release of a message, and the refusal   *)
(* to delete a contact who confirmed one, are in ReleaseRequests.          *)
(***************************************************************************)
EXTENDS Integers, Sequences, FiniteSets

CONSTANTS
    Users,          \* the users of the server
    Demo,           \* the user whose rows are seeded
    Titles,         \* titles of rows
    Texts,          \* the texts that are encrypted
    None,           \* None, in a request or a column
    Workers,        \* the threads that serve requests
    MaxRows         \* bound of the number of rows

ASSUME ArchiveAssumption ==
    /\ Demo \in Users
    /\ None \notin Titles \cup Texts \cup Nat
    /\ Titles # {} /\ Texts # {}
    /\ MaxRows \in Nat

-----------------------------------------------------------------------------
(* Encryption.  "" stands for the owner of what only the master key seals. *)

Sealed == [scheme : {"envelope", "legacy"}, owner : Users \cup {""}, text : Texts]

ASSUME NoneAssumption == None \notin Sealed

EncryptUserText(text, u) == [scheme |-> "envelope", owner |-> u, text |-> text]

EncryptText(text) == [scheme |-> "legacy", owner |-> "", text |-> text]

DecryptUserText(s, u) ==
    IF s.scheme = "envelope" /\ s.owner = u THEN s.text ELSE "[decryption error]"

(* iv tells whether the nonce of the ciphertext is in its column.          *)
DecryptText(s, iv) ==
    IF s.scheme = "legacy" /\ iv THEN s.text ELSE "[decryption error]"

-----------------------------------------------------------------------------

Kind == {"contact", "event", "memory", "message"}

Row == [kind      : Kind,
        owner     : Users,
        title     : Titles,
        sealed    : Sealed \cup {None},
        iv        : BOOLEAN,
        version   : 1..2,
        recipient : Nat \cup {None}]

NewRow(kind, u, title, sealed, iv, version, recipient) ==
    [kind |-> kind, owner |-> u, title |-> title, sealed |-> sealed, iv |-> iv,
     version |-> version, recipient |-> recipient]

(* What a listing shows of a memory or a message: an envelope announces    *)
(* itself by its first character.                                          *)
ReadVersioned(row) ==
    IF row.version >= 2 /\ row.sealed.scheme = "envelope"
    THEN DecryptUserText(row.sealed, row.owner)
    ELSE DecryptText(row.sealed, row.iv)

(* ... and of a contact or a life event.                                   *)
ReadNoted(row) ==
    IF row.sealed # None /\ row.iv THEN DecryptText(row.sealed, row.iv) ELSE None

ReadBack(row) ==
    IF row.kind \in {"memory", "message"} THEN ReadVersioned(row) ELSE ReadNoted(row)

-----------------------------------------------------------------------------

VARIABLES
    rows,           \* the rows ever committed
    asked,          \* the title and the text last committed for each
    request         \* the request each worker is serving

vars == <<rows, asked, request>>

Deleted == [kind |-> "deleted"]

Asked == [title : Titles, text : Texts \cup {None}]

(* body: the fields of the request, None where it leaves one out.          *)
Patch == [phase  : {"patching"},
          id     : Nat,
          loaded : Row,
          body   : [title : Titles \cup {None}, content : Texts \cup {None}]]

(* children: the messages loaded to be detached from the contact.          *)
Deletion == [phase : {"deleting"}, id : Nat, children : SUBSET Nat]

Idle == [phase |-> "idle"]

TypeOK ==
    /\ rows \in Seq(Row \cup {Deleted})
    /\ asked \in Seq(Asked)
    /\ request \in [Workers -> Patch \cup Deletion \cup {Idle}]

(* _seed_demo_data.  The memory and the event get the default version.     *)
Seeded(title, text) ==
    <<NewRow("contact", Demo, title, None, FALSE, 1, None),
      NewRow("memory", Demo, title, EncryptText(text), TRUE, 2, None),
      NewRow("event", Demo, title, EncryptText(text), TRUE, 2, None),
      NewRow("message", Demo, title, EncryptText(text), TRUE, 1, 1)>>

(* on_startup seeds the database as long as it has no users.               *)
Init ==
    /\ \E title \in Titles, text \in Texts :
          /\ rows = Seeded(title, text)
          /\ asked = [i \in DOMAIN rows |->
                [title |-> title, text |-> IF i = 1 THEN None ELSE text]]
    /\ request = [w \in Workers |-> Idle]

Stored(i) == i \in DOMAIN rows /\ rows[i] # Deleted

OfKind(i, kind) == Stored(i) /\ rows[i].kind = kind

Insert(row, title, text) ==
    /\ Len(rows) < MaxRows
    /\ rows' = Append(rows, row)
    /\ asked' = Append(asked, [title |-> title, text |-> text])
    /\ UNCHANGED request

(* Fault: the notes are sealed in an envelope, and read as before.         *)
CreateContactSealed(u, title, notes) ==
    Insert(NewRow("contact", u, title,
                  IF notes = None THEN None ELSE EncryptUserText(notes, u),
                  FALSE, 1, None), title, notes)

(* create_family, without the step-up token *)
CreateContact(u, title, notes) ==
    Insert(NewRow("contact", u, title,
                  IF notes = None THEN None ELSE EncryptText(notes),
                  notes # None, 1, None), title, notes)

(* create_life_event *)
CreateEvent(u, title, description) ==
    Insert(NewRow("event", u, title,
                  IF description = None THEN None ELSE EncryptText(description),
                  description # None, 2, None), title, description)

(* create_memory *)
CreateMemory(u, title, content) ==
    Insert(NewRow("memory", u, title, EncryptUserText(content, u), FALSE, 2, None),
           title, content)

(* create_legacy_message.  The recipient is not looked up.                 *)
CreateMessage(u, title, body, recipient) ==
    Insert(NewRow("message", u, title, EncryptUserText(body, u), FALSE, 2, recipient),
           title, body)

-----------------------------------------------------------------------------
(* update_memory *)

BeginPatch(w, u, i, title, content) ==
    /\ request[w] = Idle
    /\ OfKind(i, "memory")
    /\ rows[i].owner = u
    /\ request' = [request EXCEPT ![w] =
          [phase |-> "patching", id |-> i, loaded |-> rows[i],
           body |-> [title |-> title, content |-> content]]]
    /\ UNCHANGED <<rows, asked>>

(* Fault: a field the request leaves out is written. *)
PatchWritesNone(row, loaded, body) ==
    [row EXCEPT !.title = body.title]

(* Fault: the title is looked at only when there is no content. *)
PatchOneField(row, loaded, body) ==
    IF body.content # None
    THEN [row EXCEPT !.sealed = EncryptUserText(body.content, loaded.owner),
                     !.iv = FALSE]
    ELSE IF body.title # None THEN [row EXCEPT !.title = body.title] ELSE row

(* Fault: the content is sealed the way the first version did. *)
PatchOldScheme(row, loaded, body) ==
    IF body.content # None
    THEN [row EXCEPT !.sealed = EncryptText(body.content), !.iv = TRUE]
    ELSE IF body.title # None THEN [row EXCEPT !.title = body.title] ELSE row

(* The UPDATE writes the columns that differ from what was loaded, and a   *)
(* ciphertext always does.                                                 *)
Patched(row, loaded, body) ==
    LET content == body.content # None
    IN  [row EXCEPT
           !.title   = IF body.title \in {None, loaded.title} THEN @ ELSE body.title,
           !.sealed  = IF content THEN EncryptUserText(body.content, loaded.owner) ELSE @,
           !.iv      = IF content /\ loaded.iv THEN FALSE ELSE @,
           !.version = IF content /\ loaded.version # 2 THEN 2 ELSE @]

AskedAfter(a, body) ==
    [title |-> IF body.title = None THEN a.title ELSE body.title,
     text  |-> IF body.content = None THEN a.text ELSE body.content]

(* A row that was deleted since is not updated: the flush finds out.       *)
CommitPatch(w) ==
    LET r == request[w]
    IN  /\ r.phase = "patching"
        /\ Stored(r.id)
        /\ rows' = [rows EXCEPT ![r.id] = Patched(@, r.loaded, r.body)]
        /\ asked' = [asked EXCEPT ![r.id] = AskedAfter(@, r.body)]
        /\ request' = [request EXCEPT ![w] = Idle]

-----------------------------------------------------------------------------
(* delete_family, delete_memory *)

(* The session loads the messages that name the contact ...                *)
BeginDelete(w, u, i) ==
    /\ request[w] = Idle
    /\ OfKind(i, "contact") \/ OfKind(i, "memory")
    /\ rows[i].owner = u
    /\ request' = [request EXCEPT ![w] =
          [phase |-> "deleting", id |-> i,
           children |-> {j \in DOMAIN rows :
                            OfKind(j, "message") /\ rows[j].recipient = i}]]
    /\ UNCHANGED <<rows, asked>>

(* Fault: the messages keep their recipient. *)
DeleteKeepsRecipient(w) ==
    /\ request[w].phase = "deleting"
    /\ rows' = [rows EXCEPT ![request[w].id] = Deleted]
    /\ request' = [request EXCEPT ![w] = Idle]
    /\ UNCHANGED asked

(* ... and detaches them as it deletes the row.                            *)
CommitDelete(w) ==
    LET r == request[w]
    IN  /\ r.phase = "deleting"
        /\ rows' = [j \in DOMAIN rows |->
              CASE j = r.id -> Deleted
                [] j # r.id /\ j \in r.children -> [rows[j] EXCEPT !.recipient = None]
                [] OTHER -> rows[j]]
        /\ request' = [request EXCEPT ![w] = Idle]
        /\ UNCHANGED asked

(* An error, a locked database, a row that is gone.                        *)
Abort(w) == /\ request[w] # Idle
            /\ request' = [request EXCEPT ![w] = Idle]
            /\ UNCHANGED <<rows, asked>>

-----------------------------------------------------------------------------

(* A client may know any contact that ever existed.                        *)
Nameable == {i \in DOMAIN rows : rows[i] = Deleted \/ rows[i].kind = "contact"}

Create(u, title) ==
    \/ \E text \in Texts \cup {None} :
          CreateContact(u, title, text) \/ CreateEvent(u, title, text)
    \/ \E text \in Texts : CreateMemory(u, title, text)
    \/ \E text \in Texts, recipient \in Nameable \cup {None} :
          CreateMessage(u, title, text, recipient)

Serve(w) ==
    \/ \E u \in Users, i \in DOMAIN rows, title \in Titles \cup {None},
          content \in Texts \cup {None} : BeginPatch(w, u, i, title, content)
    \/ CommitPatch(w)
    \/ \E u \in Users, i \in DOMAIN rows : BeginDelete(w, u, i)
    \/ CommitDelete(w)
    \/ Abort(w)

Next ==
    \/ \E u \in Users, title \in Titles : Create(u, title)
    \/ \E w \in Workers : Serve(w)

Spec == Init /\ [][Next]_vars

-----------------------------------------------------------------------------

(* Whatever endpoint stored it, under whichever scheme, and however the    *)
(* requests interleave, a listing shows the owner the text that was        *)
(* committed last (V2_SECURITY.md:39).                                     *)
LastTextReads ==
    \A i \in DOMAIN rows : Stored(i) => ReadBack(rows[i]) = asked[i].text

(* A text that was sealed for its owner stays so: no later request puts it *)
(* back under the key all rows share (V2_SECURITY.md:39).                  *)
SealedForGood ==
    [][\A i \in DOMAIN rows :
          Stored(i) /\ rows[i].sealed # None /\ rows[i].sealed.scheme = "envelope"
              => \/ rows'[i] = Deleted
                 \/ /\ rows'[i].sealed.scheme = "envelope"
                    /\ rows'[i].sealed.owner = rows[i].owner]_vars

(* What one request at a time guarantees, and concurrent requests do not   *)

(* A listing shows the title that was committed last.                      *)
LastTitleShows ==
    \A i \in DOMAIN rows : Stored(i) => rows[i].title = asked[i].title

(* No message is left to a contact that a step deletes.                    *)
LeftToNobody ==
    \A i, j \in DOMAIN rows :
        Stored(i) /\ rows'[i] = Deleted /\ rows'[j] # Deleted => rows'[j].recipient # i

=============================================================================
