------------------------------ MODULE MediaVault ------------------------------
(***************************************************************************)
(* Uploaded files and the memories they are attached to: upload_media,     *)
(* create_memory and delete_memory of main.py, validate_upload of          *)
(* utils/files.py and assert_memory_owned_by of services/media_guard.py,   *)
(* as concurrent requests of a server that may die at any step.            *)
(*                                                                         *)
(* upload_media is a coroutine that does not yield once it has read the    *)
(* body, so uploads are served one at a time; deletions run in threads     *)
(* beside them.  Encryption, file names and sizes are left out.            *)
(***************************************************************************)
EXTENDS Integers, Sequences, FiniteSets

CONSTANTS
    Users,          \* the users of the server
    Memories,       \* the identities memories may be created with
    OwnerOf,        \* the user who creates each
    NoMemory,       \* None, as the memory of a file
    Contents,       \* the file contents that are uploaded
    Extensions,     \* the extensions they are uploaded with
    Workers,        \* the requests served at once
    MaxFiles        \* bound of the number of files written

(* What detect_mime looks at: the signature a content starts with, whether *)
(* WEBP stands at its bytes 8 to 11, whether its first 512 bytes are UTF-8 *)
(* text without a NUL, and its length.                                     *)
Signature == {"jpeg", "png", "gif", "riff", "pdf", "zip", "ole", "none"}

Length == {"empty", "below_4", "below_12", "ordinary", "too_large"}

Content ==
    {c \in [signature : Signature, webp : BOOLEAN, text : BOOLEAN, length : Length] :
        c.webp => c.signature = "riff" /\ c.length \in {"ordinary", "too_large"}}

ALLOWED_EXTENSIONS ==
    {".jpg", ".jpeg", ".png", ".gif", ".webp", ".pdf", ".txt", ".md", ".doc", ".docx"}

(* No extension, and any other one. *)
Extension == ALLOWED_EXTENSIONS \cup {"", ".other"}

ASSUME VaultAssumption ==
    /\ OwnerOf \in [Memories -> Users]
    /\ NoMemory \notin Memories
    /\ Contents \subseteq Content
    /\ Extensions \subseteq Extension
    /\ MaxFiles \in Nat

-----------------------------------------------------------------------------
(* Validation. *)

MAGIC_SIGNATURES == [s \in Signature \ {"none"} |->
    CASE s = "jpeg" -> "image/jpeg"
      [] s = "png"  -> "image/png"
      [] s = "gif"  -> "image/gif"
      [] s = "riff" -> "image/webp"
      [] s = "pdf"  -> "application/pdf"
      [] s = "zip"  -> "application/zip"
      [] s = "ole"  -> "application/msword"]

Mime == {MAGIC_SIGNATURES[s] : s \in DOMAIN MAGIC_SIGNATURES} \cup {"text/plain"}

(* A signature is believed, but for a RIFF that has room for WEBP and does *)
(* not say so.                                                             *)
Signed(c) ==
    /\ c.signature # "none"
    /\ c.signature = "riff" => c.length = "below_12" \/ c.webp

(* detect_mime; "none" is None.                                            *)
DetectMime(c) ==
    CASE c.length \in {"empty", "below_4"} -> "none"
      [] c.length \notin {"empty", "below_4"} /\ Signed(c) ->
            MAGIC_SIGNATURES[c.signature]
      [] c.length \notin {"empty", "below_4"} /\ ~ Signed(c) ->
            IF c.text THEN "text/plain" ELSE "none"

(* The extensions whose content is checked. *)
Expected == [e \in {".jpg", ".jpeg", ".png", ".pdf"} |->
    CASE e \in {".jpg", ".jpeg"} -> "image/jpeg"
      [] e = ".png" -> "image/png"
      [] e = ".pdf" -> "application/pdf"]

(* Fault: a mismatch is refused only where nothing was detected. *)
ValidWhateverName(c, e) ==
    /\ c.length \notin {"empty", "too_large"}
    /\ e \in ALLOWED_EXTENSIONS \cup {""}
    /\ DetectMime(c) # "none"

(* validate_upload *)
ValidUpload(c, e) ==
    /\ c.length \notin {"empty", "too_large"}
    /\ e \in ALLOWED_EXTENSIONS \cup {""}
    /\ DetectMime(c) # "none"
    /\ e \in DOMAIN Expected => DetectMime(c) = Expected[e]

-----------------------------------------------------------------------------

VARIABLES
    memories,       \* whether each memory is unborn, stored or deleted
    files,          \* the files of UPLOAD_DIR, in the order they were begun
    assets,         \* the rows of media_assets
    request         \* the request each worker is serving

vars == <<memories, files, assets, request>>

(* content and extension are not columns: they are what the file was.      *)
Asset == [owner     : Users,
          memory    : Memories \cup {NoMemory},
          mime_type : Mime,
          file      : Nat,
          content   : Contents,
          extension : Extensions]

Upload == [phase : {"accepted", "writing", "written"}, asset : Asset]

(* children: the files attached to the memory, loaded to be detached.      *)
Deletion == [phase : {"deleting"}, memory : Memories, children : SUBSET Nat]

Idle == [phase |-> "idle"]

TypeOK ==
    /\ memories \in [Memories -> {"unborn", "stored", "deleted"}]
    /\ files \in Seq({"partial", "whole"})
    /\ assets \in Seq(Asset)
    /\ request \in [Workers -> Upload \cup Deletion \cup {Idle}]

Init ==
    /\ memories = [m \in Memories |-> "unborn"]
    /\ files = <<>>
    /\ assets = <<>>
    /\ request = [w \in Workers |-> Idle]

Done(w) == request' = [request EXCEPT ![w] = Idle]

Advance(w, phase) == request' = [request EXCEPT ![w].phase = phase]

CreateMemory(m) ==
    /\ memories[m] = "unborn"
    /\ memories' = [memories EXCEPT ![m] = "stored"]
    /\ UNCHANGED <<files, assets, request>>

Uploading(w) == request[w].phase \in {"accepted", "writing", "written"}

Receive(w, u, c, e, m) ==
    request' = [request EXCEPT ![w] =
        [phase |-> "accepted",
         asset |-> [owner |-> u, memory |-> m, mime_type |-> DetectMime(c),
                    file |-> 0, content |-> c, extension |-> e]]]

(* upload_media up to the last refusal: the file is valid, and the memory, *)
(* if there is one, is the user's (assert_memory_owned_by).                *)
Accept(w, u, c, e, m) ==
    /\ request[w] = Idle
    /\ \A v \in Workers : ~ Uploading(v)
    /\ ValidUpload(c, e)
    /\ m # NoMemory => memories[m] = "stored" /\ OwnerOf[m] = u
    /\ Receive(w, u, c, e, m)
    /\ UNCHANGED <<memories, files, assets>>

(* path.write_bytes begins, under a name of its own, ...                   *)
BeginWrite(w) ==
    /\ request[w].phase = "accepted"
    /\ Len(files) < MaxFiles
    /\ files' = Append(files, "partial")
    /\ request' = [request EXCEPT ![w].phase = "writing",
                                  ![w].asset.file = Len(files) + 1]
    /\ UNCHANGED <<memories, assets>>

(* ... and ends.                                                           *)
EndWrite(w) ==
    /\ request[w].phase = "writing"
    /\ files' = [files EXCEPT ![request[w].asset.file] = "whole"]
    /\ Advance(w, "written")
    /\ UNCHANGED <<memories, assets>>

(* Fault: the row is committed while the file is being written. *)
CommitEarly(w) ==
    /\ request[w].phase = "writing"
    /\ assets' = Append(assets, request[w].asset)
    /\ Done(w)
    /\ UNCHANGED <<memories, files>>

(* The row of the file is committed.                                       *)
CommitUpload(w) ==
    /\ request[w].phase = "written"
    /\ assets' = Append(assets, request[w].asset)
    /\ Done(w)
    /\ UNCHANGED <<memories, files>>

(* delete_memory: the session loads the files attached to the memory ...   *)
BeginDelete(w, m) ==
    /\ request[w] = Idle
    /\ memories[m] = "stored"
    /\ request' = [request EXCEPT ![w] =
          [phase |-> "deleting", memory |-> m,
           children |-> {i \in DOMAIN assets : assets[i].memory = m}]]
    /\ UNCHANGED <<memories, files, assets>>

(* Fault: the files stay attached. *)
DeleteKeepsChildren(w) ==
    /\ request[w].phase = "deleting"
    /\ memories' = [memories EXCEPT ![request[w].memory] = "deleted"]
    /\ Done(w)
    /\ UNCHANGED <<files, assets>>

(* Fault: detached is 0, not None. *)
DeleteLeavesZero(w) ==
    /\ request[w].phase = "deleting"
    /\ memories' = [memories EXCEPT ![request[w].memory] = "deleted"]
    /\ assets' = [i \in DOMAIN assets |->
          IF i \in request[w].children
          THEN [assets[i] EXCEPT !.memory = 0] ELSE assets[i]]
    /\ Done(w)
    /\ UNCHANGED files

(* ... and detaches them as it deletes the memory.                         *)
CommitDelete(w) ==
    /\ request[w].phase = "deleting"
    /\ memories' = [memories EXCEPT ![request[w].memory] = "deleted"]
    /\ assets' = [i \in DOMAIN assets |->
          IF i \in request[w].children
          THEN [assets[i] EXCEPT !.memory = NoMemory] ELSE assets[i]]
    /\ Done(w)
    /\ UNCHANGED files

(* An error, a locked database, the end of the server.                     *)
Abort(w) == /\ request[w] # Idle
            /\ Done(w)
            /\ UNCHANGED <<memories, files, assets>>

Serve(w) ==
    \/ \E u \in Users, c \in Contents, e \in Extensions,
          m \in Memories \cup {NoMemory} : Accept(w, u, c, e, m)
    \/ BeginWrite(w)
    \/ EndWrite(w)
    \/ CommitUpload(w)
    \/ \E m \in Memories : BeginDelete(w, m)
    \/ CommitDelete(w)
    \/ Abort(w)

Next ==
    \/ \E m \in Memories : CreateMemory(m)
    \/ \E w \in Workers : Serve(w)

Spec == Init /\ [][Next]_vars

-----------------------------------------------------------------------------

(* Wherever a server dies, every row of media_assets has a file of its own *)
(* that was written to the end: a listed file can be downloaded.           *)
AssetsAreWhole ==
    \A i, j \in DOMAIN assets :
        /\ assets[i].file \in DOMAIN files
        /\ files[assets[i].file] = "whole"
        /\ assets[i].file = assets[j].file => i = j

(* The extensions that name a signature, and the signature they name.      *)
NamedSignature ==
    [e \in {".jpg", ".jpeg", ".png", ".pdf"} |->
        CASE e = ".png" -> "png" [] e = ".pdf" -> "pdf" [] OTHER -> "jpeg"]

(* Through every path of an upload, a file listed under an extension that  *)
(* validate_upload compares starts with the signature it names, and one    *)
(* without a signature is text (V2_SECURITY.md:121).                       *)
NamesAreTrue ==
    \A i \in DOMAIN assets :
        LET a == assets[i]
        IN  /\ a.extension \in DOMAIN NamedSignature
                  => a.content.signature = NamedSignature[a.extension]
            /\ a.content.signature = "none" => a.content.text

(* What one request at a time guarantees, and concurrent requests do not   *)

(* A file belongs to no memory or to one that exists (DATABASE.md:130).    *)
MemoriesExist ==
    \A i \in DOMAIN assets :
        assets[i].memory # NoMemory => memories[assets[i].memory] = "stored"

=============================================================================
