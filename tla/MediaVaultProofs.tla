--------------------------- MODULE MediaVaultProofs ---------------------------
(***************************************************************************)
(* Proofs about MediaVault, for any number of users, memories, files and   *)
(* requests: a listed file is whole and is what its name says, and to      *)
(* requests served one by one it belongs to a memory that exists.          *)
(***************************************************************************)
EXTENDS MCMediaVault, TLAPS

(* What validate_upload promises of a content and an extension.            *)
Genuine(c, e) ==
    /\ e \in DOMAIN NamedSignature => c.signature = NamedSignature[e]
    /\ c.signature = "none" => c.text

LEMMA SignatureMime ==
    /\ MAGIC_SIGNATURES["jpeg"] = "image/jpeg"
    /\ MAGIC_SIGNATURES["png"] = "image/png"
    /\ MAGIC_SIGNATURES["gif"] = "image/gif"
    /\ MAGIC_SIGNATURES["riff"] = "image/webp"
    /\ MAGIC_SIGNATURES["pdf"] = "application/pdf"
    /\ MAGIC_SIGNATURES["zip"] = "application/zip"
    /\ MAGIC_SIGNATURES["ole"] = "application/msword"
  BY DEF MAGIC_SIGNATURES, Signature

(* validate_upload lets in only what detect_mime recognizes, and only      *)
(* under a name that fits.                                                 *)
LEMMA ValidIsGenuine ==
    ASSUME NEW c \in Content, NEW e, ValidUpload(c, e)
    PROVE  DetectMime(c) \in Mime /\ Genuine(c, e)
<1>1. c.signature \in Signature
    BY DEF Content
<1>2. c.length \notin {"empty", "below_4"}
    BY DEF ValidUpload, DetectMime
<1>3. CASE Signed(c)
  <2>1. DetectMime(c) = MAGIC_SIGNATURES[c.signature]
      BY <1>2, <1>3 DEF DetectMime
  <2>2. c.signature \in Signature \ {"none"}
      BY <1>1, <1>3 DEF Signed
  <2>3. DetectMime(c) \in Mime
      BY <2>1, <2>2 DEF Mime, MAGIC_SIGNATURES
  <2>4. ASSUME e \in {".jpg", ".jpeg", ".png", ".pdf"}
        PROVE  c.signature = NamedSignature[e]
    <3>1. MAGIC_SIGNATURES[c.signature] = Expected[e]
        BY <2>1, <2>4 DEF ValidUpload, Expected
    <3>2. \/ e \in {".jpg", ".jpeg"} /\ Expected[e] = "image/jpeg" /\ NamedSignature[e] = "jpeg"
          \/ e = ".png" /\ Expected[e] = "image/png" /\ NamedSignature[e] = "png"
          \/ e = ".pdf" /\ Expected[e] = "application/pdf" /\ NamedSignature[e] = "pdf"
        BY <2>4 DEF Expected, NamedSignature
    <3> QED
        BY <2>2, <3>1, <3>2, SignatureMime DEF Signature
  <2> QED
      BY <2>2, <2>3, <2>4 DEF Genuine, NamedSignature
<1>4. CASE ~ Signed(c)
  <2>1. DetectMime(c) = "text/plain" /\ c.text
      BY <1>2, <1>4 DEF DetectMime, ValidUpload
  <2>2. e \notin {".jpg", ".jpeg", ".png", ".pdf"}
      BY <2>1 DEF ValidUpload, Expected
  <2> QED
      BY <2>1, <2>2 DEF Genuine, NamedSignature, Mime
<1> QED
    BY <1>3, <1>4

LEMMA Replaced ==
    ASSUME NEW S, NEW s \in Seq(S), NEW i, NEW x \in S
    PROVE  [s EXCEPT ![i] = x] \in Seq(S)
<1> DEFINE r == [s EXCEPT ![i] = x]
<1>1. /\ Len(s) \in Nat /\ DOMAIN s = 1..Len(s)
      /\ r = [j \in 1..Len(s) |-> r[j]]
    OBVIOUS
<1>2. \A j \in 1..Len(s) : r[j] \in S
    BY <1>1
<1> HIDE DEF r
<1>3. r \in Seq(S)
    BY <1>1, <1>2
<1> QED
    BY <1>3 DEF r

LEMMA Rebuilt ==
    ASSUME NEW S, NEW s \in Seq(S), NEW f, DOMAIN f = DOMAIN s,
           f = [i \in DOMAIN s |-> f[i]], \A i \in DOMAIN s : f[i] \in S
    PROVE  f \in Seq(S)
<1>1. Len(s) \in Nat /\ DOMAIN s = 1..Len(s)
    OBVIOUS
<1> QED
    BY <1>1

-----------------------------------------------------------------------------
(* Types *)

(* Whatever a step does to the request it serves, it does to no other.     *)
LEMMA OneRequest ==
    ASSUME TypeOK, NEW w \in Workers, Serve(w)
    PROVE  /\ request' = [request EXCEPT ![w] = request'[w]]
           /\ \A v \in Workers : v # w => request'[v] = request[v]
<1>1. \E r : request' = [request EXCEPT ![w] = r]
  <2>1. BeginWrite(w) => \E r : request' = [request EXCEPT ![w] = r]
    <3>1. \A n : [request EXCEPT ![w].phase = "writing", ![w].asset.file = n]
               = [request EXCEPT ![w] = [request[w] EXCEPT !.phase = "writing",
                                                           !.asset.file = n]]
        OBVIOUS
    <3> QED
        BY <3>1 DEF BeginWrite
  <2>2. EndWrite(w) => \E r : request' = [request EXCEPT ![w] = r]
    <3>1. [request EXCEPT ![w].phase = "written"]
        = [request EXCEPT ![w] = [request[w] EXCEPT !.phase = "written"]]
        OBVIOUS
    <3> QED
        BY <3>1 DEF EndWrite, Advance
  <2> QED
      BY <2>1, <2>2 DEF Serve, Accept, Receive, CommitUpload, BeginDelete,
                        CommitDelete, Abort, Done
<1> QED
    BY <1>1 DEF TypeOK

(* The phases of a request.                                                *)
LEMMA Phases ==
    ASSUME TypeOK, NEW w \in Workers
    PROVE  /\ request[w].phase \in {"accepted", "writing", "written"} =>
                request[w] \in Upload
           /\ request[w].phase = "deleting" => request[w] \in Deletion
           /\ request[w] \in Upload =>
                request[w].phase \in {"accepted", "writing", "written"}
           /\ request[w] \in Deletion => request[w].phase = "deleting"
           /\ Idle \notin Upload /\ Idle \notin Deletion
           /\ Idle.phase = "idle"
  BY DEF TypeOK, Upload, Deletion, Idle

(* The steps of an upload.                                                 *)
LEMMA Uploads ==
    ASSUME TypeOK, NEW w \in Workers
    PROVE  /\ \A u \in Users, c \in Contents, e \in Extensions,
                 m \in Memories \cup {NoMemory} :
                 Accept(w, u, c, e, m) =>
                    /\ request'[w] \in Upload /\ request'[w].phase = "accepted"
                    /\ request'[w].asset.memory = m
                    /\ Genuine(request'[w].asset.content, request'[w].asset.extension)
           /\ BeginWrite(w) =>
                 /\ request[w] \in Upload
                 /\ request'[w] \in Upload /\ request'[w].phase = "writing"
                 /\ request'[w].asset.file = Len(files) + 1
                 /\ request'[w].asset.memory = request[w].asset.memory
                 /\ request'[w].asset.content = request[w].asset.content
                 /\ request'[w].asset.extension = request[w].asset.extension
           /\ EndWrite(w) =>
                 /\ request[w] \in Upload
                 /\ request'[w] \in Upload /\ request'[w].phase = "written"
                 /\ request'[w].asset = request[w].asset
<1> USE DEF TypeOK
<1>1. ASSUME NEW u \in Users, NEW c \in Contents, NEW e \in Extensions,
             NEW m \in Memories \cup {NoMemory}, Accept(w, u, c, e, m)
      PROVE  /\ request'[w] \in Upload /\ request'[w].phase = "accepted"
             /\ request'[w].asset.memory = m
             /\ Genuine(request'[w].asset.content, request'[w].asset.extension)
  <2>1. c \in Content /\ ValidUpload(c, e)
      BY <1>1, VaultAssumption DEF Accept
  <2>2. DetectMime(c) \in Mime /\ Genuine(c, e)
      BY <2>1, ValidIsGenuine
  <2>3. PICK a : a = [owner |-> u, memory |-> m, mime_type |-> DetectMime(c),
                      file |-> 0, content |-> c, extension |-> e]
      OBVIOUS
  <2>4. a \in Asset /\ a.memory = m /\ a.content = c /\ a.extension = e
      BY <2>2, <2>3 DEF Asset
  <2>5. request'[w] = [phase |-> "accepted", asset |-> a]
      BY <1>1, <2>3 DEF Accept, Receive
  <2> QED
      BY <2>2, <2>4, <2>5 DEF Upload
<1>2. ASSUME BeginWrite(w)
      PROVE  /\ request[w] \in Upload
             /\ request'[w] \in Upload /\ request'[w].phase = "writing"
             /\ request'[w].asset.file = Len(files) + 1
             /\ request'[w].asset.memory = request[w].asset.memory
             /\ request'[w].asset.content = request[w].asset.content
             /\ request'[w].asset.extension = request[w].asset.extension
  <2>1. request[w] \in Upload
      BY <1>2, Phases DEF BeginWrite
  <2>2. request[w].asset \in Asset
      BY <2>1 DEF Upload
  <2>3. PICK a : a = [request[w].asset EXCEPT !.file = Len(files) + 1]
      OBVIOUS
  <2>4. Len(files) + 1 \in Nat
      OBVIOUS
  <2>5. /\ a \in Asset /\ a.file = Len(files) + 1
        /\ a.memory = request[w].asset.memory /\ a.content = request[w].asset.content
        /\ a.extension = request[w].asset.extension
      BY <2>2, <2>3, <2>4 DEF Asset
  <2>6. request'[w] = [phase |-> "writing", asset |-> a]
      BY <1>2, <2>1, <2>3 DEF BeginWrite, Upload
  <2> QED
      BY <2>1, <2>5, <2>6 DEF Upload
<1>3. ASSUME EndWrite(w)
      PROVE  /\ request[w] \in Upload
             /\ request'[w] \in Upload /\ request'[w].phase = "written"
             /\ request'[w].asset = request[w].asset
  <2>1. request[w] \in Upload
      BY <1>3, Phases DEF EndWrite
  <2>2. request'[w] = [request[w] EXCEPT !.phase = "written"]
      BY <1>3 DEF EndWrite, Advance
  <2> QED
      BY <2>1, <2>2 DEF Upload
<1> QED
    BY <1>1, <1>2, <1>3

LEMMA TypeInit == Init => TypeOK
  BY DEF Init, TypeOK

LEMMA DetachedAsset ==
    ASSUME NEW a \in Asset, NEW d, d = [a EXCEPT !.memory = NoMemory]
    PROVE  /\ d \in Asset /\ d.memory = NoMemory /\ d.file = a.file
           /\ d.content = a.content /\ d.extension = a.extension
  BY DEF Asset

(* A deletion changes no row but for the memory it belongs to.             *)
LEMMA Detaches ==
    ASSUME TypeOK, NEW w \in Workers, CommitDelete(w)
    PROVE  /\ request[w] \in Deletion /\ request'[w] = Idle /\ files' = files
           /\ assets' \in Seq(Asset) /\ DOMAIN assets' = DOMAIN assets
           /\ \A i \in DOMAIN assets :
                 /\ assets'[i].file = assets[i].file
                 /\ assets'[i].content = assets[i].content
                 /\ assets'[i].extension = assets[i].extension
                 /\ assets'[i].memory = IF i \in request[w].children THEN NoMemory
                                        ELSE assets[i].memory
<1> USE DEF TypeOK
<1>1. /\ request[w] \in Deletion /\ request'[w] = Idle /\ files' = files
    BY Phases DEF CommitDelete, Done
<1>2. /\ DOMAIN assets' = DOMAIN assets
      /\ assets' = [i \in DOMAIN assets |-> assets'[i]]
      /\ \A i \in DOMAIN assets :
            assets'[i] = IF i \in request[w].children
                         THEN [assets[i] EXCEPT !.memory = NoMemory] ELSE assets[i]
    BY DEF CommitDelete
<1>3. ASSUME NEW i \in DOMAIN assets
      PROVE  /\ assets'[i] \in Asset
             /\ assets'[i].file = assets[i].file
             /\ assets'[i].content = assets[i].content
             /\ assets'[i].extension = assets[i].extension
             /\ assets'[i].memory = IF i \in request[w].children THEN NoMemory
                                    ELSE assets[i].memory
  <2>1. assets[i] \in Asset
      OBVIOUS
  <2>2. PICK d : d = [assets[i] EXCEPT !.memory = NoMemory]
      OBVIOUS
  <2>3. /\ d \in Asset /\ d.memory = NoMemory /\ d.file = assets[i].file
        /\ d.content = assets[i].content /\ d.extension = assets[i].extension
      BY <2>1, <2>2 DEF Asset
  <2>4. assets'[i] = IF i \in request[w].children THEN d ELSE assets[i]
      BY <1>2, <2>2
  <2> QED
      BY <2>1, <2>3, <2>4
<1>4. assets' \in Seq(Asset)
    BY <1>2, <1>3, Rebuilt
<1> QED
    BY <1>1, <1>2, <1>3, <1>4

(* The files are only added to, and a file that was begun is ended.        *)
LEMMA FilesGrow ==
    ASSUME TypeOK, NEW w \in Workers
    PROVE  /\ BeginWrite(w) =>
                 /\ files' = Append(files, "partial")
                 /\ DOMAIN files' = DOMAIN files \cup {Len(files) + 1}
                 /\ \A i \in DOMAIN files : files'[i] = files[i]
           /\ EndWrite(w) =>
                 /\ DOMAIN files' = DOMAIN files
                 /\ \A i \in DOMAIN files : files'[i] = files[i] \/ files'[i] = "whole"
                 /\ request[w].asset.file \in DOMAIN files =>
                       files'[request[w].asset.file] = "whole"
<1> USE DEF TypeOK
<1>1. \A s \in Seq({"partial", "whole"}) :
         /\ DOMAIN Append(s, "partial") = DOMAIN s \cup {Len(s) + 1}
         /\ \A i \in DOMAIN s : Append(s, "partial")[i] = s[i]
    OBVIOUS
<1>2. BeginWrite(w) => files' = Append(files, "partial")
    BY DEF BeginWrite
<1>3. EndWrite(w) => files' = [files EXCEPT ![request[w].asset.file] = "whole"]
    BY DEF EndWrite
<1> QED
    BY <1>1, <1>2, <1>3

LEMMA TypeNext == TypeOK /\ [Next]_vars => TypeOK'
<1> SUFFICES ASSUME TypeOK, [Next]_vars PROVE TypeOK'
    OBVIOUS
<1> USE DEF TypeOK
<1>1. ASSUME NEW w \in Workers, Serve(w) PROVE TypeOK'
  <2>1. ASSUME request'[w] \in Upload \cup Deletion \cup {Idle}
        PROVE  request' \in [Workers -> Upload \cup Deletion \cup {Idle}]
      BY <1>1, <2>1, OneRequest
  <2>2. ASSUME NEW u \in Users, NEW c \in Contents, NEW e \in Extensions,
               NEW m \in Memories \cup {NoMemory}, Accept(w, u, c, e, m)
        PROVE  TypeOK'
    <3>1. request'[w] \in Upload
        BY <2>2, Uploads
    <3>2. memories' = memories /\ files' = files /\ assets' = assets
        BY <2>2 DEF Accept
    <3>3. request' \in [Workers -> Upload \cup Deletion \cup {Idle}]
        BY <2>1, <3>1
    <3> QED
        BY <3>2, <3>3
  <2>3. CASE BeginWrite(w)
    <3>1. request'[w] \in Upload
        BY <2>3, Uploads
    <3>2. /\ memories' = memories /\ assets' = assets
          /\ files' = Append(files, "partial")
        BY <2>3 DEF BeginWrite
    <3>3. files' \in Seq({"partial", "whole"})
        BY <3>2
    <3> QED
        BY <2>1, <3>1, <3>2, <3>3
  <2>4. CASE EndWrite(w)
    <3>1. files' \in Seq({"partial", "whole"})
        BY <2>4, Replaced DEF EndWrite
    <3> QED
        BY <2>1, <2>4, <3>1, Uploads DEF EndWrite
  <2>5. CASE CommitUpload(w)
    <3>1. request[w].asset \in Asset
        BY <2>5, Phases DEF CommitUpload, Upload
    <3> QED
        BY <2>1, <2>5, <3>1 DEF CommitUpload, Done
  <2>6. ASSUME NEW m \in Memories, BeginDelete(w, m) PROVE TypeOK'
    <3>1. {i \in DOMAIN assets : assets[i].memory = m} \in SUBSET Nat
        OBVIOUS
    <3>2. request'[w] \in Deletion
        BY <2>6, <3>1 DEF BeginDelete, Deletion
    <3> QED
        BY <2>1, <2>6, <3>2 DEF BeginDelete
  <2>7. CASE CommitDelete(w)
    <3>1. request[w].memory \in Memories
        BY <2>7, Detaches DEF Deletion
    <3>2. memories' \in [Memories -> {"unborn", "stored", "deleted"}]
        BY <2>7, <3>1 DEF CommitDelete
    <3> QED
        BY <2>1, <2>7, <3>2, Detaches
  <2>8. CASE Abort(w)
      BY <2>1, <2>8 DEF Abort, Done
  <2> QED
      BY <1>1, <2>2, <2>3, <2>4, <2>5, <2>6, <2>7, <2>8 DEF Serve
<1>2. ASSUME NEW m \in Memories, CreateMemory(m) PROVE TypeOK'
    BY <1>2 DEF CreateMemory
<1>3. CASE UNCHANGED vars
    BY <1>3 DEF vars
<1> QED
    BY <1>1, <1>2, <1>3 DEF Next

(* The files, their rows and the requests keep their types.                *)
THEOREM TypeCorrect == Spec => []TypeOK
  BY TypeInit, TypeNext, PTL DEF Spec

-----------------------------------------------------------------------------
(* Every row has its file *)

(* The files that requests are writing, or have written.                   *)
Writing(w) == request[w] \in Upload /\ request[w].phase \in {"writing", "written"}

FilesInHand ==
    /\ \A w \in Workers : Writing(w) =>
          /\ request[w].asset.file \in DOMAIN files
          /\ \A i \in DOMAIN assets : assets[i].file # request[w].asset.file
    /\ \A w \in Workers : Writing(w) /\ request[w].phase = "written" =>
          files[request[w].asset.file] = "whole"
    /\ \A v, w \in Workers :
          Writing(v) /\ Writing(w) /\ request[v].asset.file = request[w].asset.file => v = w

(* Every content in hand fits the name it came with.                       *)
NamesInHand ==
    /\ \A w \in Workers : request[w] \in Upload =>
          Genuine(request[w].asset.content, request[w].asset.extension)
    /\ \A i \in DOMAIN assets : Genuine(assets[i].content, assets[i].extension)

Inv == TypeOK /\ FilesInHand /\ AssetsAreWhole /\ NamesInHand

LEMMA InvInit == Init => Inv
  BY TypeInit, Phases DEF Init, Inv, FilesInHand, AssetsAreWhole, NamesInHand, Writing

LEMMA FilesNext ==
    TypeOK /\ FilesInHand /\ AssetsAreWhole /\ [Next]_vars
        => FilesInHand' /\ AssetsAreWhole'
<1> SUFFICES ASSUME TypeOK, FilesInHand, AssetsAreWhole, [Next]_vars
             PROVE  FilesInHand' /\ AssetsAreWhole'
    OBVIOUS
(* A request that stops writing, or only reads, leaves the files alone.    *)
<1>a. ASSUME files' = files, DOMAIN assets' = DOMAIN assets,
             \A i \in DOMAIN assets : assets'[i].file = assets[i].file,
             \A v \in Workers : Writing(v)' => Writing(v) /\ request'[v] = request[v]
      PROVE  FilesInHand' /\ AssetsAreWhole'
    BY <1>a DEF FilesInHand, AssetsAreWhole
<1>1. ASSUME NEW w \in Workers, Serve(w) PROVE FilesInHand' /\ AssetsAreWhole'
  <2>1. \A v \in Workers : v # w => request'[v] = request[v]
      BY <1>1, OneRequest
  <2>2. \A v \in Workers : v # w => (Writing(v)' <=> Writing(v))
      BY <2>1 DEF Writing
  <2>3. ASSUME ~ Writing(w)'
        PROVE  \A v \in Workers : Writing(v)' => Writing(v) /\ request'[v] = request[v]
      BY <2>1, <2>2, <2>3
  <2>4. ASSUME NEW u \in Users, NEW c \in Contents, NEW e \in Extensions,
               NEW m \in Memories \cup {NoMemory}, Accept(w, u, c, e, m)
        PROVE  FilesInHand' /\ AssetsAreWhole'
    <3>1. ~ Writing(w)' /\ files' = files /\ assets' = assets
        BY <2>4, Uploads DEF Accept, Writing
    <3> QED
        BY <1>a, <2>3, <3>1
  <2>5. CASE BeginWrite(w)
    <3>1. /\ request'[w].asset.file = Len(files) + 1 /\ assets' = assets
          /\ request'[w].phase = "writing"
        BY <2>5, Uploads DEF BeginWrite
    <3>2. /\ DOMAIN files' = DOMAIN files \cup {Len(files) + 1}
          /\ \A i \in DOMAIN files : files'[i] = files[i]
        BY <2>5, FilesGrow
    <3>3. Len(files) + 1 \notin DOMAIN files
        BY DEF TypeOK
    <3>4. AssetsAreWhole'
        BY <3>1, <3>2 DEF AssetsAreWhole
    <3>5. \A i \in DOMAIN assets : assets[i].file # Len(files) + 1
        BY <3>3 DEF AssetsAreWhole
    <3>6. \A v \in Workers : v # w /\ Writing(v)' =>
             /\ request'[v] = request[v]
             /\ request[v].asset.file \in DOMAIN files
             /\ request[v].asset.file # Len(files) + 1
             /\ \A i \in DOMAIN assets : assets[i].file # request[v].asset.file
             /\ request[v].phase = "written" => files[request[v].asset.file] = "whole"
        BY <2>1, <2>2, <3>3 DEF FilesInHand
    <3>7. \A v \in Workers : Writing(v)' =>
             /\ request'[v].asset.file \in DOMAIN files'
             /\ \A i \in DOMAIN assets' : assets'[i].file # request'[v].asset.file
        BY <3>1, <3>2, <3>5, <3>6
    <3>8. \A v \in Workers : Writing(v)' /\ request'[v].phase = "written" =>
             files'[request'[v].asset.file] = "whole"
        BY <3>1, <3>2, <3>6
    <3>9. \A u, v \in Workers :
             Writing(u)' /\ Writing(v)' /\ request'[u].asset.file = request'[v].asset.file
                => u = v
        BY <2>2, <3>1, <3>6 DEF FilesInHand
    <3> QED
        BY <3>4, <3>7, <3>8, <3>9 DEF FilesInHand
  <2>6. CASE EndWrite(w)
    <3>1. /\ Writing(w) /\ assets' = assets /\ request'[w].asset = request[w].asset
          /\ request'[w].phase = "written"
        BY <2>6, Uploads DEF EndWrite, Writing
    <3>2. /\ DOMAIN files' = DOMAIN files
          /\ \A i \in DOMAIN files : files'[i] = files[i] \/ files'[i] = "whole"
          /\ files'[request[w].asset.file] = "whole"
        BY <2>6, <3>1, FilesGrow DEF FilesInHand
    <3>3. AssetsAreWhole'
        BY <3>1, <3>2 DEF AssetsAreWhole
    <3>4. \A v \in Workers : Writing(v)' =>
             Writing(v) /\ request'[v].asset.file = request[v].asset.file
        BY <2>1, <2>2, <3>1
    <3>5. \A v \in Workers : Writing(v)' /\ request'[v].phase = "written" =>
             files'[request'[v].asset.file] = "whole"
        BY <2>1, <2>2, <3>1, <3>2 DEF FilesInHand
    <3>6. \A v \in Workers : Writing(v)' =>
             /\ request'[v].asset.file \in DOMAIN files'
             /\ \A i \in DOMAIN assets' : assets'[i].file # request'[v].asset.file
        BY <3>1, <3>2, <3>4 DEF FilesInHand
    <3>7. \A u, v \in Workers :
             Writing(u)' /\ Writing(v)' /\ request'[u].asset.file = request'[v].asset.file
                => u = v
        BY <3>4 DEF FilesInHand
    <3> QED
        BY <3>3, <3>5, <3>6, <3>7 DEF FilesInHand
  <2>7. CASE CommitUpload(w)
    <3>1. /\ Writing(w) /\ request[w].phase = "written" /\ ~ Writing(w)'
          /\ files' = files /\ assets' = Append(assets, request[w].asset)
        BY <2>7, Phases DEF CommitUpload, Writing, Done, TypeOK, Idle
    <3>2. PICK a : a = request[w].asset
        OBVIOUS
    <3>3. /\ a.file \in DOMAIN files /\ files[a.file] = "whole"
          /\ \A i \in DOMAIN assets : assets[i].file # a.file
          /\ \A v \in Workers : v # w /\ Writing(v) => request[v].asset.file # a.file
        BY <3>1, <3>2 DEF FilesInHand
    <3>4. /\ DOMAIN assets' = DOMAIN assets \cup {Len(assets) + 1}
          /\ assets'[Len(assets) + 1] = a
          /\ \A i \in DOMAIN assets : assets'[i] = assets[i]
        BY <3>1, <3>2 DEF TypeOK
    <3>5. AssetsAreWhole'
        BY <3>1, <3>3, <3>4 DEF AssetsAreWhole
    <3>6. \A v \in Workers : Writing(v)' =>
             v # w /\ Writing(v) /\ request'[v] = request[v]
        BY <2>1, <2>2, <3>1
    <3>7. FilesInHand'
        BY <3>1, <3>3, <3>4, <3>6 DEF FilesInHand
    <3> QED
        BY <3>5, <3>7
  <2>8. ASSUME NEW m \in Memories, BeginDelete(w, m)
        PROVE  FilesInHand' /\ AssetsAreWhole'
    <3>1. ~ Writing(w)' /\ files' = files /\ assets' = assets
        BY <2>8 DEF BeginDelete, Writing, TypeOK
    <3> QED
        BY <1>a, <2>3, <3>1
  <2>9. CASE CommitDelete(w)
    <3>1. ~ Writing(w)'
        BY <2>9, Detaches, Phases DEF Writing
    <3> QED
        BY <1>a, <2>3, <2>9, <3>1, Detaches
  <2>10. CASE Abort(w)
    <3>1. ~ Writing(w)' /\ files' = files /\ assets' = assets
        BY <2>10, Phases DEF Abort, Done, Writing, TypeOK
    <3> QED
        BY <1>a, <2>3, <3>1
  <2> QED
      BY <1>1, <2>4, <2>5, <2>6, <2>7, <2>8, <2>9, <2>10 DEF Serve
<1>2. ASSUME NEW m \in Memories, CreateMemory(m)
      PROVE  FilesInHand' /\ AssetsAreWhole'
  <2>1. files' = files /\ assets' = assets /\ request' = request
      BY <1>2 DEF CreateMemory
  <2> QED
      BY <1>a, <2>1 DEF Writing
<1>3. CASE UNCHANGED vars
  <2>1. files' = files /\ assets' = assets /\ request' = request
      BY <1>3 DEF vars
  <2> QED
      BY <1>a, <2>1 DEF Writing
<1> QED
    BY <1>1, <1>2, <1>3 DEF Next

LEMMA NamesNext == TypeOK /\ NamesInHand /\ [Next]_vars => NamesInHand'
<1> SUFFICES ASSUME TypeOK, NamesInHand, [Next]_vars PROVE NamesInHand'
    OBVIOUS
<1>a. ASSUME DOMAIN assets' = DOMAIN assets,
             \A i \in DOMAIN assets : /\ assets'[i].content = assets[i].content
                                      /\ assets'[i].extension = assets[i].extension,
             \A v \in Workers : request'[v] \in Upload =>
                \/ request'[v] = request[v]
                \/ Genuine(request'[v].asset.content, request'[v].asset.extension)
      PROVE  NamesInHand'
    BY <1>a DEF NamesInHand
<1>1. ASSUME NEW w \in Workers, Serve(w) PROVE NamesInHand'
  <2>1. \A v \in Workers : v # w => request'[v] = request[v]
      BY <1>1, OneRequest
  <2>2. ASSUME NEW u \in Users, NEW c \in Contents, NEW e \in Extensions,
               NEW m \in Memories \cup {NoMemory}, Accept(w, u, c, e, m)
        PROVE  NamesInHand'
    <3>1. /\ Genuine(request'[w].asset.content, request'[w].asset.extension)
          /\ assets' = assets
        BY <2>2, Uploads DEF Accept
    <3> QED
        BY <1>a, <2>1, <3>1
  <2>3. CASE BeginWrite(w) \/ EndWrite(w)
    <3>1. /\ Genuine(request'[w].asset.content, request'[w].asset.extension)
          /\ assets' = assets
        BY <2>3, Uploads DEF BeginWrite, EndWrite, NamesInHand
    <3> QED
        BY <1>a, <2>1, <3>1
  <2>4. CASE CommitUpload(w)
    <3>1. PICK a : a = request[w].asset
        OBVIOUS
    <3>2. request[w] \in Upload /\ request'[w] = Idle /\ assets' = Append(assets, a)
        BY <2>4, <3>1, Phases DEF CommitUpload, Done, TypeOK
    <3>3. Genuine(a.content, a.extension)
        BY <3>1, <3>2 DEF NamesInHand
    <3>4. /\ DOMAIN assets' = DOMAIN assets \cup {Len(assets) + 1}
          /\ assets'[Len(assets) + 1] = a
          /\ \A i \in DOMAIN assets : assets'[i] = assets[i]
        BY <3>2 DEF TypeOK
    <3> QED
        BY <2>1, <3>2, <3>3, <3>4, Phases DEF NamesInHand
  <2>5. ASSUME NEW m \in Memories, BeginDelete(w, m) PROVE NamesInHand'
    <3>1. request'[w].phase = "deleting" /\ assets' = assets
        BY <2>5 DEF BeginDelete, TypeOK
    <3>2. request'[w] \notin Upload
        BY <3>1 DEF Upload
    <3> QED
        BY <1>a, <2>1, <3>1, <3>2
  <2>6. CASE CommitDelete(w)
    <3>1. request'[w] \notin Upload
        BY <2>6, Detaches, Phases
    <3> QED
        BY <1>a, <2>1, <2>6, <3>1, Detaches
  <2>7. CASE Abort(w)
    <3>1. request'[w] \notin Upload /\ assets' = assets
        BY <2>7, Phases DEF Abort, Done, TypeOK
    <3> QED
        BY <1>a, <2>1, <3>1
  <2> QED
      BY <1>1, <2>2, <2>3, <2>4, <2>5, <2>6, <2>7 DEF Serve
<1>2. ASSUME NEW m \in Memories, CreateMemory(m) PROVE NamesInHand'
    BY <1>2, <1>a DEF CreateMemory
<1>3. CASE UNCHANGED vars
    BY <1>3, <1>a DEF vars
<1> QED
    BY <1>1, <1>2, <1>3 DEF Next

LEMMA AlwaysInv == Spec => []Inv
  BY InvInit, TypeNext, FilesNext, NamesNext, PTL DEF Spec, Inv

(* Every row has a file of its own, written to the end, wherever a server  *)
(* died: the row is committed after the file, and no file is written over. *)
THEOREM RowsHaveFiles == Spec => []AssetsAreWhole
<1>1. Inv => AssetsAreWhole
    BY DEF Inv
<1> QED
    BY <1>1, AlwaysInv, PTL

(* No content is listed under a name that promises another.                *)
THEOREM FilesAreWhatTheySay == Spec => []NamesAreTrue
<1>1. Inv => NamesAreTrue
    BY DEF Inv, NamesInHand, NamesAreTrue, Genuine
<1> QED
    BY <1>1, AlwaysInv, PTL

-----------------------------------------------------------------------------
(* Requests that are served one by one *)

OneByOne == \A v, w \in Workers : request[v] # Idle /\ request[w] # Idle => v = w

(* What a request has in hand exists, and a deletion has found every file. *)
Attached ==
    /\ MemoriesExist
    /\ \A w \in Workers : request[w] \in Upload =>
          \/ request[w].asset.memory = NoMemory
          \/ memories[request[w].asset.memory] = "stored"
    /\ \A w \in Workers : request[w] \in Deletion =>
          request[w].children = {i \in DOMAIN assets :
                                    assets[i].memory = request[w].memory}

LEMMA AttachedNext ==
    TypeOK /\ Attached /\ OneByOne /\ [Next]_vars => Attached'
<1> SUFFICES ASSUME TypeOK, Attached, OneByOne, [Next]_vars PROVE Attached'
    OBVIOUS
<1>1. ASSUME NEW w \in Workers, Serve(w) PROVE Attached'
  <2>1. \A v \in Workers : v # w => request'[v] = request[v]
      BY <1>1, OneRequest
  <2>2. ASSUME NEW u \in Users, NEW c \in Contents, NEW e \in Extensions,
               NEW m \in Memories \cup {NoMemory}, Accept(w, u, c, e, m)
        PROVE  Attached'
    <3>1. /\ request'[w] \in Upload /\ request'[w].asset.memory = m
          /\ m # NoMemory => memories[m] = "stored"
          /\ memories' = memories /\ assets' = assets
        BY <2>2, Uploads DEF Accept
    <3>2. request'[w] \notin Deletion
        BY <3>1 DEF Upload, Deletion
    <3> QED
        BY <2>1, <3>1, <3>2 DEF Attached, MemoriesExist
  <2>3. CASE BeginWrite(w) \/ EndWrite(w)
    <3>1. /\ request[w] \in Upload /\ request'[w] \in Upload
          /\ request'[w].asset.memory = request[w].asset.memory
          /\ memories' = memories /\ assets' = assets
        BY <2>3, Uploads DEF BeginWrite, EndWrite
    <3>2. request'[w] \notin Deletion
        BY <3>1 DEF Upload, Deletion
    <3> QED
        BY <2>1, <3>1, <3>2 DEF Attached, MemoriesExist
  <2>4. CASE request[w] # Idle /\ request'[w] = Idle
    <3>1. \A v \in Workers : request'[v] = Idle
        BY <2>1, <2>4 DEF OneByOne
    <3>2. ASSUME MemoriesExist' PROVE Attached'
        BY <3>1, <3>2, Phases DEF Attached
    <3>3. CASE CommitUpload(w)
      <4>1. PICK a : a = request[w].asset
          OBVIOUS
      <4>2. /\ request[w] \in Upload /\ assets' = Append(assets, a)
            /\ memories' = memories
          BY <3>3, <4>1, Phases DEF CommitUpload
      <4>3. a.memory # NoMemory => memories[a.memory] = "stored"
          BY <4>1, <4>2 DEF Attached
      <4>4. /\ DOMAIN assets' = DOMAIN assets \cup {Len(assets) + 1}
            /\ assets'[Len(assets) + 1] = a
            /\ \A i \in DOMAIN assets : assets'[i] = assets[i]
          BY <4>2 DEF TypeOK
      <4> QED
          BY <3>2, <4>2, <4>3, <4>4 DEF Attached, MemoriesExist
    <3>4. CASE CommitDelete(w)
      <4>1. PICK m : m = request[w].memory
          OBVIOUS
      <4>2. /\ request[w] \in Deletion /\ DOMAIN assets' = DOMAIN assets
            /\ m \in Memories /\ m # NoMemory
            /\ memories' = [memories EXCEPT ![m] = "deleted"]
          BY <3>4, <4>1, Detaches, VaultAssumption DEF Deletion, CommitDelete
      <4>3. \A i \in DOMAIN assets :
               assets'[i].memory = IF assets[i].memory = m THEN NoMemory
                                   ELSE assets[i].memory
          BY <3>4, <4>1, <4>2, Detaches DEF Attached
      <4> QED
          BY <3>2, <4>2, <4>3 DEF Attached, MemoriesExist, TypeOK, Asset
    <3>5. CASE Abort(w)
        BY <3>2, <3>5 DEF Abort, Attached, MemoriesExist
    <3> QED
        BY <1>1, <2>4, <3>3, <3>4, <3>5, Uploads, Phases
           DEF Serve, Accept, BeginDelete, BeginWrite, EndWrite
  <2>5. ASSUME NEW m \in Memories, BeginDelete(w, m) PROVE Attached'
    <3>1. /\ request'[w] = [phase |-> "deleting", memory |-> m,
                            children |-> {i \in DOMAIN assets : assets[i].memory = m}]
          /\ memories' = memories /\ assets' = assets
        BY <2>5 DEF BeginDelete, TypeOK
    <3>2. /\ request'[w].memory = m /\ request'[w] \notin Upload
          /\ request'[w].children = {i \in DOMAIN assets : assets[i].memory = m}
        BY <3>1 DEF Upload
    <3> QED
        BY <2>1, <3>1, <3>2 DEF Attached, MemoriesExist
  <2>6. CASE CommitUpload(w) \/ CommitDelete(w) \/ Abort(w)
    <3>1. request[w] # Idle /\ request'[w] = Idle
        BY <2>6, Phases DEF CommitUpload, CommitDelete, Abort, Done, TypeOK
    <3> QED
        BY <2>4, <3>1
  <2> QED
      BY <1>1, <2>2, <2>3, <2>5, <2>6 DEF Serve
<1>2. ASSUME NEW m \in Memories, CreateMemory(m) PROVE Attached'
  <2>1. /\ request' = request /\ assets' = assets
        /\ \A k \in Memories : memories[k] = "stored" => memories'[k] = "stored"
      BY <1>2 DEF CreateMemory, TypeOK
  <2>2. /\ \A w \in Workers : request[w] \in Upload =>
              request[w].asset.memory \in Memories \cup {NoMemory}
        /\ \A i \in DOMAIN assets : assets[i].memory \in Memories \cup {NoMemory}
    <3>1. /\ \A a \in Asset : a.memory \in Memories \cup {NoMemory}
          /\ \A r \in Upload : r.asset \in Asset
        BY DEF Asset, Upload
    <3> QED
        BY <3>1 DEF TypeOK
  <2> QED
      BY <2>1, <2>2 DEF Attached, MemoriesExist
<1>3. CASE UNCHANGED vars
    BY <1>3 DEF vars, Attached, MemoriesExist
<1> QED
    BY <1>1, <1>2, <1>3 DEF Next

-----------------------------------------------------------------------------
(* The watched specification: until two requests overlap *)

LEMMA WatchedOneByOne ==
    /\ WatchedInit => OneByOne
    /\ [WatchedNext]_<<vars, overlapped>> /\ ~ overlapped' /\ (~ overlapped => OneByOne)
          => ~ overlapped /\ OneByOne'
<1>1. WatchedInit => OneByOne
    BY DEF WatchedInit, Init, OneByOne
<1>2. ASSUME WatchedNext, ~ overlapped' PROVE ~ overlapped /\ OneByOne'
    BY <1>2 DEF WatchedNext, OneByOne
<1>3. ASSUME UNCHANGED <<vars, overlapped>>, ~ overlapped', ~ overlapped => OneByOne
      PROVE  ~ overlapped /\ OneByOne'
    BY <1>3 DEF vars, OneByOne
<1> QED
    BY <1>1, <1>2, <1>3

Alone == ~ overlapped => OneByOne /\ Attached

(* Until two requests overlap, a file belongs to no memory or to one that  *)
(* exists.                                                                 *)
THEOREM MemoriesOfFilesExist == WatchedSpec => []MemoriesExistAlone
<1>1. WatchedInit => TypeOK /\ Alone
  <2>1. WatchedInit => TypeOK /\ Attached
      BY Phases, TypeInit DEF WatchedInit, Init, Attached, MemoriesExist
  <2> QED
      BY <2>1, WatchedOneByOne DEF Alone
<1>2. [WatchedNext]_<<vars, overlapped>> => [Next]_vars
    BY DEF WatchedNext
<1>3. ASSUME TypeOK, Alone, [WatchedNext]_<<vars, overlapped>> PROVE TypeOK' /\ Alone'
  <2>1. TypeOK'
      BY <1>2, <1>3, TypeNext
  <2>2. ASSUME ~ overlapped' PROVE OneByOne' /\ Attached'
    <3>1. ~ overlapped /\ OneByOne'
        BY <1>3, <2>2, WatchedOneByOne DEF Alone
    <3> QED
        BY <1>2, <1>3, <3>1, AttachedNext DEF Alone
  <2> QED
      BY <2>1, <2>2 DEF Alone
<1>4. Alone => MemoriesExistAlone
    BY DEF Alone, Attached, MemoriesExistAlone
<1> QED
    BY <1>1, <1>3, <1>4, PTL DEF WatchedSpec

=============================================================================
