---------------------------- MODULE MCMediaVault ----------------------------
(***************************************************************************)
(* Instances of MediaVault: two users, each with a memory of their own.    *)
(* overlapped is a history variable: it tells what the endpoints guarantee *)
(* to requests that are served one by one from the races that void it.     *)
(***************************************************************************)
EXTENDS MediaVault

CONSTANTS u1, u2, m1, m2

VARIABLE overlapped     \* have two requests ever been in flight at once?

WatchedInit == Init /\ overlapped = FALSE

WatchedNext ==
    /\ Next
    /\ overlapped' = (overlapped
          \/ \E v, w \in Workers : v # w /\ request'[v] # Idle /\ request'[w] # Idle)

WatchedSpec == WatchedInit /\ [][WatchedNext]_<<vars, overlapped>>

MCUsers == {u1, u2}
MCMemories == {m1, m2}
MCOwnerOf == [m \in MCMemories |-> IF m = m1 THEN u1 ELSE u2]

AnyContent(signature, webp, text, length) ==
    [signature |-> signature, webp |-> webp, text |-> text, length |-> length]

(* A picture, a text, and a RIFF that ends before it could say WEBP.       *)
FewContents ==
    {AnyContent("png", FALSE, FALSE, "ordinary"),
     AnyContent("none", FALSE, TRUE, "ordinary"),
     AnyContent("riff", FALSE, FALSE, "below_12")}

(* An extension that is compared with the content, and one that is not.    *)
FewExtensions == {".png", ".gif"}

(* Unless two requests overlapped, a file belongs to no memory or to one   *)
(* that exists: delete_memory leaves none behind (DATABASE.md:130).        *)
MemoriesExistAlone == overlapped \/ MemoriesExist

=============================================================================
