--------------------------- MODULE MCOneTimeTokens ---------------------------
(***************************************************************************)
(* Instances of OneTimeTokens: everybody and everything is interchangeable *)
(* with its kind.                                                          *)
(***************************************************************************)
EXTENDS OneTimeTokens, TLC

Interchangeable ==
    UNION {Permutations(S) : S \in {Workers, Users, Messages, Contacts, States}}

=============================================================================
