-------------------------- MODULE MCReleaseRequests --------------------------
(***************************************************************************)
(* Instances of ReleaseRequests: an owner, an administrator, a relative    *)
(* with an account linked to one contact, and a contact without one.       *)
(***************************************************************************)
EXTENDS ReleaseRequests, TLC

CONSTANTS owner, admin, kin, child, friend

MCUsers == {owner, admin, kin}
MCAdmins == {admin}
MCContacts == {child, friend}
MCRelatedUser == [c \in MCContacts |-> IF c = child THEN kin ELSE NoUser]

(* Contacts without accounts: an administrator confirms for all of them,   *)
(* and they are interchangeable, as the workers are.                       *)
MCUnlinked == [c \in MCContacts |-> NoUser]

Interchangeable == Permutations(Workers) \cup Permutations(MCContacts)

AnyPolicy(cond, at, n) ==
    [release_condition |-> cond, requested_at |-> at, utc_offset |-> 0,
     required_confirmations |-> n]

(* A quorum of both contacts.                                              *)
ConsensusPolicies == {AnyPolicy("TRUSTED_CONSENSUS", NoDate, 2)}

MixedPolicies == {AnyPolicy("MANUAL", NoDate, 1),
                  AnyPolicy("TRUSTED_CONSENSUS", NoDate, 1),
                  AnyPolicy("SCHEDULED", 1, 1),
                  AnyPolicy("ON_DEATH", NoDate, 1)}

=============================================================================
