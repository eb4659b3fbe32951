-------------------------- MODULE MCReleaseWorkflow --------------------------
(***************************************************************************)
(* Instances of ReleaseWorkflow: an owner, an administrator and one        *)
(* relative with an account; two contacts who can vouch, the owner listed  *)
(* as a contact of their own, and a contact who is not trusted.            *)
(***************************************************************************)
EXTENDS ReleaseWorkflow

CONSTANTS owner, admin, kin, child, friend, self, stranger

MCUsers == {owner, admin, kin}
MCAdmins == {admin}
MCContacts == {child, friend, self, stranger}
MCTrusted == {child, friend, self}
MCRelatedUser == [c \in Contacts |->
    CASE c = child -> kin
      [] c = self -> owner
      [] OTHER -> NoUser]

AnyPolicy(cond, at, offset, n) ==
    [release_condition |-> cond, requested_at |-> at, utc_offset |-> offset,
     required_confirmations |-> n]

(* Every condition, a date that has passed, one to come and none, dates    *)
(* written east and west of UTC, quorums below, at and above the number of *)
(* contacts who can vouch.                                                 *)
MCPolicies ==
    {AnyPolicy("MANUAL", NoDate, 0, n) : n \in 1..2}
    \cup {AnyPolicy("SCHEDULED", at, 0, 1) : at \in {0, 1, NoDate}}
    \cup {AnyPolicy("SCHEDULED", 1, offset, 1) : offset \in {-1, 1}}
    \cup {AnyPolicy("ON_DEATH", NoDate, 0, 1)}
    \cup {AnyPolicy("TRUSTED_CONSENSUS", NoDate, 0, n) : n \in 1..3}

(* Under direct calls the quorum and the condition matter less than the    *)
(* length of the history: one policy of each kind, but a date to come that *)
(* is written in UTC, east and west of it.                                 *)
FewPolicies ==
    {AnyPolicy("MANUAL", NoDate, 0, 2), AnyPolicy("ON_DEATH", NoDate, 0, 1),
     AnyPolicy("TRUSTED_CONSENSUS", NoDate, 0, 2)}
    \cup {AnyPolicy("SCHEDULED", 1, offset, 1) : offset \in {-1, 0, 1}}

=============================================================================
