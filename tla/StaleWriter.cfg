SPECIFICATION Spec
CONSTANTS
    owner = owner
    admin = admin
    kin = kin
    child = child
    friend = friend
    NoUser = NoUser
    NoDate = NoDate
    NoContact = NoContact
    Owner = owner
    Users <- MCUsers
    Admins <- MCAdmins
    Contacts <- MCContacts
    Trusted <- MCContacts
    RelatedUser <- MCUnlinked
    Policies <- MixedPolicies
    Workers = {w1, w2}
    MaxTime = 0
PROPERTIES
    ReleasedForGood
CHECK_DEADLOCK FALSE
