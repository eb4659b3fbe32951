SPECIFICATION Spec
CONSTANTS
    owner = owner
    admin = admin
    kin = kin
    child = child
    friend = friend
    NoUser = NoUser
    NoDate = NoDate
    NoContact = NoContact
    Owner = owner
    Users <- MCUsers
    Admins <- MCAdmins
    Contacts <- MCContacts
    Trusted <- MCContacts
    RelatedUser <- MCUnlinked
    Policies <- ConsensusPolicies
    Workers = {w1, w2}
    MaxTime = 0
SYMMETRY Interchangeable
INVARIANTS
    TypeOK
    DuplicatesBounded
    FrozenUntilCancel
PROPERTIES
    KeepsContract
CHECK_DEADLOCK FALSE
