SPECIFICATION Spec
CONSTANTS
    owner = owner
    admin = admin
    kin = kin
    child = child
    friend = friend
    NoUser = NoUser
    NoDate = NoDate
    NoContact = NoContact
    Owner = owner
    Users <- MCUsers
    Admins <- MCAdmins
    Contacts <- MCContacts
    Trusted <- MCContacts
    RelatedUser <- MCRelatedUser
    Policies <- MixedPolicies
    Workers = {w1}
    MaxTime = 1
PROPERTIES
    ServesWorkflow
CHECK_DEADLOCK FALSE
