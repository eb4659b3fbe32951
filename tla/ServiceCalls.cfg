SPECIFICATION FairSpec
CONSTANTS
    owner = owner
    admin = admin
    kin = kin
    child = child
    friend = friend
    self = self
    stranger = stranger
    NoUser = NoUser
    NoDate = NoDate
    Owner = owner
    Users <- MCUsers
    Admins <- MCAdmins
    Contacts <- MCContacts
    Trusted <- MCTrusted
    RelatedUser <- MCRelatedUser
    Policies <- MCPolicies
    Autoflush = TRUE
    DirectTargets = {}
    ForceArgs = {FALSE}
    MaxTime = 2
    MaxHistory = 0
INVARIANTS
    TypeOK
PROPERTIES
    KeepsContract
    DueDelivered
CHECK_DEADLOCK FALSE
