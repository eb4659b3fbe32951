SPECIFICATION Spec
CONSTANTS
    owner = owner
    admin = admin
    kin = kin
    child = child
    friend = friend
    self = self
    stranger = stranger
    NoUser = NoUser
    NoDate = NoDate
    Owner = owner
    Users <- MCUsers
    Admins <- MCAdmins
    Contacts <- MCContacts
    Trusted <- MCTrusted
    RelatedUser <- MCRelatedUser
    Policies <- MCPolicies
    Autoflush = FALSE
    DirectTargets = {}
    ForceArgs = {FALSE}
    MaxTime = 1
    MaxHistory = 0
INVARIANTS
    QuorumActedUpon
CHECK_DEADLOCK FALSE
