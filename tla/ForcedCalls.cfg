SPECIFICATION Spec
CONSTANTS
    owner = owner
    admin = admin
    kin = kin
    child = child
    friend = friend
    self = self
    stranger = stranger
    NoUser = NoUser
    NoDate = NoDate
    Owner = owner
    Users <- MCUsers
    Admins <- MCAdmins
    Contacts <- MCTrusted
    Trusted <- MCTrusted
    RelatedUser <- MCRelatedUser
    Policies <- FewPolicies
    Autoflush = FALSE
    DirectTargets <- ReleaseState
    ForceArgs = {TRUE, FALSE}
    MaxTime = 1
    MaxHistory = 3
INVARIANTS
    HistoryReplays
    CancelRevokes
    OneVoicePerContact
    FrozenInPipeline
PROPERTIES
    ReleaseHonoursCondition
    ReleasedForGood
CHECK_DEADLOCK FALSE
