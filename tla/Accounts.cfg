SPECIFICATION Spec
CONSTANTS
    Tasks = {t1, t2}
    None = None
    Users = {user1}
    MaxAttempts = 1
    MaxCodes = 2
    MaxSessions = 2
    Members = {user1, user2}
    Emails = {address}
    MaxInvites = 1
    MaxBusinesses = 1
    DocumentTypes = {identity_card}
    MaxDocuments = 2
    MaxGuarantors = 2
INVARIANTS
    ResetIsOnce
    AttemptsAreBounded
    MembersHaveRoles
    OneGuarantor
SYMMETRY Symmetry
CHECK_DEADLOCK FALSE
