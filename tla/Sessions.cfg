SPECIFICATION Spec
CONSTANTS
    e1 = e1
    e2 = e2
    p1 = p1
    p2 = p2
    d1 = d1
    r1 = r1
    r2 = r2
    Omitted = Omitted
    Emails <- TwoEmails
    Passwords <- TwoPasswords
    LongPasswords <- TwoPasswords
    Devices <- NoDevices
    Requests <- TwoRequests
    Operations <- SessionOperations
    MaxUserId = 2
    MaxTokenVersion = 2
    MaxTokens = 1
SYMMETRY SessionSymmetry
INVARIANTS
    SessionsReflectAccount
    AtMostOneSetup
PROPERTIES
    RevokedStaysRevoked
    LogoutRevokesOnlyItsVersion
    AdminPersists
    ImplementsSessions
