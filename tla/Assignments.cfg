SPECIFICATION Spec
CONSTANTS
    e1 = e1
    e2 = e2
    p1 = p1
    p2 = p2
    d1 = d1
    r1 = r1
    r2 = r2
    Omitted = Omitted
    Emails <- TwoEmails
    Passwords <- TwoPasswords
    LongPasswords <- OnePassword
    Devices <- OneDevice
    Requests <- OneRequest
    Operations <- AssignmentOperations
    MaxUserId = 3
    MaxTokenVersion = 0
    MaxTokens = 1
SYMMETRY EmailSymmetry
INVARIANT TypeOK
PROPERTY NewAccountInheritsNothing
