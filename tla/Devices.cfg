SPECIFICATION Spec
CONSTANTS
    e1 = e1
    e2 = e2
    p1 = p1
    d1 = d1
    d2 = d2
    Omitted = Omitted
    Emails <- TwoEmails
    Passwords <- OnePassword
    Devices <- TwoDevices
    MaxUserId = 2
    MaxTokenVersion = 1
SYMMETRY Symmetry
INVARIANTS
    OnlyPermittedDevices
    ListLeavesNothingOut
