SPECIFICATION LoaderSpec
CONSTANTS
    one = one
    two = two
    Invalid = Invalid
    NoList = NoList
    Lists <- MCLists
    MaxStamp = 2
INVARIANTS
    QuietFileIsServed
    HealthTellsTheTruth
PROPERTY FailureKeepsTheList
SYMMETRY ListSymmetry
