CONSTANTS
    LastDay = 5
    MaxCrashes = 2
    Order <- MCOrder
    Published <- MCPublished
    MinAge <- MCMinAge
    Rejected <- MCRejected
    Disturbed <- MCDisturbed
SPECIFICATION Spec
INVARIANTS
    RecordedIsHeld
    RefreshesSpaced
PROPERTY
    HeldCatchesUp
