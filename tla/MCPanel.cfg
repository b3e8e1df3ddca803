SPECIFICATION FairSpec
CONSTANTS
    MaxTroubles = 1
    Filters = {1, 2}
    Commands = {c1}
    MaxChanges = 1
    MaxMounts = 2
INVARIANTS
    ShowsWhatWasAsked
PROPERTIES
    Settles
    LoginSticks
    LossIsNoticed
