SPECIFICATION Spec
CONSTANTS
    Block = 2
    MaxBytes = 6
    Sizes <- MCSizes
    MaxPoll = 2
    Families <- OnlyOminiLink
INVARIANTS
    FailedStatusFails
\* The call returns, and nothing follows.
CHECK_DEADLOCK FALSE
