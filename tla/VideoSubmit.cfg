SPECIFICATION RequestSpec
CONSTANTS
    Timeout = 5
    PollEvery = 1
    MaxAttempts = 3
    Margin = 1
    Orders <- MCOrders
INVARIANTS
    AtMostOneJob
    OutcomeIsHonest
    SubmitIsBounded
    ParametersFitModel
    PartsArrive
PROPERTY
    SubmitEnds
\* The call returns, and nothing follows.
CHECK_DEADLOCK FALSE
