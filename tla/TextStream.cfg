SPECIFICATION MCSpec
CONSTANTS
    Prompts <- MCPrompts
    Calls <- MCCalls
    MaxChunks = 2
    MaxRounds = 2
    ImageOrders <- MCImageOrders
    MaxItems = 2
INVARIANTS
    PromptArrives
    AnswerArrives
    Accounted
    ImageArrives
\* The last request of a conversation ends, and nothing follows.
CHECK_DEADLOCK FALSE
