\* Up to three attempts; stacks of up to three members and two layers.
SPECIFICATION TFairSpec
CONSTANTS
    Retries <- RetryValues
    Stacks <- StackSizes
    Layers <- LayerSizes
    Replies <- SomeReplies
    NoReply = NoReply
    Payloads <- SomePayloads
    Limits <- SomeLimits
INVARIANTS
    TurnTypeOK
    GivesUpForAReason
    CancelBoundsWork
    FailureHasACause
    RequestBudget
    DecisionIsTheAnswer
    MembraneHolds
    TruncationKeepsRunes
PROPERTIES
    RanIsFinal
    TimeoutIsFinal
    TurnEnds
CHECK_DEADLOCK FALSE
