\* Call by call: every suspension, the caps, audits before the loop.
SPECIFICATION Spec
CONSTANTS
    MaxCalls = 3
    MaxBatch = 2
    MaxThinks = 2
    MaxAudits = 1
    Configs <- SerialConfigs
INVARIANTS
    TypeOK
    BrainSeesEveryAnswer
    WithheldDraftsStayUnheard
    OutputIsWhatWasHeard
    OutcomeMatchesStream
    RoundBudget
    PauseBoundsWork
PROPERTIES
    RequestLoweredOnlyByItsOwner
    TerminalIsLast
