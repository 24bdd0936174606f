\* Two calls, one death of the host; every suspension and both paths.
SPECIFICATION JSpec
CONSTANTS
    MaxCalls = 2
    MaxBatch = 2
    MaxThinks = 1
    MaxAudits = 0
    MaxRestarts = 1
    Configs <- JournalConfigs
INVARIANTS
    RestartsKeepTheLedger
    UnjournalledWorkIsBounded
PROPERTY
    RunsSettle
