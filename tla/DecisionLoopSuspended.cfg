\* The consumer stops at StateWaiting: Suspended, and no handle.
SPECIFICATION Spec
CONSTANTS
    MaxCalls = 2
    MaxBatch = 2
    MaxThinks = 1
    MaxAudits = 0
    Configs <- SerialConfigs
INVARIANT
    SuspendedMeansResumable
