\* Batches of up to three calls, the configuration swapped between resumes.
SPECIFICATION Spec
CONSTANTS
    MaxCalls = 3
    MaxBatch = 3
    MaxThinks = 2
    MaxAudits = 0
    Configs <- MixedConfigs
INVARIANTS
    CallLedger
    ExecutesOnceUnderAllow
    HandleCarriesOpenCalls
    WindowRespected
PROPERTIES
    KeepsCallContract
