\* A resumed ask executes its call under a standing pause request.
SPECIFICATION Spec
CONSTANTS
    MaxCalls = 2
    MaxBatch = 2
    MaxThinks = 1
    MaxAudits = 0
    Configs <- SerialConfigs
PROPERTY
    NothingExecutesUnderStandingRequest
