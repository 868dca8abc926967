SPECIFICATION Spec
CONSTANTS
    Configs <- AllConfigs
    Clashes <- AllClashes
    MaxWorkers = 2
    MaxAttempts = 2
    MaxPort = 65535
    NoWorker = NoWorker
INVARIANTS
    ValidatedRuns
PROPERTIES
    SignalEnds
\* the process ends
CHECK_DEADLOCK FALSE
