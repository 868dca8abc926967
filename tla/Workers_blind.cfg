SPECIFICATION Spec
CONSTANTS
    Configs <- OneConfig
    Clashes <- OneClash
    MaxWorkers = 1
    MaxAttempts = 2
    MaxPort = 65535
    NoWorker = NoWorker
INVARIANTS
    SelectorOffersActive
CHECK_DEADLOCK FALSE
