SPECIFICATION FairSpec
CONSTANTS
    NThreads = 3
    Plans <- ThreePlans
    MayAbort = TRUE
    MaxGraphs = 3
    MaxPauses = 1
INVARIANTS InputsReady ResultComplete ParamsUntouched
PROPERTIES Progress
