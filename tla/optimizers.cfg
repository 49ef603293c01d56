SPECIFICATION Spec
CHECK_DEADLOCK FALSE
CONSTANTS
    TaskNames <- MCTasks
    ManifestIds <- NoManifests
    Manifest <- NoManifest
    Unit = 2
    Inputs <- MCInputs
INVARIANTS
    TypeOK
    LoopIsGreedy
    LoopInvariant
    PlanKeepsBudget
    ImplementationsAgree
    LimitsCoverRequests
