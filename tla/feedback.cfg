SPECIFICATION Spec
CHECK_DEADLOCK FALSE
CONSTANTS
    TaskNames <- MCTasks
    ManifestIds <- NoManifests
    Manifest <- NoManifest
    Unit = 2
    Image <- MCImage
    Hintings <- MCHintings
    Estimates <- MCEstimates
    Faults = {"rpc", "db", "restart"}
    Measured <- MCMeasured
    MaxRuns = 1
    MaxRows = 2
INVARIANTS
    TypeOK
    ForecastsUsable
    
    ColdStartIsBaseline
