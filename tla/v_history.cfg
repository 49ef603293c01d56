SPECIFICATION Spec
CHECK_DEADLOCK FALSE
CONSTANTS
    TaskNames <- MCTasks
    ManifestIds <- NoManifests
    Manifest <- NoManifest
    Unit = 2
    Image <- MCImage
    Hintings <- MCHintings
    Estimates <- MCEstimates
    Measured = {}
    Faults = {}
    MaxRuns = 1
    MaxRows = 2
PROPERTIES
    HistoryIsUsed
