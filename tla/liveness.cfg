SPECIFICATION FairSpec
CHECK_DEADLOCK FALSE
CONSTANTS
    TaskNames <- Three
    PodNames <- Three
    PodName <- OwnPod
    ManifestIds <- PairAndStuck
    Manifest <- MCManifest
    Forecasts <- NoForecasts
    Disturbances = {"podfail", "delete"}
    MaxUid = 1
    MaxGen = 2
    MaxCrashes = 1
INVARIANTS
    StuckNeverCompletes
PROPERTIES
    EventuallyTerminal
    DeletionCompletes
