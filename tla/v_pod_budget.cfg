SPECIFICATION Spec
CHECK_DEADLOCK FALSE
CONSTANTS
    TaskNames <- Four
    PodNames <- Four
    PodName <- OwnPod
    ManifestIds <- Late
    Manifest <- MCManifest
    Forecasts <- NoForecasts
    Disturbances = {}
    MaxUid = 1
    MaxGen = 1
    MaxCrashes = 0
INVARIANTS PodBudget
