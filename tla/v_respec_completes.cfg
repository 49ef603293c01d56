SPECIFICATION Spec
CHECK_DEADLOCK FALSE
CONSTANTS
    TaskNames <- Four
    PodNames <- Four
    PodName <- OwnPod
    ManifestIds <- ChainAndWider
    Manifest <- MCManifest
    Forecasts <- NoForecasts
    Disturbances = {}
    MaxUid = 1
    MaxGen = 2
    MaxCrashes = 0
PROPERTIES CompletedCoversSpec
