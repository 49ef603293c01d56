SPECIFICATION FairSpec
CHECK_DEADLOCK FALSE
CONSTANTS
    TaskNames <- Two
    PodNames <- Two
    PodName <- OwnPod
    ManifestIds <- Chain
    Manifest <- MCManifest
    Forecasts <- NoForecasts
    Disturbances = {"delete"}
    MaxUid = 2
    MaxGen = 1
    MaxCrashes = 0
PROPERTIES
    LostPodNoticed
