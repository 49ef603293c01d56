SPECIFICATION Spec
CHECK_DEADLOCK FALSE
CONSTANTS
    TaskNames <- Four
    PodNames <- NotC
    PodName <- SharedPod
    ManifestIds <- ChainAndWider
    Manifest <- MCManifest
    Forecasts <- TwoForecasts
    Disturbances = {"podfail", "optimizer", "db"}
    MaxUid = 1
    MaxGen = 2
    MaxCrashes = 1
INVARIANTS
    DependencyOrder
    VerdictJustified
PROPERTIES
    KeepsContract
    RunsOnce
