SPECIFICATION Spec
CHECK_DEADLOCK FALSE
CONSTANTS
    TaskNames <- Three
    PodNames <- Three
    PodName <- OwnPod
    ManifestIds <- Fork
    Manifest <- MCManifest
    Forecasts <- NoForecasts
    Disturbances = {"podfail", "api"}
    MaxUid = 1
    MaxGen = 1
    MaxCrashes = 1
INVARIANTS
    TypeOK
    Inductive
    Accounts
    DependencyOrder
    VerdictJustified
    StatusBudget
    RecordedBeforeSucceeded
    AllocationMatchesPod
PROPERTIES
    KeepsContract
    CompletedCoversSpec
    PhaseNeverRegresses
    TerminalIsFinal
    RunsOnce
