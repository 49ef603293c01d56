SPECIFICATION FairSpec
CHECK_DEADLOCK FALSE
CONSTANTS
    TaskNames <- MCTasks
    ManifestIds <- MCIds
    Manifest <- MCManifest
    Workflows = {"v", "w"}
    Files <- MCFiles
    Installed <- MCInstalled
    Clients = {"cli", "ui"}
    Faults = {"api", "podfail"}
    MaxUid = 2
    MaxSubmits = 2
    PodNames <- MCPods
    PodName <- MCPodName
INVARIANTS
    TypeOK
    OwnResults
    ViewsAgree
PROPERTIES
    NoBlindOverwrite
    EachKeepsContract
    EachDecided
    EachDeletionCompletes
