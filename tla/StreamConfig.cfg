CONSTANTS
    Tasks <- MCTasks
    Scenarios <- MCScenarios
    Files <- MCFiles
    Edits <- MCEdits
    NamesWithin <- MCNamesWithin
    MeshDefault = "in"
    MaxEdits = 1
SPECIFICATION Spec
INVARIANTS
    RegistryHonoured
    ConstituentsLaidOut
    PathBuilt
    TasksAgree
    CheckSuffices
    AsConfigured
    GeneratedAccepted
