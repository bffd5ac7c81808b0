CONSTANTS
    nprocs = 3
    nHalos = 2
    MaxCalls = 2
    Cells <- MCCells
    cellsOnVertex <- MCcellsOnVertex
    cellsOnEdge <- MCcellsOnEdge
    Rim <- MCRim
    Midpoint <- MCMidpoint
    Clockwise <- MCClockwise
    Elevation <- MCElevation
    BelowSea <- MCBelowSea
    Partitions <- MCPartitions
    IceSheets <- MCIceSheets
SPECIFICATION Spec
INVARIANTS
    NumberingIsGlobal
    InterfacesAgree
    ConformingSplit
    VelocityEverywhere
    ExitOnlyBesideIce
PROPERTIES
    Terminates
CHECK_DEADLOCK FALSE
