CONSTANTS
    Files <- MCFiles
    Blocks <- MCBlocks
    Full = {"full"}
    Pages <- MCPages
    AreaBlocks = 2
    StorePages = 2
    SectorBlocks = 1
    SectorPages = 1
    Pool = 2
    MaxPort = 2
    MaxFailures = 1
    MaxSession = 2
    MaxNet = 2
SPECIFICATION Spec
INVARIANTS TypeOK BootsWhole AckedIsStored
PROPERTY Completes
