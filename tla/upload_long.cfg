CONSTANTS
    Files <- MCFiles
    Blocks <- MCLongBlocks
    Full = {}
    Pages <- MCPages
    AreaBlocks = 3
    StorePages = 2
    SectorBlocks = 1
    SectorPages = 1
    Pool = 2
    MaxPort = 2
    MaxFailures = 0
    MaxSession = 2
    MaxNet = 2
SPECIFICATION Spec
PROPERTY Completes
