CONSTANTS
    PAGE_SIZE = 2
    UserStart = 2
    UserEnd = 6
    FlashEnd = 8
    Files <- MCFiles
    SS = 8
    PerSector = 2
    MIN_FAT16 = 8
    MIN_FAT32 = 12
    IndexMod = 16
    Disks <- MCDisks
    ReadSizes = {8, 12}
    SECTOR = 2
    MaxLba = 3
    MaxCount = 2
    MaxFaults = 2
SPECIFICATION LoaderSpec
INVARIANTS
    BootloaderIntact
    UpdateExact
    FileExact
    SectorsRight
PROPERTIES
    Recovers
    FatReturns
CHECK_DEADLOCK FALSE
