CONSTANTS
    Lines = {0, 6, 12}
    SyscallIDs = {0, 1, 3, 4, 16, 32}
    VGA_XRESOLUTION = 8
    VGA_YRESOLUTION = 2
    KERNEL_END_SECTOR = 20
    RootDirectoryLBA = 31
    SectorMapLBA = 32
SPECIFICATION OldSpec
INVARIANTS
    NeverLost
    ReadsComplete
    NearScreen
PROPERTY MainGoesOn
CHECK_DEADLOCK FALSE
