CONSTANTS
    Disks <- MCDisks
    Literals <- MCLiterals
    MapBytes = 2
    MarkedSectors = {7, 8}
    SectorCount = 6
    WordLimit = 8
    FSRootDirectoryLBA = 1
    SectorMapLBA = 2
SPECIFICATION Spec
INVARIANTS
    ReadsTheFile
    
PROPERTY Returns
CHECK_DEADLOCK FALSE
