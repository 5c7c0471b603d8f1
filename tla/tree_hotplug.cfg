CONSTANTS
    Nodes <- TwoBuses
    Interfaces <- FourIfs
    Volatile <- Hub
    NoMemory <- OnlyDevice
SPECIFICATION FairSpec
INVARIANTS
    TypeOK
    PrintsWhatHangsTogether
    LinesAscend
    StableIsPrinted
PROPERTIES
    Finishes
