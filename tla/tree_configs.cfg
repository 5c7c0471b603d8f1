CONSTANTS
    Nodes <- OneDevice
    Interfaces <- TwoConfigs
    Volatile <- OnlyDevice
    NoMemory <- None
SPECIFICATION FairSpec
PROPERTIES
    Finishes
