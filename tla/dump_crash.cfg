CONSTANTS
    N = 2
    Faults <- OutOfMemory
    HostFaults <- None
    Signals <- None
    MayBeIgnored <- None
    Contested <- None
SPECIFICATION MainSpec
INVARIANTS
    HandedBack
