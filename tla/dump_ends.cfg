CONSTANTS
    N = 1
    Faults <- AllFaults
    HostFaults <- AllHostFaults
    Signals <- Everything
    MayBeIgnored <- Background
    Contested <- First
SPECIFICATION FairMainSpec
PROPERTIES
    SignalEndsProgram
