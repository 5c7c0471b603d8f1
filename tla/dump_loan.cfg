CONSTANTS
    N = 2
    Faults <- StreamFaults
    HostFaults <- AllHostFaults
    Signals <- ExitOnly
    MayBeIgnored <- Background
    Contested <- First
SPECIFICATION MainSpec
INVARIANTS
    MainInv
    HandedBack
    FlightOnlyWhileClaimed
    NoSignalLost
    ZeroMeansDescriptors
PROPERTIES
    KeepsLoanPromise
