CONSTANTS
    N = 2
    Faults <- AllFaults
SPECIFICATION Spec
INVARIANTS
    TypeOK
    StreamInv
    FlagTracksFlight
    FreeOnlyFinished
    NeverPollsForNothing
    NoLeakUnlessDrainFailed
    SuccessMeansSignal
    AtMostOneDumpAfterPause
PROPERTIES
    NoResubmitWhileDraining
