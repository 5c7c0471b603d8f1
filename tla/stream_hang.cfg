CONSTANTS
    N = 2
    Faults <- FinishedRefused
SPECIFICATION FairSpec
PROPERTIES
    SignalStops
