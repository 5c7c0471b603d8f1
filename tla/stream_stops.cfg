CONSTANTS
    N = 2
    Faults <- NoRefusal
SPECIFICATION FairSpec
PROPERTIES
    SignalStops
    QuietStops
