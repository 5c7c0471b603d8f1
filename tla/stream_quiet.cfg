CONSTANTS
    N = 2
    Faults <- NoFaults
SPECIFICATION FairSpec
PROPERTIES
    QuietInterfaceStops
