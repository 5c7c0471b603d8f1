CONSTANTS
    Devices <- MCDevices
    NoDevice = "none"
    Descriptor <- MCDescriptor
    Configs <- MCConfigs
    BosHeaders = {}
    BosAnswers = {}
    Reports <- MCReports
    HubPorts = {}
    MaxReport = 1
    MaxTries = 1
    CommandLines <- MCCommandLines
    Address <- MCAddress
    Id <- MCId
    Hotplug = {"c", "c2"}
    Cwd <- MCCwd
    Links <- MCLinks
    NodeOf <- MCNodeOf
    MaxLinks = 3
    IntWidth = 10
    Port <- MCPort
    Strings <- MCStrings
    Arguments <- MCArguments
    Interfaces <- MCInterfaces
    Words <- MCWords
SPECIFICATION UtilitiesSpec
INVARIANTS
    UtilitiesTypeOK
    ShowsTheSelectionInOrder
    FindsTheNode
    StatusTells
    HeldWhileUsed
    NoBystanderReset
    ResetsTheOneAskedFor
    AmbiguityStops
    AllOrNothing
PROPERTIES
    AllEnd
CHECK_DEADLOCK FALSE
