CONSTANTS
    Devices <- MCDevices
    NoDevice = "none"
    Descriptor <- MCDescriptor
    Configs <- MCConfigs
    BosHeaders <- MCBosHeaders
    BosAnswers <- MCBosAnswers
    Reports <- MCReports
    HubPorts <- MCHubPorts
    MaxReport <- MCMaxReport
    MaxTries = 3
SPECIFICATION Spec
INVARIANTS
    TypeOK
    ReadsWithinDescriptor
    WholeIffWellFormed
    ReportWithinAnswer
    OtgNotLost
    NothingHeld
PROPERTIES
    EveryStepUsesSomething
