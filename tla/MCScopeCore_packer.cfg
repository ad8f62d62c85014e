SPECIFICATION Spec
CONSTANTS
    Channels <- OneChannel
    Capacity = 2
    Inputs <- OneInput
    TriggerConfs <- ContinuousConfs
    TimeMod = 3
    Increments = {1}
    InitialChannel = 0
    MaxEvents = 1
    MaxLag = 1
    MaxChanges = 1
    StreamDropsOldest = FALSE
    PackerMemory = {2}
    TickWhileStopped = FALSE
    LiveCommands = {"cf_running"}
    StoppedCommands = {"cf_running", "cf_addr"}
    CleanStart = FALSE
PROPERTIES PackTakesSwapOnly
