SPECIFICATION Spec
CONSTANTS
    Channels <- OneChannel
    Capacity = 4
    Inputs <- OneInput
    TriggerConfs <- EdgeConfs
    TimeMod = 5
    Increments = {1}
    InitialChannel = 0
    MaxEvents = 1
    MaxLag = 1
    MaxChanges = 2
    StreamDropsOldest = TRUE
    PackerMemory = {2}
    TickWhileStopped = FALSE
    LiveCommands = {}
    StoppedCommands = {"cf_running", "cf_addr", "cf_trigger"}
    CleanStart = FALSE
 
PROPERTIES TriggerInWindow
