SPECIFICATION FairSpec
CONSTANTS
    Channels <- TwoChannels
    Capacity = 2
    Inputs <- FlatInputs
    TriggerConfs <- ContinuousConfs
    TimeMod = 3
    Increments = {1, 2}
    InitialChannel = 0
    MaxEvents = 1
    MaxLag = 1
    MaxChanges = 1
    StreamDropsOldest = TRUE
    PackerMemory = {2}
    TickWhileStopped = FALSE
    LiveCommands = {"cf_running", "cf_addr", "ev_trans"}
    StoppedCommands = {"cf_running", "cf_addr", "cf_trigger", "cf_t_inc"}
    CleanStart = TRUE
PROPERTIES CaptureCompletes
