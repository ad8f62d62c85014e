SPECIFICATION Spec
CONSTANTS
    Channels <- TwoChannels
    Capacity = 2
    Inputs <- FlatInputs
    TriggerConfs <- ContinuousConfs
    TimeMod = 4
    Increments = {1, 2}
    InitialChannel = 0
    MaxEvents = 1
    MaxLag = 0
    MaxChanges = 1
    StreamDropsOldest = FALSE
    PackerMemory = {0, 2}
    TickWhileStopped = FALSE
    LiveCommands = {"cf_running", "cf_trigger", "cf_t_inc", "ev_clear", "ev_trans"}
    StoppedCommands = {"cf_running", "cf_addr", "cf_t_inc", "ev_clear"}
    CleanStart = FALSE
INVARIANTS TypeOK TriggerNeverStranded StoppedScopeIsQuiet WindowsShiftByRefused
PROPERTIES UnsentWindowKept ImplementsCapture
