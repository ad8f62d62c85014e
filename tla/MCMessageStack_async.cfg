SPECIFICATION Spec
CONSTANTS
    HostMessages = {"cf_t_inc", "ev_announce"}
    QueueSize = 3
    DataPriority = 2
    LogPriority = 3
    Logging = FALSE
    Threaded = FALSE
    SynchronousTransport = FALSE
    HostPaced = TRUE
    LinkLosesFrames = FALSE
    ResetStates = {}
    MaxOwed = 2
INVARIANTS FramesAreWhole
