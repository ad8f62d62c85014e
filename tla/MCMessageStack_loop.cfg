SPECIFICATION InsistentSpec
CONSTANTS
    HostMessages = {"cf_running", "cf_bad", "cf_unanswered", "ev_clear", "ev_trans", "ev_detect", "ev_announce", "se_nak"}
    QueueSize = 2
    DataPriority = 2
    LogPriority = 3
    Logging = TRUE
    Threaded = FALSE
    SynchronousTransport = TRUE
    HostPaced = FALSE
    LinkLosesFrames = TRUE
    ResetStates = {"NONE", "BODY", "FOOT"}
    MaxOwed = 1
INVARIANTS TypeOK FramesAreWhole
PROPERTIES EventsAreSent
