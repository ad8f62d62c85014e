SPECIFICATION FairSpec
CONSTANTS
    HostMessages = {"cf_t_inc", "cf_unanswered", "ev_trans", "ev_announce"}
    QueueSize = 4
    DataPriority = 2
    LogPriority = 3
    Logging = TRUE
    Threaded = TRUE
    SynchronousTransport = TRUE
    HostPaced = TRUE
    LinkLosesFrames = FALSE
    ResetStates = {}
    MaxOwed = 2
INVARIANTS AckLockIsJustified WindowIsAnnounced
PROPERTIES OnlyAcksOverwrite EventsAreSent
