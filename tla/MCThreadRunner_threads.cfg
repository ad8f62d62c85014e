SPECIFICATION ThreadedFairSpec
CONSTANTS
    MaxEvents = 2
    a = a
    Null = Null
    AmountOfChannels = 2
    Address = {a}
    RunningRequests <- MCRunningRequests
    AddressRequests <- MCAddressRequests
    TriggerRequests <- MCTriggerRequests
    OtherRequests = {"ev_poll", "se_ack"}
    StackConfigs <- MCStackConfigs
    NameLengths = {1, 28, 31}
    BitsPerByte = 2
    SignificantBits = 6
    Words <- MCWords
INVARIANTS TypeOK ScopeAccessIsExclusive PollsOnlyActiveScope CommandsTypeOK RunningChannelHasAddress PendingIsWhole RunningScopeIsPolled PolledValueIsVariable MessagesFit LengthsAgree
PROPERTIES CheckedStartRuns MutexesAreGivenBack
