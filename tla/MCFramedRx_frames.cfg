SPECIFICATION FairExchangeSpec
CONSTANTS
    HostFrames <- MCFrames
    Malformed <- MCMalformed
    TargetFrames <- MCAnswers
    EarlyResets = FALSE
    Decodable <- MCDecodable
    Capacity = 4
    HostPaced = TRUE
    MaxAwaited = 1
    Noise = {0, 91, 93, 255}
    MaxDamages = 2
INVARIANTS TypeOK DeliveredWasSent CleanPutReturns SentIsFrame OutputSizeIsRight
PROPERTIES FrameArrives FrameIsSent
