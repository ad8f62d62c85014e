SPECIFICATION ExchangeSpec
CONSTANTS
    HostFrames <- MCWellFormed
    Malformed = {}
    TargetFrames = {}
    EarlyResets = FALSE
    Decodable <- MCDecodable
    Capacity = 4
    HostPaced = FALSE
    MaxAwaited = 2
    Noise = {}
    MaxDamages = 0
INVARIANTS DeliveredWasSent
