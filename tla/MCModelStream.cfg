\* One turn of the model with retries, plugins, a decoder and a subscriber.
SPECIFICATION Spec

CONSTANTS
    Json <- MCJson
    Family <- MCFamily
    BodyCap <- MCBodyCap
    PricingTable <- MCPricingTable
    JsonArgs <- MCJsonArgs
    MaxPendingToolCalls = 2
    PluginSets <- MCPluginSets
    Setups <- MCSetups
    Replies <- MCReplies
    Fillers <- MCFillers
    ExternalCosts <- MCExternalCosts
    MaxOthers = 1
    MaxAttempts = 3
    BaseDelay = 2
    TotalDeadline = 5
    RetryAfters <- MCRetryAfters
    MaxPiece = 4
    ChannelCap = 1

INVARIANTS
    ReplyKept
    LiveMatches
    BilledOnce
    RetryBounded
    RequestExact

PROPERTIES
    TurnEnds

CHECK_DEADLOCK FALSE
