SPECIFICATION FairSpec
CONSTANTS
    w1 = w1
    w2 = w2
    Worker = {w1, w2}
    Message <- MCMessage
    Malformed <- MCMalformed
    DotScript <- MCDotScript
    NoReply = NoReply
    MaxAnswer = 1
    Base = 2
    MaxScript = 2
INVARIANTS
    TypeOK
    FramesAligned
PROPERTIES
    ImplementsService
    StreamServed
    ExchangeEnds
    AllAccepted
CHECK_DEADLOCK FALSE
