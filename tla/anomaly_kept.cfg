SPECIFICATION FairSpec
CONSTANTS
    plain = plain
    random = random
    Domain <- MCDomain
    Static <- MCStatic
    Window = 1
    FreqLimit = 1
    Cooldown = 2
    Capacity = 1
    Lag = 1
    MaxRound = 1
    MaxHistory <- MCMaxHistory
    NoDomain = NoDomain
PROPERTIES
    TrackingPruned
CHECK_DEADLOCK FALSE
