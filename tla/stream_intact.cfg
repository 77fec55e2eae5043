SPECIFICATION Spec
CONSTANTS
    Bodies <- StreamBodies
    Crc <- SumOf7
    Noise <- LineNoise
    LenMax = 8
    SentMax = 2
INVARIANT OthersIntact
PROPERTY ImplementsChannel
