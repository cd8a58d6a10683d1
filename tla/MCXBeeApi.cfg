SPECIFICATION MCSpec
CONSTANTS
    MaxFrameLen = 16
    MaxFrameId = 2
    RingSpace = 4
    MaxCalls = 2
    MaxFrames = 4
    MaxDamage = 1
    Dests <- SomeDests
    RfData <- SomeRfData
    Commands <- SomeCommands
    RadioBodies <- SomeBodies
    Noise <- Words
INVARIANTS
    TypeOK
    Resynchronised
    SentWhole
CHECK_DEADLOCK FALSE
