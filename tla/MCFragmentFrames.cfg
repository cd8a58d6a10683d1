SPECIFICATION MCSpec
CONSTANTS
    MaxPayload = 30
    MaxMessageSize = 4096
    MaxNackIndices = 4
    BitmapSize = 64
    MsgIds = {1, 258}
    TotalLens = {1, 60, 270, 4096}
    FragIdxs = {0, 136}
    Stored = {0, 1, 7, 8, 136}
    Messages <- SomeMessages
    Bursts <- SomeBursts
INVARIANTS
    ReadBack
    DamageNoticed
    CrcRight
CHECK_DEADLOCK FALSE
