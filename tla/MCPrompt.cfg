SPECIFICATION PromptSpec
CONSTANTS
    n1 = n1
    d1 = d1
    Receiver = receiver
    Broadcast = broadcast
    Senders <- OneSender
    Data <- OneBody
    MaxPayload = 2
    MinPayloadSize = 1
    MaxPayloadSize = 3
    MaxMessageSize = 6
    MaxMsgId = 3
    MaxNackIndices = 2
    MaxNackRounds = 3
    FragTimeout = 1
    SessionTimeout = 11
    SendDelay = 1
    NumTxSessions = 1
    NumRxSessions = 1
    Duplicates = FALSE
    Lossy = FALSE
    Lens = {1, 5}
    MaxLosses = 3
INVARIANTS
    SlotFreeForNext
PROPERTIES
    EveryTransferSucceeds
