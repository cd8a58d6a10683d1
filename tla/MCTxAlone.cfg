SPECIFICATION TxAloneSpec
CONSTANTS
    Receiver = receiver
    Broadcast = broadcast
    Senders = {n1}
    Data = {d1}
    MaxPayload = 2
    MinPayloadSize = 1
    MaxPayloadSize = 3
    MaxMessageSize = 4
    MaxMsgId = 2
    MaxNackIndices = 1
    MaxNackRounds = 1
    FragTimeout = 0
    SessionTimeout = 1
    SendDelay = 0
    NumTxSessions = 1
    Duplicates = FALSE
    Lens = {3}
    Dests = {receiver}
    Sizes = {0, 3}
INVARIANTS
    TxTypeOK
    WaitingDoneCause
PROPERTIES
    TxSessionEnds
