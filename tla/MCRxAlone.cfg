SPECIFICATION RxAloneSpec
CONSTANTS
    Receiver = receiver
    Broadcast = broadcast
    Senders = {n1, n2}
    Data = {n1, n2}
    MaxPayload = 1
    MaxMessageSize = 3
    MaxMsgId = 3
    MaxNackIndices = 1
    MaxNackRounds = 1
    FragTimeout = 0
    SessionTimeout = 1
    NumRxSessions = 2
    Duplicates = FALSE
    TotalLens = {2, 3}
    MsgIds = {1}
    Counts = {3, 4}
    PayloadLens = {0, 1, 2}
    MaxDeliveries = 1
INVARIANTS
    RxTypeOK
    SessionsSound
PROPERTIES
    SessionKeepsItsParts
    NacksHonest
    RxSessionEnds
