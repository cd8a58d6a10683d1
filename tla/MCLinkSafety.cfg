SPECIFICATION Spec
CONSTANTS
    n1 = n1
    n2 = n2
    d1 = d1
    d2 = d2
    Receiver = receiver
    Broadcast = broadcast
    Senders <- OneSender
    Data <- TwoBodies
    MaxPayload = 2
    MinPayloadSize = 1
    MaxPayloadSize = 3
    MaxMessageSize = 4
    MaxMsgId = 3
    MaxNackIndices = 1
    MaxNackRounds = 1
    FragTimeout = 0
    SessionTimeout = 1
    SendDelay = 0
    NumTxSessions = 1
    NumRxSessions = 1
    Duplicates = TRUE
    Lossy = TRUE
    Lens = {1, 3}
SYMMETRY BodySymmetry
INVARIANTS
    IndInv
    Integrity
    SuccessMeansDelivered
    OneOutcome
    SessionMatchesTransfer
PROPERTIES
    TransferSpec
