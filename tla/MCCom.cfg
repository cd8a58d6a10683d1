SPECIFICATION MCSpec
CONSTANTS
    Addresses = {pc, peer}
    BufferSize = 4096
    PathMax = 128
    ContentMax = 512
    MaxMotors = 32
    MaxFiles = 64
    NumTxSessions = 1
    MaxRequests = 3
    MaxSends = 1
    Requests <- AllRequests
    PeerResponses <- SomeResponses
    AppAnswers <- AllAnswers
INVARIANTS
    TypeOK
    OneAnswerEach
    RepliesToAsker
    NoOverrun
    ErrorMeansUnchanged
    NoPhantomCommand
PROPERTIES
    PendingKept
    PendingFlushed
