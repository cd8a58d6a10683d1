SPECIFICATION FairSpec
CONSTANTS
    Size = 3
    MaxSends = 4
    MaxArrivals = 4
    MaxErrors = 2
    MaxRefusals = 2
    Preemptible = FALSE
INVARIANTS
    TypeOK
    WireInOrder
    ReadsInOrder
    BusyWhileInFlight
    TxNotForgotten
PROPERTIES
    RxForgottenInWindowOnly
    TxDrains
    RxRecovers
    WaitsOnlyForRefused
