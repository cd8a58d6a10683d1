SPECIFICATION FairSpec
CONSTANTS
    Size = 2
    MaxSends = 3
    MaxArrivals = 0
    MaxErrors = 0
    MaxRefusals = 0
    Preemptible = TRUE
PROPERTIES
    WaitEnds
