SPECIFICATION FairSpec
CONSTANTS
    Main = main
    Senders = {s1}
    NoLine = NoLine
    Guarded = TRUE
    CanDrop = TRUE
    MaxBatch = 2
    MaxSent = 4
    MaxNoise = 1
CHECK_DEADLOCK FALSE
PROPERTIES RoundTripContract CallsReturn
