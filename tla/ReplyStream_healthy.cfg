SPECIFICATION HealthySpec
CONSTANTS
    Main = main
    Senders = {s1}
    NoLine = NoLine
    Guarded = FALSE
    CanDrop = FALSE
    MaxBatch = 2
    MaxSent = 6
    MaxNoise = 1
CHECK_DEADLOCK FALSE
INVARIANTS TypeOK ReplyPaired SeedBeforeOutput OrdinalsExact ParkedStillOwed
PROPERTIES ReplyArrives
