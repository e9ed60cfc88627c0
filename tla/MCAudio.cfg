SPECIFICATION AudioSpec
CONSTANTS
    Channels = {0, 1}
    High = {1}
    Notes <- ShortNotes
    Unit = 2
    Frames = 2
    Threaded = TRUE
    MaxGuest = 4
    MaxBatches = 2
INVARIANT
    NoEventLost
CHECK_DEADLOCK FALSE
