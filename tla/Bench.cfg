CONSTANTS
    NUM_KEYS_SHIFT <- MCShifts
    BATCH_SIZE <- MCBatches
    ITERS = 2
    Table <- MCTable
    Drawn <- MCDrawn
    Rate <- MCRate
    Word = 14
    MaxFd = 12
    MaxTrouble = 1
SPECIFICATION Spec
CHECK_DEADLOCK FALSE
INVARIANTS EventsInHand CountsAreTheBatch ReportTrue
PROPERTY Ends
