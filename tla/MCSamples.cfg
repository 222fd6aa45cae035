\* More floats than the ring holds and one purge; seven bytes and one event
\* for the capture; three batches for the pool.
SPECIFICATION SamplesSpec
CONSTANTS
    Capacity = 6
    MaxRead = 4
    MaxFloats = 8
    MaxPurges = 1
    Configs <- Captures
    BlockCount = 2
    MaxSubmit = 3
    MaxInput = 7
    MaxRecorded = 1
    MaxBatches = 3
INVARIANTS RingSound PairsWhole HeldIntact BlocksAccounted CaptureRight PoolSound
PROPERTIES ImplementsQueue SamplesGoOn
CHECK_DEADLOCK FALSE
