\* One call, with soft_stop() at any point; two frequencies and one event of
\* the operator or the input.
SPECIFICATION LiveSpec
CONSTANTS
    Callers = {decoder}
    Decoder = decoder
    MaxCalls = 1
    Setups <- Stopping
    Freqs = {1, 2}
    Airs <- RtlAndPeer
    Grace = 1
    Probe = 1
    Timeout = 1
    MaxOpen = 2
    MaxEvents = 1
INVARIANTS HuntSound
PROPERTIES HuntTimely RetunesEnd HuntGoesOn
CHECK_DEADLOCK FALSE
