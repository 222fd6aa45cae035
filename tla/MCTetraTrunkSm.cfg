\* Two calls, or one call in a cell that may change; every tune may be late.
SPECIFICATION Spec
CONSTANTS
    Freqs = {1, 2}
    MainCarrier = 1
    Channels <- TwoCarriers
    Ids = {1, 2}
    Late = TRUE
    Airs <- CallsAndCells
INVARIANTS TetraSound
