\* Every handler, in four sets of circumstances.
SPECIFICATION Spec
CONSTANTS
    Freqs = {1, 2}
    Sites <- Everything
    MaxLive = 2
INVARIANTS DmrSound
PROPERTIES MoveKept
