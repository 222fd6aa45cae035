\* Calls whose tunes fail or miss their deadline, and a silent cold start.
SPECIFICATION FairSpec
CONSTANTS
    Freqs = {1, 2}
    Sites <- Live
    MaxLive = 2
PROPERTIES DmrGoesOn
