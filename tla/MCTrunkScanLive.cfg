\* A limit on every visit; one target refuses its parks now and then, or both do.
SPECIFICATION FairSpec
CONSTANTS
    Setups <- Live
PROPERTIES ScanGoesRound
