\* Two owner threads and one more request than the ledger has records, so
\* that gates are inherited and a request is refused; three surroundings for
\* the list of candidates.
SPECIFICATION TuningSpec
CONSTANTS
    Owners = {decoder, watchdog}
    Decoder = decoder
    History = 1
    MaxRequests = 2
    Areas <- Surroundings
    Ttl = 1
    Cool = 1
INVARIANTS TypeOK CountMatchesLedger GenerationCountsCommits DispatchedFrameIsCurrent
    UnrecoveredFailureKeepsGate CandidatesRight
PROPERTIES ResolvedStaysResolved InFlightSettles
