\* Two calls: by two callers, by one beside the control port, or by one with
\* soft_stop() at any point.
SPECIFICATION Spec
CONSTANTS
    Callers = {decoder, watchdog}
    Decoder = decoder
    MaxCalls = 2
    Setups <- FourSetups
INVARIANTS RequestsInOrder AnsweredAsPublished DemodParked
PROPERTIES HandoverIsFresh TimedOutStaysSilent
CHECK_DEADLOCK FALSE
