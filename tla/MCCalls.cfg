\* Seven services for the calls and three hosts for the copies.
SPECIFICATION CallsSpec
CONSTANTS
    None = none
    Services <- SevenServices
    Embedded = 1
    Hosts <- ThreeHosts
INVARIANTS HistoryRight AlertsPaired CopiesRight
CHECK_DEADLOCK FALSE
