\* Every handler, in four sets of circumstances.
SPECIFICATION Spec
CONSTANTS
    Setups <- Everything
INVARIANTS ScanSound
PROPERTIES CallKept
