CONSTANTS
    Flags = 1
    Targets <- MCTargets
SPECIFICATION FairGatesSpec
INVARIANTS GatesTypeOK CodeIsDeserved RefusalsAreAttributed
PROPERTY GatesEnd
CHECK_DEADLOCK FALSE
