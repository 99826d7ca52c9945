SPECIFICATION FairSpec
CONSTANTS
    Last = 3
    Requests <- MCRequests
    Strangers <- MCStrangers
    MaxOutages = 2
    MaxSwitches = 2
INVARIANTS
    TypeOK
    FiledOncePerHandover
    NothingVanishes
PROPERTY
    RequestsAreFiled
CHECK_DEADLOCK FALSE
