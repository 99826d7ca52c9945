SPECIFICATION FairSpec
CONSTANTS
    Keys <- MCKeys
    Audits <- MCAudits
    Syncs = {cron, manual}
    Numbers = {1, 2, 3}
    Scheduled = {cron}
    Unroutable <- MCUnroutable
    Stalling <- MCStalling
    MaxOutages = 2
INVARIANTS
    TypeOK
    DuplicatesBounded
PROPERTIES
    ClosedWithAReason
    ClosedOnEvidence
    EventuallyTracked
