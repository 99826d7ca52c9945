SPECIFICATION FairDriftSpec
CONSTANTS
    Keys = {"live-probe-drift", "redteam-regen-stale"}
    Syncs = {"live-probe-drift", "redteam-regen-stale"}
    Numbers = {1, 2}
    LiveRuns <- MCLiveRuns
    CanaryRuns <- MCCanaryRuns
    Unroutable <- MCUnroutable
    Stalling <- MCUnroutable
    MaxOutages = 1
INVARIANTS
    OneIssuePerGuard
PROPERTIES
    WeeksCloseOnEvidence
    WeeksEventuallyTracked
