SPECIFICATION FairSpec
CONSTANTS
    nightly = nightly
    manual = manual
    Runs <- MCRuns
    TokenCosts <- MCTokenCosts
    Widths <- MCWidths
    MaxCost = 2
    TokensPerRun = 1
    TokensWindow = 3
    WindowSeconds = 3
    BreakerThreshold = 2
    CooldownSeconds = 2
    MaxFanout = 2
    MaxFanoutExpensive = 1
    TokensPerTarget = 1
INVARIANTS
    TypeOK
    StreakTrips
    OverspendBounded
PROPERTIES
    ImplementsGate
    KeepsAdmitting
