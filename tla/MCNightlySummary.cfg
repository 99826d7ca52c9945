SPECIFICATION Spec
CONSTANTS
    TokenCosts <- MCTokenCosts
    MaxDeviations = 1
    TokensPerRun = 1
    TokensWindow = 2
    WindowSeconds = 1
    BreakerThreshold = 1
    CooldownSeconds = 1
    MaxFanout = 1
    MaxFanoutExpensive = 1
    TokensPerTarget = 0
INVARIANT
    SummaryIsOfThisRun
