SPECIFICATION Spec
CONSTANTS
    good = good
    twin = twin
    red = red
    flaky = flaky
    outside = outside
    Candidates <- MCCandidates
    Red <- MCRed
    Flaky <- MCFlaky
    Outside <- MCOutside
    Pool <- MCPool
    Proves <- MCProves
    Modes <- MCModes
    Bills <- MCBills
    MaxBill = 1
    MaxMerged = 2
    MaxIter = 3
    MaxKeeps = 2
    TokensPerRun = 1
    TokensWindow = 1
    WindowSeconds = 1
    BreakerThreshold = 1
    CooldownSeconds = 1
    MaxFanout = 0
    MaxFanoutExpensive = 0
    TokensPerTarget = 0
INVARIANTS
    PublishedWasJudged
