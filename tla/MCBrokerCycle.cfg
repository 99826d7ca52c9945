SPECIFICATION FairSpec
CONSTANTS
    cron = cron
    manual = manual
    Cycles <- MCCycles
    Shipments <- MCShipments
    SettleSeconds = 0
    MaxBox = 2
    TokensPerRun = 0
    TokensWindow = 1
    WindowSeconds = 1
    BreakerThreshold = 2
    CooldownSeconds = 1
    MaxFanout = 0
    MaxFanoutExpensive = 0
    TokensPerTarget = 0
INVARIANTS
    SuccessWasDelivered
    SilenceTrips
PROPERTIES
    EveryCycleEnds
