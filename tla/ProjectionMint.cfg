CONSTANTS
    Compounded <- MCCompounded
    FreeObservations = 1  MostObservations = 2  MostFlows = 2
    MostEndpoints = 1  MostRecent = 2  HourLength = 2
    Cent = 10  PriceScale = 100  SupportedAssets <- MCSupported  BitcoinAssets <- MCBitcoin
SPECIFICATION Decisions
CHECK_DEADLOCK FALSE
INVARIANTS
    CompactionLosesNothing
