CONSTANTS
    Legacy <- TwoFiles
    Days = {1, 2}
    NoTime = NoTime
    MaxFaults = 1
    MaxCrashes = 2
    MaxSignals = 1
SPECIFICATION StartupSpec
INVARIANTS
    LegacyLineKept
    TwiceOnlyIfCut
    NothingReadsMidMigration
PROPERTIES
    ComesUp
    
