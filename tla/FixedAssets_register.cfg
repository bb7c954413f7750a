SPECIFICATION FairSpec
CONSTANTS
    Assets = {a1}
    Requests = {r1, r2}
    LastMonth = 2
    Depreciable = 10
    Lives = {1, 2}
    YearLength = 1
    PoolSize = 2
    Lockable = {1}
    Continued = FALSE
INVARIANTS TypeOK LedgerTiesToSchedules AssetTiesToSchedules
PROPERTIES ClosedMonthsTakeNoDepreciation EveryHandlerEnds
