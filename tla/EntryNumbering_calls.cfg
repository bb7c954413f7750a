SPECIFICATION FairSpec
CONSTANTS
    Callers = {r1, r2, r3}
    Connections = {c1, c2}
    NoConnection = none
    MaxAttempts = 1
    MaxEntryNumber = 3
    MaxHolds = 3
INVARIANT NoCollision
PROPERTY EveryCallEnds
