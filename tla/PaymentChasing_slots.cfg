SPECIFICATION Spec
CONSTANTS
    Requests = {r1, r2}
    Writers = {w1}
    DayLength = 3
    Lockout = 1
    Frequency = 1
    MaxLevel = 3
    Thresholds <- DailyLevels
    LastTick = 6
CONSTRAINT SomethingToShow
SYMMETRY RequestSymmetry
INVARIANTS ChasesSpaced SlotTellsLastChase PlannedChasesClimb PaymentStampsChases
CHECK_DEADLOCK FALSE
