SPECIFICATION CloseSpec
CONSTANTS
    JournalIds = {e1, e2, e3, e4}
    Closings = {c1, c2}
    Dates <- MCDates
    DayOf <- MCDayOf
    MonthOf <- MCMonthOf
    Now = 3
    Entered = {1, 3}
    Lockable = {3}
CONSTRAINT FewEntries
SYMMETRY CloseSymmetry
INVARIANT ClosedOnce
PROPERTIES SealedDatesStayUnclosed TidyCloseEmptiesTheMonth
