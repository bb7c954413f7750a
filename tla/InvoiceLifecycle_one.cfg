SPECIFICATION Spec
CONSTANTS
    Invoices = {i1}
    Requests = {r1}
    Totals = {1, 2}
    Rates = {1}
    Periods = {past, now}
    Today = now
    OldPeriod = past
    OldInvoices = {}
    BodyStatuses = {"draft", "sent", "posted", "partial", "paid", "void", "cancelled"}
    CrashTargets = {"sent", "posted", "partial", "paid"}
    LocksAtRest = TRUE
    MaxPosted = 3
INVARIANT BooksFollowInvoice
PROPERTIES ClosedMonthsTakeNoSales RecognisedOnceReversedOnce
