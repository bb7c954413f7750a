SPECIFICATION Spec
CONSTANTS
    Invoices = {i1}
    Requests = {r1, r2}
    Totals = {2}
    Rates = {1}
    Periods = {now}
    Today = now
    OldPeriod = now
    OldInvoices = {i1}
    BodyStatuses = {"draft", "sent", "paid", "void"}
    CrashTargets = {"draft", "sent", "posted", "partial", "paid", "void", "cancelled"}
    LocksAtRest = FALSE
    MaxPosted = 2
SYMMETRY RequestSymmetry
INVARIANTS CashMatchesPayments NeverOverpaid PaidMeansSettled
