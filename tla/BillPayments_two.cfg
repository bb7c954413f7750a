SPECIFICATION Spec
CONSTANTS
    Bills = {b1}
    Payments = {p1, p2}
    Requests = {r1, r2}
    LineItems <- OneItem
    Amounts = {3}
    Periods = {now}
    OldBills = {b1}
    Lockable = {now}
SYMMETRY BillSymmetry
INVARIANTS PaymentsTie PayableOnce RecordedWithinTotal
PROPERTIES ClosedMonthsTakeNoBills BackfillRepairs
CONSTRAINT SomethingToShow
