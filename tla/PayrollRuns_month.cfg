SPECIFICATION Spec
CONSTANTS
    Employees = {e1, e2}
    Items = {i1, i2, i3}
    Requests = {r1, r2}
    Pays = {1}
    Extras = {1}
    Months = {m1, m2}
    Lockable = {m1}
    Settable = {"approved", "cancelled"}
    MaxPosted = 2
    Continued = FALSE
SYMMETRY Symmetry
INVARIANTS WagesPaidOnce ApprovedRunTies
PROPERTIES HandEditsSurvive ClosedMonthsTakeNoWages
