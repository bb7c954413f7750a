SPECIFICATION Spec
CONSTANTS
    Lines = {l1}
    Items = {i1, i2}
    Entries = {e1, e2}
    None = None
    Scans = {s1, s2}
    Requests = {r1, r2}
SYMMETRY QueueSymmetry
CONSTRAINT SomethingToShow
INVARIANTS LedgerFollowsReview DecisionsArePosted
PROPERTIES DecisionsStand
