SPECIFICATION Spec
CONSTANTS
    Entries = {e1, e2}
    NoEntry = none
    Requests = {r1, r2}
    Inputs <- NearBalance
    Periods = {past, now}
    Today = now
    OldPeriod = past
    OldEntries = {e1}
    Claims = {e1}
    Sources = {"manual", "system"}
SYMMETRY RequestSymmetry
INVARIANTS EntriesBalanced ReversalsMirror
PROPERTIES FrozenButForAcceptance PostedIsImmutable
