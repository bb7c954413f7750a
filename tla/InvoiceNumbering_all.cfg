SPECIFICATION NumberingSpec
CONSTANTS
    Series = {inv}
    TxCreators = {h1, h2}
    Converters = {c1, c2}
    Quotes = {q1, q2}
    Nobody = Nobody
    MaxNumber = 3
SYMMETRY HandlerSymmetry
INVARIANTS NoDoubleAllocation GapsAreExplained
\* The company may stop issuing documents, and stops at MaxNumber.
CHECK_DEADLOCK FALSE
