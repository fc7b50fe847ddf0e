CONSTANTS
    Conditions = {c1, c2}
    Sizes = {1, 2}
    Blinds = {b1, b2}
    MaxUint64 = 3
    MaxCalls = 4
SPECIFICATION Spec
INVARIANTS CountersAddUp TotalsAreExact
CHECK_DEADLOCK FALSE
