\* Two writers race on two sessions that are sealed, exported and join the team meanwhile.
\* The ledger is bounded by MaxRows and stops when it is full or damaged.
SPECIFICATION Spec
CONSTANTS
    Sessions = {s1, s2}
    Writers = {a1, a2}
    Values = {v1, v2}
    Other = Other
    Keys = {k1, k2}
    NoKey = NoKey
    MaxRows = 2
INVARIANTS ChainIntact SealIsOfThePast TamperEvident BundleIsHistory
SYMMETRY MCSymmetry
CHECK_DEADLOCK FALSE
