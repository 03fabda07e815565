\* Any lateness, ties, and events without a time.
CONSTANTS
    Key = {k1, k2}
    Val = {v1}
    Malformed = {}
    NoTime = NoTime
    NoRow = NoRow
    Run = {dag, manual}
    DagRun = dag
    Lookback = 1
    MaxDelay = 2
    MaxSkew = 0
    AllowUntimed = TRUE
    MaxTime = 2
    MaxEvents = 3
SYMMETRY Symmetry
SPECIFICATION Spec
INVARIANTS TypeOK
PROPERTIES NeverRegresses
