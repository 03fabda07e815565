\* As deployed: Firehose may hold an event longer (60 s) than the look-back (15 s).
CONSTANTS
    Key = {k1, k2}
    Val = {v1}
    Malformed = {}
    NoTime = NoTime
    NoRow = NoRow
    Run = {dag, manual}
    DagRun = dag
    Lookback = 1
    MaxDelay = 4
    MaxSkew = 0
    AllowUntimed = FALSE
    MaxTime = 4
    MaxEvents = 2
SPECIFICATION Spec
INVARIANTS NoneStranded
