\* Timely events, one of them perhaps malformed, under the daily schedule.
CONSTANTS
    Key = {k1, k2}
    Val = {v1, bad}
    Malformed = {bad}
    NoTime = NoTime
    NoRow = NoRow
    Run = {dag, manual}
    DagRun = dag
    Lookback = 2
    MaxDelay = 1
    MaxSkew = 1
    AllowUntimed = FALSE
    MaxTime = 3
    MaxEvents = 2
SPECIFICATION FairSpec
INVARIANTS NoneStranded
PROPERTIES ImplementsSCD1 LandedIsReflected
