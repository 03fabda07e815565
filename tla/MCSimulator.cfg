\* The shipped templates, and some that count fields; every way a post can fail.
CONSTANTS
    Present <- MCPresent
    Template <- MCTemplate
    Sorted <- MCSorted
    Arguments <- MCArguments
    Count = 6
SPECIFICATION Spec
INVARIANTS TypeOK FallsBackOnlyUncounted ReferencesWerePosted KeysNeverRepeat
PROPERTIES CountEndsSession
