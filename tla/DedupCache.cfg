SPECIFICATION Spec
CONSTANTS
    Uuids <- MCUuids
    Hash <- MCHash
    Cap = 3
    MaxAge = 1
    Word = 64
    MaxNow = 3
    ClockStepsBack = TRUE
INVARIANTS TypeOK NeverInvented FoundUntilEviction
PROPERTIES InsertRemembers InsertKeepsFresh RecentStays
