SPECIFICATION FairSpec
CONSTANTS
    plain = plain
    related = related
    Writers = {w1}
    Readers = {q1, q2}
    Filters <- MCFilters
    Related <- MCRelated
    Unlisted = Unlisted
    MaxWrites = 1
    MaxChanges = 1
INVARIANTS
    ReturnedWritesSeen
    QuietCachesAreExact
PROPERTIES
    QueryReturns
CHECK_DEADLOCK FALSE
