\* Two items, one of which may fail for ever, one row per claim, three requests
\* for each.  The queue may come to rest when every request has been answered.
CONSTANTS
    a = a
    b = b
    Items = {a, b}
    Answered = {b}
    Limit = 1
    MaxRequests = 3
    MaxStops = 1
SPECIFICATION FairEnrichSpec
INVARIANT NothingForgotten
PROPERTY RequestsAreLookedInto
CHECK_DEADLOCK FALSE
