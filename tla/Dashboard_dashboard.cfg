SPECIFICATION LiveSpec
CONSTANTS
    Stream = {tab1}
    QueueLimit = 2
    MaxTicks = 4
    Poll = {req1, req2}
    Collector = {celery}
    Keep = 1
    MaxRows = 4
CHECK_DEADLOCK FALSE
INVARIANTS TypeOK FeedInOrder HistoryBounded ThrottleHolds
PROPERTIES NewestKept TicksGoOn GoneIsForgotten
