SPECIFICATION LiveSpec
CONSTANTS
    o1 = o1
    o2 = o2
    e1 = e1
    e2 = e2
    worker = worker
    Event = {e1, e2}
    Occurrence = {o1, o2}
    About <- Distinct
    Flusher = {worker}
    Worker = worker
    Limit = 2
    NoEvent = NoEvent
    Poison = {e1}
    MaxCrashes = 1
INVARIANTS
    TypeOK
    NotifiedWasHeard
PROPERTIES
    ImplementsFeed
    QueuedIsDelivered
