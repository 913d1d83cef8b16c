SPECIFICATION Spec
CONSTANTS
    Clients = {c1, c2}
    Scheduler = Scheduler
    MaxRequests = 4
INVARIANTS ArchivedIsTrue WriterArchives SerialVersionsDistinct
CHECK_DEADLOCK FALSE
