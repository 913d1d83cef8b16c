SPECIFICATION Spec
CONSTANTS
    Clients = {c1, c2}
    Executor = Executor
    MaxRequests = 4
INVARIANTS MaterialKept ExportsTrue SerialLabelsTrue
PROPERTIES HistoryKept
CHECK_DEADLOCK FALSE
