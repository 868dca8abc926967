SPECIFICATION AllSpec
CONSTANTS
    Conns = {c1}
    Producers = {p1, p2}
    Handlers = {h1, h2}
    MaxChanges = 3
    NoList = NoList
    Cap = 1
    MaxLogs = 3
    MaxTotal = 3
INVARIANTS
    NoWakeupLost
    NoSendOnClosed
    LogsInOrder
PROPERTIES
    LeaversLeave
    TrafficSettles
\* every client may have left and every change been made
CHECK_DEADLOCK FALSE
