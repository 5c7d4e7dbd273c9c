CONSTANTS
    a = a
    b = b
    c = c
    d = d
    x = x
    stop = stop
    s1 = s1
    s2 = s2
    None = None
    Message = {a, b, c, d, stop}
    Session = {s1}
    SessionOf <- MCSessionOf
    IdOf <- MCIdOf
    TextOf <- MCTextOf
    MAX_QUEUE_SIZE = 2
    StopCommand = {stop}
    Served = {a}
    OnChannel = {}
    MAX_TOOL_ITERATIONS = 1
    MaxCalls = 1
    maxHistoryPerSession = 2
SPECIFICATION SafeSpec
INVARIANTS TypeOK BusyIffRunning NoStrandedMessage EveryMessageAccounted
PROPERTY ImplementsMailboxSafely
CHECK_DEADLOCK FALSE
