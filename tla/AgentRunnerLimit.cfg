CONSTANTS
    a = a
    b = b
    c = c
    d = d
    x = x
    stop = stop
    s1 = s1
    s2 = s2
    None = None
    Message = {a, b, stop}
    Session = {s1}
    SessionOf <- MCSessionOf
    IdOf <- MCIdOf
    TextOf <- MCTextOf
    MAX_QUEUE_SIZE = 1
    StopCommand = {stop}
    Served = {a, b}
    OnChannel = {b}
    MAX_TOOL_ITERATIONS = 2
    MaxCalls = 2
    maxHistoryPerSession = 4
SPECIFICATION SafeSpec
INVARIANT AtMostOneResponse
CHECK_DEADLOCK FALSE
