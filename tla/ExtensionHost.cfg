CONSTANTS
    n1 = n1
    n2 = n2
    e1 = e1
    e2 = e2
    e3 = e3
    i = i
    j = j
    None = None
    Dir = {n1, n2}
    Ext = {e1, e2, e3}
    NameOf <- MCNameOf
    MaxForks = 2
    CallId = {}
    HasDeps = {n2}
    Volatile = {n1}
SPECIFICATION SafeSpec
CONSTRAINTS BeforeShutdown OnePlot
INVARIANTS TypeOK OneAtATimeButForOverlaps NoLostChild RunningIsCallable
CHECK_DEADLOCK FALSE
