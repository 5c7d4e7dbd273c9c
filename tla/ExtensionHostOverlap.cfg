CONSTANTS
    n1 = n1
    n2 = n2
    e1 = e1
    e2 = e2
    e3 = e3
    i = i
    j = j
    None = None
    Dir = {n1, n2}
    Ext = {e1, e2}
    NameOf <- MCNameOf
    MaxForks = 2
    CallId = {i}
    HasDeps = {n2}
    Volatile = {}
SPECIFICATION SafeSpec
INVARIANT OneAtATime
CHECK_DEADLOCK FALSE
