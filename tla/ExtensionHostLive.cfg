CONSTANTS
    n1 = n1
    n2 = n2
    e1 = e1
    e2 = e2
    e3 = e3
    i = i
    j = j
    None = None
    Dir = {n1}
    Ext = {e1}
    NameOf <- MCNameOf
    MaxForks = 2
    CallId = {i}
    HasDeps = {}
    Volatile = {}
SPECIFICATION Spec
PROPERTIES CrashFailsCalls EveryCallSettles EveryStartSettles
CHECK_DEADLOCK FALSE
