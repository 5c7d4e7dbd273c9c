CONSTANTS
    p1 = p1
    t1 = t1
    None = None
    ApiSession = ApiSession
    Page = {p1}
    Tool = {t1}
    MaxConnections = 2
    MaxRequests = 2
    AuthTypes = {"none", "token"}
    Provided = {TRUE, FALSE}
    MaxMessages = 2
    MaxIterations = 2
    MaxInFlight = 2
SPECIFICATION Spec
INVARIANTS TypeOK NoLeakedSubscription
PROPERTIES AnswersStay BusyEnds
CHECK_DEADLOCK FALSE
