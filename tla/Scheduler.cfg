CONSTANTS
    daily = daily
    wake = wake
    bad = bad
    Corrupt = Corrupt
    None = None
    Job = {daily, wake, bad}
    OneShot = {wake}
    Invalid = {bad}
    DueAt <- MCDueAt
    MaxTime = 2
    MaxCrashes = 1
SPECIFICATION Spec
INVARIANTS TypeOK TimersFollowJobs MemoryIsOnDisk OneShotOnce
PROPERTIES MomentServedOnce SilencedStaysSilent ArmedMomentIsServed
CHECK_DEADLOCK FALSE
