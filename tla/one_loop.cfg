\* One run, one caller, two keys: every operation against the loop.
SPECIFICATION Spec
CONSTANTS
    d1 = d1  d1b = d1b  d2 = d2
    k1 = k1  k2 = k2
    simple = simple  once = once
    Clients = {c1}
    Details = {d1, d2}
    JobKeys = {k1, k2}
    KeyOf <- MCKeyOf
    Replace = {d1}
    Triggers = {simple, once}
    Once = {once}
    Period <- MCPeriod
    MaxStarts = 1
    MaxTime = 3
    MaxInt64 = 9
    Modes = {"goroutines"}
    WorkerLimit = 1
    OutdatedThreshold = 0
    MisfiredCap = 0
    NoEntry = NoEntry
    NoOwner = NoOwner
INVARIANTS
    TypeOK
    OneJobPerKey
    FireTimesIncrease
    NeverEarly
    NoMissedWakeup
    ParkedIffSuspended
PROPERTIES
    JobsLeaveOnlyOnRequest
CHECK_DEADLOCK FALSE
