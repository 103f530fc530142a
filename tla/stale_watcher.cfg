\* The watcher of a stopped run stops the next one.
SPECIFICATION Spec
CONSTANTS
    d1 = d1  d1b = d1b  d2 = d2
    k1 = k1  k2 = k2
    simple = simple  once = once
    Clients = {c1}
    Details = {d1}
    JobKeys = {k1}
    KeyOf <- MCKeyOf
    Replace = {d1}
    Triggers = {simple}
    Once = {}
    Period <- MCPeriod
    MaxStarts = 2
    MaxTime = 3
    MaxInt64 = 9
    Modes = {"goroutines"}
    WorkerLimit = 1
    OutdatedThreshold = 0
    MisfiredCap = 0
    NoEntry = NoEntry
    NoOwner = NoOwner
PROPERTIES
    RunsUntilStopped
CHECK_DEADLOCK FALSE
