\* Two processes and their workers on a directory, with one locker or two.
SPECIFICATION Spec
CONSTANTS
    p = p  q = q  i = i  a = a  b = b  w1 = w1  w2 = w2  v = v
    Processes = {p, q}
    Workers = {w1, w2, v}
    Host <- MCHost
    Lockers <- MCLockers
    Jobs = {a, b}
    KeyOf <- MCKeyOf
    Objects <- MCObjects
    Isolated <- MCGuarded
    Curl <- MCGuarded
    MaxRetries = 1
    Nobody = Nobody
    Lost = Lost
    NoJob = NoJob
    Period = 1
    OutdatedThreshold = 0
    RetryInterval = 1
    InitialFiles <- MCInitialFiles
    MaxTime = 2
    MaxEvents = 1
INVARIANTS
    ClusterTypeOK
    MutualExclusion
    FlagMeansInside
    MutexMeansWork
    OwnResult
    SomeoneWillLook
PROPERTIES
    DoubledOnlySo
    RunTimesIncrease
    LostOnlySo
SYMMETRY MCSymmetry
VIEW MCView
CONSTRAINT MCBound
CHECK_DEADLOCK FALSE
