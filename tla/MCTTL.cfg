SPECIFICATION Spec
CONSTANTS
    s1 = s1  s2 = s2  w1 = w1  w2 = w2  d1 = d1  d2 = d2
    None = None
    Server = {s1, s2}
    JobID = {1, 2, 3}
    Scanner = {w1, w2}
    Deleter = {d1, d2}
    Expire = 2
    RunInterval = 1
    JobTimeout = 3
    MaxLag = 1
    DelBatchSize = 1
    DelMaxRetry = 1
    DelBufferSize = 1
    ErrorRateCnt = 1
    Setups <- MCSetups
CHECK_DEADLOCK FALSE
INVARIANTS TypeOK Accounted FinishedWhole OneOwner
PROPERTIES NotTakenAway AlwaysServed
