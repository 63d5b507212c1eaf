SPECIFICATION Spec
CONSTANTS
    a = a
    b = b
    t1 = t1
    t2 = t2
    p = p
    q = q
    x = x
    y = y
    None = None
    Server = {a, b}
    Store = {p, q}
    Txn = {t1, t2}
    Backup = {x, y}
    Logical = 2
    LifeTime = 2
    RunInterval = 1
    WorkerLease = 2
    WaitTime = 1
    CacheInterval = 1
    RedoDelay = 1
    MaxWait = 4
    ReportInterval = 1
    Setups <- AllSetups
INVARIANTS TypeOK TxnKept NoSilentRead BackupKept RecoverSafe RangeGone GCRestored
PROPERTIES NeverDecreases
CHECK_DEADLOCK FALSE
