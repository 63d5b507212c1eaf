SPECIFICATION Spec
CONSTANTS
    a = a
    b = b
    t1 = t1
    t2 = t2
    Server = {a, b}
    Table = {t1, t2}
    Job = {1, 2}
    Setups <- OnceSetups
    MaxDeltaSchemaCount = 2
INVARIANTS TwoVersions
