SPECIFICATION Spec
CONSTANTS
    a = a
    b = b
    t1 = t1
    t2 = t2
    Server = {a, b}
    Table = {t1}
    Job = {1}
    Setups <- MDLSetups
    MaxDeltaSchemaCount = 0
INVARIANTS TwoVersions IndexConsistent DomainConsistent
