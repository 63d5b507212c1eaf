SPECIFICATION FairSpec
CONSTANTS
    a = a
    b = b
    t1 = t1
    t2 = t2
    Server = {a, b}
    Table = {t1}
    Job = {1}
    Setups <- LiveSetups
    MaxDeltaSchemaCount = 0
PROPERTY JobsFinish
