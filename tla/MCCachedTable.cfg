SPECIFICATION Spec
CONSTANTS
  a = a
  b = b
  Node = {a, b}
  Reader = {a, b}
  Writer = {a, b}
  Crashing = {a, b}
  ReadLease = 5
  WriteLease = 2
  Logical = 1
  MaxSkew = 1
  MaxStall = 0
  Faulty = {"lockRead", "renewRead", "lockWrite", "load"}
  MaxAge = 1
  MaxLoader = 1
  MaxTSO = 7
SYMMETRY Symmetric
CHECK_DEADLOCK FALSE
INVARIANTS
  CacheCoherent
  WriteLeaseBacked
  LocalWriteBacked
