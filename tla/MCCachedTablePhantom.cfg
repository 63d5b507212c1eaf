SPECIFICATION Spec
CONSTANTS
  a = a
  b = b
  Node = {a, b}
  Reader = {b}
  Writer = {a}
  Crashing = {}
  ReadLease = 4
  WriteLease = 4
  Logical = 1
  MaxSkew = 0
  MaxStall = 0
  Faulty = {"renewWrite"}
  MaxAge = 1
  MaxLoader = 1
  MaxTSO = 9
CHECK_DEADLOCK FALSE
INVARIANTS
  CacheCoherent
