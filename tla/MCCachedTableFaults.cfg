SPECIFICATION Spec
CONSTANTS
  a = a
  b = b
  Node = {a, b}
  Reader = {a, b}
  Writer = {a, b}
  Crashing = {}
  ReadLease = 3
  WriteLease = 3
  Logical = 1
  MaxSkew = 1
  MaxStall = 6
  Faulty = {"lockRead", "renewRead", "lockWrite", "renewWrite", "load"}
  MaxAge = 2
  MaxLoader = 1
  MaxTSO = 6
SYMMETRY Symmetric
CHECK_DEADLOCK FALSE
INVARIANTS
  TypeOK
  WriteExcludesRead
PROPERTIES
  LeaseNeverDecreases
  IntendStopsReaders
