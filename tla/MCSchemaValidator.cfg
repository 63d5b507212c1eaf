SPECIFICATION Spec
CONSTANTS
  t1 = t1
  t2 = t2
  x = x
  y = y
  Table = {t1, t2}
  Action = {x, y}
  MaxVersion = 5
  MaxDeltaSchemaCount = 3
SYMMETRY Symmetric
INVARIANTS
  TypeOK
  StaleNeverPasses
  NoSpuriousAbort
