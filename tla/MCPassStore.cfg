SPECIFICATION Spec
CONSTANTS
  Pass = {p, q}
  MAXPASS = 2
  Nums <- MCNums
  Colors <- MCColors
INVARIANTS
  TypeOK
  CountCoversWritten
  DumpIsLastSet
  DumpShowsColor
