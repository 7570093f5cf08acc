SPECIFICATION Spec
CONSTANTS
  Pass = {p, q}
  MAXPASS = 2
  Nums <- MCMore
  Colors <- MCColors
INVARIANT
  StoresAtMostMax
