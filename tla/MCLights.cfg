SPECIFICATION Spec
CONSTANTS
  Balances <- MCBalances
  Levels <- MCLevels
  Colors <- MCColors
INVARIANTS
  TypeOK
  ChipsShowTheState
  BalanceSurvives
