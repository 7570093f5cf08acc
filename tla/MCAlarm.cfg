SPECIFICATION FairSpec
INVARIANTS
  AlarmTypeOK
  AlarmNotForgotten
PROPERTIES
  LineReleased
  ComesToRest
