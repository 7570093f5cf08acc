SPECIFICATION Spec
CONSTANTS
  Clocks <- MCClocks
  Requests <- MCRequests
  MaxTicks = 3
  MaxFaults = 1
INVARIANTS
  TypeOK
  SayTimeHonest
  SetClockWorks
