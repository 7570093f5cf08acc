SPECIFICATION FairSpec
CONSTANTS
  Byte <- MCByte
  TWI_BUFFER_LENGTH = 2
  MaxLength = 3
INVARIANTS
  TypeOK
  WireCarriesTheCall
  NoByteTooMany
  WaitedWriteAnswer
  ReadAnswer
PROPERTIES
  EveryCallReturns
  ImplementsPort
