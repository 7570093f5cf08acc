SPECIFICATION FairSpec
CONSTANTS
  Messages <- MCMessages
  CDC_TXRX_EPSIZE = 6
  MaxSent = 2
INVARIANTS InStep WedgeNeedsASplit
PROPERTIES WedgedForGood Served
