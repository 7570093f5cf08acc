SPECIFICATION FairSpec
CONSTANTS
  CDC_TXRX_EPSIZE = 2
  USB_STREAM_TIMEOUT_MS = 1
  MaxChars = 4
  MaxResets = 2
INVARIANTS NoCharacterLost StrayPerReset
PROPERTIES CallsReturn AnswersDelivered
CHECK_DEADLOCK FALSE
