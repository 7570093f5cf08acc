SPECIFICATION FairSpec
CONSTANTS
  Requests <- MCRequests
  USB_Device_ControlEndpointSize = 2
INVARIANTS AddressHeld DescriptorWhole StallsTheUnsupported BaudOfThisSession
PROPERTIES HandlersEnd TransfersEnd
