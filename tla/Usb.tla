-------------------------------- MODULE Usb ---------------------------------
(***************************************************************************)
(* The device side of LUFA as this firmware builds it: the state of the    *)
(* device, which the USB_GEN interrupt and the control requests both       *)
(* write, and the control endpoint, with a handler per request that the    *)
(* main loop runs to its end (DeviceStandardReq.c, CDCClassDevice.c,       *)
(* USBInterrupt_AVR8.c, Endpoint_AVR8.c, the events of ISS-Notify.c).      *)
(*                                                                         *)
(* The host may give up a transfer for a new one, reset or suspend the     *)
(* bus, or be unplugged, between any two steps of a handler.               *)
(***************************************************************************)
EXTENDS Integers, Sequences, FiniteSetsExt

CONSTANTS
  Requests,                       \* what a host may ask: [r, v, wLength]
  USB_Device_ControlEndpointSize

ASSUME SizeAssumption == USB_Device_ControlEndpointSize \in Nat \ {0}
ASSUME RequestsAssumption ==
  \A q \in Requests : q.v \in Nat /\ (q.r = "GetDescriptor" => q.wLength \in Nat \ {0})

VARIABLES
  USB_DeviceState, USB_Device_ConfigurationNumber,
  USB_Device_RemoteWakeupEnabled, BaudRateBPS,
  ints,                           \* the interrupts are enabled
  pc, USB_ControlRequest, Length, LastPacketFull,   \* the running handler; None,
                                  \* 0 and FALSE when there is none
  EndpointNum,                    \* the endpoint that it configures, or 0
  VBUSTI, SUSPI, WAKEUPI, EORSTI, \* the interrupt flags
  SUSPE,                          \* SUSPI is enabled, or else WAKEUPI is
  UADD, ADDEN,                    \* the address register
  UENUM,                          \* the selected endpoint: "control" or "data"
  eps,                            \* a data endpoint is configured,
  ep0set,                         \* and so is the control endpoint
  RXSTPI,                         \* the control endpoint: a SETUP packet (hreq),
  RXOUTI,                         \* an OUT packet,
  TXINI, in,                      \* the IN bank (free, or in flight),
  STALLRQ,
  hbus,                           \* "off", "attached", "active", "suspended"
  haddr, hstage, hreq, got, early,  \* the host: its address for the device
                                  \* and its transfer
  left,     \* history: the host has left its last request, or the one that is
            \* being handled, or the bank holds a packet for one that it left,
  overran,  \* hreq came before the handler of another request had returned,
  cutAddr,  \* a SetAddress was handled to its end after the host left it
  hbaud     \* the rate that the host set since the device was configured

driver  == <<USB_DeviceState, USB_Device_ConfigurationNumber,
             USB_Device_RemoteWakeupEnabled, BaudRateBPS, ints>>
handler == <<pc, USB_ControlRequest, Length, LastPacketFull>>
endpoints == <<EndpointNum, UENUM, eps, ep0set>>
flags   == <<VBUSTI, SUSPI, WAKEUPI, EORSTI, SUSPE>>
address == <<UADD, ADDEN>>
ep0     == <<RXSTPI, RXOUTI, TXINI, in, STALLRQ>>
host    == <<hbus, haddr, hstage, hreq, got, early>>
history == <<left, overran, cutAddr, hbaud>>
vars    == <<driver, handler, endpoints, flags, address, ep0, host, history>>

None == [r |-> "None", v |-> 0, wLength |-> 0]

(* A descriptor is the sequence of its bytes, numbered. *)
Descriptor(size) == [i \in 1..size |-> i]

Stages(q) ==   \* the host's first stage after SETUP
  CASE q.r \in {"GetStatus", "GetConfiguration", "GetLineEncoding", "GetDescriptor"} -> "dataIn"
    [] q.r = "SetLineEncoding" -> "dataOut"
    [] OTHER -> "statusIn"

(* USB_Init_Device *)
Init ==
  /\ USB_DeviceState = "Unattached" /\ USB_Device_ConfigurationNumber = 0
  /\ USB_Device_RemoteWakeupEnabled = FALSE /\ BaudRateBPS = 0
  /\ ints = TRUE /\ UENUM = "control" /\ eps = FALSE /\ ep0set = TRUE
  /\ pc = "loop" /\ USB_ControlRequest = None /\ Length = 0 /\ LastPacketFull = FALSE
  /\ EndpointNum = 0
  /\ VBUSTI = FALSE /\ SUSPI = FALSE /\ WAKEUPI = FALSE /\ EORSTI = FALSE /\ SUSPE = TRUE
  /\ UADD = 0 /\ ADDEN = FALSE
  /\ RXSTPI = FALSE /\ RXOUTI = FALSE
  /\ TXINI = TRUE /\ in = <<>> /\ STALLRQ = FALSE
  /\ hbus = "off" /\ haddr = 0 /\ hstage = "none" /\ hreq = None /\ got = <<>>
  /\ early = FALSE /\ left = FALSE /\ overran = FALSE /\ cutAddr = FALSE /\ hbaud = 0

-----------------------------------------------------------------------------
(* USB_DeviceTask and USB_Device_ProcessControlRequest.  A handler that    *)
(* takes the request clears RXSTPI; when one has ended with the control    *)
(* endpoint selected, a SETUP packet that is there is stalled.             *)

(* FIXED_NUM_CONFIGURATIONS is 1; a descriptor of size 0 is NO_DESCRIPTOR. *)
Supported(q) ==
  CASE q.r = "SetConfiguration" -> q.v <= 1
    [] q.r = "GetDescriptor"    -> q.v # 0
    [] OTHER                    -> q.r # "Other"

Accept(which) ==
  /\ pc = "loop" /\ USB_DeviceState # "Unattached" /\ RXSTPI /\ hreq.r \in which
  /\ USB_ControlRequest' = IF Supported(hreq) THEN hreq ELSE None
  /\ RXSTPI' = FALSE
  /\ left' = (hstage = "none" \/ ~TXINI)

NoData == {"SetAddress", "SetConfiguration", "SetFeature", "ClearFeature",
           "SetControlLineState", "SendBreak"}

Refuse ==
  /\ ~Supported(hreq)
  /\ Accept({hreq.r})
  /\ STALLRQ' = TRUE
  /\ UNCHANGED <<driver, endpoints, pc, Length, LastPacketFull, flags, address, RXOUTI,
                 TXINI, in, host, overran, cutAddr, hbaud>>

(* USB_Device_GetStatus, USB_Device_GetConfiguration: one packet, and the  *)
(* status stage.  The bank is not waited for; what is written into one     *)
(* that is still in flight may go with it or be lost.                      *)
ShortAnswer ==
  /\ Accept({"GetStatus", "GetConfiguration"})
  /\ LET answer == IF hreq.r = "GetConfiguration" THEN USB_Device_ConfigurationNumber
                   ELSE IF USB_Device_RemoteWakeupEnabled THEN 2 ELSE 0
     IN  in' \in {<<answer>>} \cup (IF TXINI THEN {} ELSE {in})
  /\ TXINI' = FALSE
  /\ pc' = "statusOut"
  /\ UNCHANGED <<driver, endpoints, Length, LastPacketFull, flags, address, RXOUTI,
                 STALLRQ, host, overran, cutAddr, hbaud>>

GetLineEncoding ==
  /\ Accept({"GetLineEncoding"})
  /\ pc' = "dataIn"
  /\ UNCHANGED <<driver, endpoints, Length, LastPacketFull, flags, address, RXOUTI,
                 TXINI, in, STALLRQ, host, overran, cutAddr, hbaud>>

(* A wait without an exit, for the bank. *)
LineEncodingSent ==
  /\ pc = "dataIn" /\ TXINI
  /\ in' = <<BaudRateBPS>> /\ TXINI' = FALSE
  /\ pc' = "statusOut"
  /\ UNCHANGED <<driver, endpoints, USB_ControlRequest, Length, LastPacketFull, flags,
                 address, RXSTPI, RXOUTI, STALLRQ, host, history>>

(* The requests without data: some act before the status stage. *)
NoDataRequest ==
  /\ Supported(hreq)
  /\ Accept(NoData)
  /\ USB_Device_ConfigurationNumber' =
       IF hreq.r = "SetConfiguration" THEN hreq.v ELSE USB_Device_ConfigurationNumber
  /\ USB_Device_RemoteWakeupEnabled' =
       IF hreq.r \in {"SetFeature", "ClearFeature"} THEN hreq.r = "SetFeature"
       ELSE USB_Device_RemoteWakeupEnabled
  /\ ints' = (hreq.r # "SetAddress")
  /\ pc' = "statusIn"
  /\ UNCHANGED <<USB_DeviceState, BaudRateBPS, endpoints, Length, LastPacketFull, flags, address, RXOUTI, TXINI, in, STALLRQ, host, overran, cutAddr, hbaud>>

SetLineEncoding ==
  /\ Accept({"SetLineEncoding"})
  /\ pc' = "dataOut"
  /\ UNCHANGED <<driver, endpoints, Length, LastPacketFull, flags, address, RXOUTI, TXINI, in,
                 STALLRQ, host, overran, cutAddr, hbaud>>

(* A wait without an exit, for the data. *)
LineEncodingReceived ==
  /\ pc = "dataOut" /\ RXOUTI
  /\ BaudRateBPS' = USB_ControlRequest.v
  /\ RXOUTI' = FALSE
  /\ pc' = "statusIn"
  /\ UNCHANGED <<USB_DeviceState, USB_Device_ConfigurationNumber,
                 USB_Device_RemoteWakeupEnabled, ints, endpoints, USB_ControlRequest, Length,
                 LastPacketFull, flags, address, RXSTPI, TXINI, in, STALLRQ, host,
                 history>>

(* Mutant: the address is taken before the status stage. *)
StatusInTakesAddress ==
  /\ pc = "statusIn" /\ (TXINI \/ USB_DeviceState = "Unattached")
  /\ TXINI' = FALSE
  /\ pc' = IF USB_ControlRequest.r = "SetAddress" THEN "setAddr" ELSE "apply"
  /\ IF USB_ControlRequest.r = "SetAddress"
     THEN UADD' = USB_ControlRequest.v /\ ADDEN' = TRUE
     ELSE UNCHANGED address
  /\ UNCHANGED <<driver, endpoints, USB_ControlRequest, Length, LastPacketFull, flags, RXSTPI, RXOUTI, in, STALLRQ, host, history>>

(* Endpoint_ClearStatusStage towards the host: the empty packet. *)
StatusIn ==
  /\ pc = "statusIn" /\ (TXINI \/ USB_DeviceState = "Unattached")
  /\ TXINI' = FALSE
  /\ pc' = IF USB_ControlRequest.r = "SetAddress" THEN "setAddr" ELSE "apply"
  /\ UNCHANGED <<driver, endpoints, USB_ControlRequest, Length, LastPacketFull, flags, address, RXSTPI, RXOUTI, in, STALLRQ, host, history>>

(* What is done after it: SetAddress waits, with the interrupts off, until *)
(* the host has the packet.                                                *)
SetAddress ==
  /\ pc = "setAddr" /\ TXINI
  /\ UADD' = USB_ControlRequest.v /\ ADDEN' = TRUE
  /\ USB_DeviceState' = IF USB_ControlRequest.v # 0 THEN "Addressed" ELSE "Default"
  /\ ints' = TRUE
  /\ pc' = "end"
  /\ cutAddr' = left
  /\ UNCHANGED <<USB_Device_ConfigurationNumber, USB_Device_RemoteWakeupEnabled, BaudRateBPS,
                 endpoints, USB_ControlRequest, Length, LastPacketFull, flags, ep0, host, left,
                 overran, hbaud>>

(* The state of a device whose configuration number is n. *)
StateFor(n) == IF n # 0 \/ ADDEN THEN "Configured" ELSE "Powered"

DataEndpoints == 2..4   \* CDC_NOTIFICATION_EPNUM, CDC_TX_EPNUM, CDC_RX_EPNUM

(* Mutant: the line encoding of the last session stays. *)
ApplyKeepsEncoding ==
  /\ pc = "apply"
  /\ IF USB_ControlRequest.r = "SetConfiguration"
     THEN /\ USB_DeviceState' = StateFor(USB_Device_ConfigurationNumber)
          /\ hbaud' = 0
          /\ EndpointNum' = Min(DataEndpoints) /\ pc' = "select"
     ELSE pc' = "end" /\ UNCHANGED <<USB_DeviceState, hbaud, EndpointNum>>
  /\ UNCHANGED <<USB_Device_ConfigurationNumber, USB_Device_RemoteWakeupEnabled, BaudRateBPS, ints,
                 UENUM, eps, ep0set, USB_ControlRequest, Length, LastPacketFull, flags, address, ep0, host,
                 left, overran, cutAddr>>

(* SetConfiguration goes on to EVENT_USB_Device_ConfigurationChanged and   *)
(* CDC_Device_ConfigureEndpoints, which forgets the line encoding          *)
Apply ==
  /\ pc = "apply"
  /\ IF USB_ControlRequest.r = "SetConfiguration"
     THEN /\ USB_DeviceState' = StateFor(USB_Device_ConfigurationNumber)
          /\ BaudRateBPS' = 0 /\ hbaud' = 0
          /\ EndpointNum' = Min(DataEndpoints) /\ pc' = "select"
     ELSE pc' = "end" /\ UNCHANGED <<USB_DeviceState, BaudRateBPS, hbaud, EndpointNum>>
  /\ UNCHANGED <<USB_Device_ConfigurationNumber, USB_Device_RemoteWakeupEnabled, ints, UENUM, eps,
                 ep0set, USB_ControlRequest, Length, LastPacketFull, flags, address, ep0, host,
                 left, overran, cutAddr>>

(* and configures the data endpoints: each is selected,                    *)
SelectEndpoint ==
  /\ pc = "select"
  /\ UENUM' = "data"
  /\ pc' = "configure"
  /\ UNCHANGED <<driver, EndpointNum, eps, ep0set, USB_ControlRequest, Length, LastPacketFull, flags,
                 address, ep0, host, history>>

(* A configured endpoint is empty. *)
EndpointFresh ==
  /\ RXSTPI' = FALSE /\ RXOUTI' = FALSE /\ TXINI' = TRUE /\ in' = <<>>
  /\ STALLRQ' = FALSE

(* and its registers are written.  When the interrupt of a reset has       *)
(* selected the control endpoint in between, all or the last of these      *)
(* writes go there: it may not be a control endpoint any more, and may     *)
(* answer that it is not configured, which ends the loop.                  *)
ConfigureEndpoint ==
  /\ pc = "configure"
  /\ \/ UENUM = "data" /\ eps' = TRUE /\ UNCHANGED <<ep0set, ep0>>
     \/ UENUM = "control" /\ ep0set' = FALSE /\ EndpointFresh /\ UNCHANGED eps
     \/ UENUM = "control" /\ UNCHANGED <<eps, ep0set, ep0>>
  /\ \/ EndpointNum # Max(DataEndpoints) /\ EndpointNum' = EndpointNum + 1 /\ pc' = "select"
     \/ /\ EndpointNum = Max(DataEndpoints) \/ UENUM = "control"
        /\ pc' = "end" /\ UNCHANGED EndpointNum
  /\ UNCHANGED <<driver, UENUM, USB_ControlRequest, Length, LastPacketFull, flags, address, host,
                 history>>

(* Endpoint_ClearStatusStage from the host. *)
StatusOut ==
  /\ pc = "statusOut" /\ (RXOUTI \/ USB_DeviceState = "Unattached")
  /\ RXOUTI' = FALSE
  /\ pc' = "end"
  /\ UNCHANGED <<driver, endpoints, USB_ControlRequest, Length, LastPacketFull, flags, address, RXSTPI, TXINI, in, STALLRQ, host, history>>

(* USB_Device_GetDescriptor with Endpoint_Write_Control_PStream_LE: the    *)
(* bytes still to write, and an empty packet after a full last one.        *)
GetDescriptor ==
  /\ Supported(hreq)
  /\ Accept({"GetDescriptor"})
  /\ Length' = Min({hreq.v, hreq.wLength}) /\ LastPacketFull' = FALSE
  /\ pc' = "stream"
  /\ UNCHANGED <<driver, endpoints, flags, address, RXOUTI, TXINI, in, STALLRQ, host,
                 overran, cutAddr, hbaud>>

Gone == USB_DeviceState \in {"Unattached", "Suspended"}

PacketLength == Min({Length, USB_Device_ControlEndpointSize})

(* Mutant: the pointer into the descriptor does not move. *)
DataStreamStays == SubSeq(Descriptor(USB_ControlRequest.v), 1, PacketLength)

(* The next bytes of the descriptor. *)
DataStream ==
  LET first == Min({USB_ControlRequest.v, USB_ControlRequest.wLength}) - Length
  IN  SubSeq(Descriptor(USB_ControlRequest.v), first + 1, first + PacketLength)

(* Mutant: no empty packet follows a full last one. *)
StreamNoEmptyPacket ==
  /\ pc = "stream" /\ Length # 0
  /\ ~Gone /\ ~RXSTPI /\ ~RXOUTI /\ TXINI
  /\ in' = DataStream /\ TXINI' = FALSE
  /\ Length' = Length - PacketLength
  /\ LastPacketFull' = FALSE
  /\ UNCHANGED <<driver, endpoints, pc, USB_ControlRequest, flags, address, RXSTPI, RXOUTI,
                 STALLRQ, host, history>>

Stream ==
  /\ pc = "stream" /\ (Length # 0 \/ LastPacketFull)
  /\ ~Gone /\ ~RXSTPI /\ ~RXOUTI /\ TXINI
  /\ in' = DataStream /\ TXINI' = FALSE
  /\ Length' = Length - PacketLength
  /\ LastPacketFull' = (PacketLength = USB_Device_ControlEndpointSize)
  /\ UNCHANGED <<driver, endpoints, pc, USB_ControlRequest, flags, address, RXSTPI, RXOUTI,
                 STALLRQ, host, history>>

(* Mutant: a new request does not end the stream. *)
StreamEndsNoAbort ==
  /\ pc = "stream"
  /\ LET more == Length # 0 \/ LastPacketFull IN
       \/ /\ more /\ Gone
          /\ pc' = "end" /\ RXOUTI' = FALSE
       \/ /\ more => ~Gone /\ ~RXSTPI /\ RXOUTI
          /\ pc' = "lastOut" /\ UNCHANGED RXOUTI
  /\ UNCHANGED <<driver, endpoints, USB_ControlRequest, Length, LastPacketFull, flags, address, RXSTPI, TXINI, in, STALLRQ, host, history>>

(* Out of the loop: all is written, or the host has begun the status       *)
(* stage; or out of the function, when the bus or the transfer is gone.    *)
StreamEnds ==
  /\ pc = "stream"
  /\ LET more == Length # 0 \/ LastPacketFull IN
       \/ /\ more /\ (Gone \/ RXSTPI)
          /\ pc' = "end" /\ RXOUTI' = FALSE
       \/ /\ more => ~Gone /\ ~RXSTPI /\ RXOUTI
          /\ pc' = "lastOut" /\ UNCHANGED RXOUTI
  /\ UNCHANGED <<driver, endpoints, USB_ControlRequest, Length, LastPacketFull, flags, address, RXSTPI, TXINI, in, STALLRQ, host, history>>

LastOut ==
  /\ pc = "lastOut" /\ (RXOUTI \/ Gone)
  /\ RXOUTI' = FALSE
  /\ pc' = "end"
  /\ UNCHANGED <<driver, endpoints, USB_ControlRequest, Length, LastPacketFull, flags, address, RXSTPI, TXINI, in, STALLRQ, host, history>>

(* Mutant: the end of a handler stalls the endpoint whatever is in it. *)
EndStalls ==
  /\ pc = "end"
  /\ STALLRQ' = TRUE /\ RXSTPI' = FALSE
  /\ pc' = "loop" /\ UENUM' = "control"
  /\ USB_ControlRequest' = None /\ Length' = 0 /\ LastPacketFull' = FALSE /\ EndpointNum' = 0
  /\ UNCHANGED <<driver, eps, ep0set, flags, address, RXOUTI, TXINI, in, host, history>>

(* The end of USB_Device_ProcessControlRequest looks at the endpoint that  *)
(* is selected: after SetConfiguration it is the last data endpoint, and a *)
(* SETUP packet stays for the next USB_DeviceTask, which selects the       *)
(* control endpoint again.                                                 *)
End ==
  /\ pc = "end"
  /\ IF UENUM = "control"
     THEN STALLRQ' = (STALLRQ \/ RXSTPI) /\ RXSTPI' = FALSE
     ELSE UNCHANGED <<STALLRQ, RXSTPI>>
  /\ pc' = "loop" /\ UENUM' = "control"
  /\ USB_ControlRequest' = None /\ Length' = 0 /\ LastPacketFull' = FALSE /\ EndpointNum' = 0
  /\ UNCHANGED <<driver, eps, ep0set, flags, address, RXOUTI, TXINI, in, host, history>>

Device ==
  \/ Refuse \/ ShortAnswer \/ GetLineEncoding \/ LineEncodingSent
  \/ NoDataRequest \/ SetLineEncoding \/ LineEncodingReceived
  \/ StatusIn \/ SetAddress \/ Apply \/ SelectEndpoint \/ ConfigureEndpoint \/ StatusOut
  \/ GetDescriptor \/ Stream \/ StreamEnds \/ LastOut \/ End

-----------------------------------------------------------------------------
(* USB_GEN_vect: the flags in the order in which the handler tests them *)

VbusChange ==
  /\ ints /\ VBUSTI
  /\ VBUSTI' = FALSE
  /\ USB_DeviceState' = IF hbus = "off" THEN "Unattached" ELSE "Powered"
  /\ UNCHANGED <<USB_Device_ConfigurationNumber, USB_Device_RemoteWakeupEnabled, BaudRateBPS,
                 ints, endpoints, handler, SUSPI, WAKEUPI, EORSTI, SUSPE, address, ep0, host, history>>

Suspend ==
  /\ ints /\ ~VBUSTI /\ SUSPI /\ SUSPE
  /\ SUSPE' = FALSE
  /\ USB_DeviceState' = "Suspended"
  /\ UNCHANGED <<USB_Device_ConfigurationNumber, USB_Device_RemoteWakeupEnabled, BaudRateBPS,
                 ints, endpoints, handler, VBUSTI, SUSPI, WAKEUPI, EORSTI, address, ep0, host, history>>

WakeUp ==
  /\ ints /\ ~VBUSTI /\ WAKEUPI /\ ~SUSPE
  /\ WAKEUPI' = FALSE /\ SUSPE' = TRUE
  /\ USB_DeviceState' = StateFor(USB_Device_ConfigurationNumber)
  /\ UNCHANGED <<USB_Device_ConfigurationNumber, USB_Device_RemoteWakeupEnabled, BaudRateBPS,
                 ints, endpoints, handler, VBUSTI, SUSPI, EORSTI, address, ep0, host, history>>

(* The control endpoint is configured, and stays selected. *)
EndOfReset ==
  /\ ints /\ ~VBUSTI /\ ~(SUSPI /\ SUSPE) /\ ~(WAKEUPI /\ ~SUSPE) /\ EORSTI
  /\ EORSTI' = FALSE /\ SUSPI' = FALSE /\ SUSPE' = FALSE
  /\ USB_DeviceState' = "Default" /\ USB_Device_ConfigurationNumber' = 0
  /\ UENUM' = "control" /\ ep0set' = TRUE /\ EndpointFresh
  /\ UNCHANGED <<USB_Device_RemoteWakeupEnabled, BaudRateBPS, ints, EndpointNum, eps, handler, VBUSTI,
                 WAKEUPI, address, host, history>>

Interrupt == VbusChange \/ Suspend \/ WakeUp \/ EndOfReset

-----------------------------------------------------------------------------
(* The USB controller and the host (external) *)

TransferOver == hreq' = None /\ got' = <<>> /\ early' = FALSE

Left == left' = (left \/ pc # "loop")

(* The events of a bus are milliseconds apart: the interrupt comes before  *)
(* the next one, unless the interrupts are off.                            *)
Settled == ints => ~(VBUSTI \/ EORSTI \/ (SUSPI /\ SUSPE) \/ (WAKEUPI /\ ~SUSPE))

Plug ==
  /\ Settled /\ hbus = "off" /\ hbus' = "attached" /\ VBUSTI' = TRUE
  /\ UNCHANGED <<driver, endpoints, handler, SUSPI, WAKEUPI, EORSTI, SUSPE, address, ep0, haddr, hstage,
                 hreq, got, early, history>>

Unplug ==
  /\ Settled /\ hbus # "off" /\ hbus' = "off" /\ VBUSTI' = TRUE
  /\ hstage' = "none" /\ got' = <<>> /\ early' = FALSE /\ Left
  /\ UNCHANGED <<driver, endpoints, handler, SUSPI, WAKEUPI, EORSTI, SUSPE, address, ep0, haddr, hreq,
                 overran, cutAddr, hbaud>>

(* A reset clears the address, the control endpoint and the others; it     *)
(* wakes a suspended controller, and may raise WAKEUPI in another.         *)
BusReset ==
  /\ Settled /\ hbus # "off" /\ ~VBUSTI
  /\ hbus' = "active" /\ haddr' = 0 /\ hstage' = "none" /\ TransferOver /\ Left
  /\ EORSTI' = TRUE /\ WAKEUPI' \in {TRUE, WAKEUPI \/ hbus = "suspended"}
  /\ SUSPI' = FALSE
  /\ UADD' = 0 /\ ADDEN' = FALSE /\ eps' = FALSE
  /\ EndpointFresh
  /\ cutAddr' = FALSE
  /\ UNCHANGED <<USB_DeviceState, USB_Device_ConfigurationNumber, USB_Device_RemoteWakeupEnabled,
                 BaudRateBPS, ints, handler, EndpointNum, UENUM, ep0set, VBUSTI, SUSPE, overran, hbaud>>

(* The host has left the device the time to recover from a reset or a      *)
(* resume, and it answers at the host's address.                           *)
Recovered == hbus = "active" /\ ~EORSTI /\ ~(WAKEUPI /\ ~SUSPE)
Listening == Recovered /\ UADD = haddr /\ ep0set

BusSuspend ==
  /\ Settled /\ Recovered /\ hstage = "none"
  /\ hbus' = "suspended" /\ SUSPI' = TRUE /\ WAKEUPI' = FALSE
  /\ UNCHANGED <<driver, endpoints, handler, VBUSTI, EORSTI, SUSPE, address, ep0, haddr, hstage, hreq, got,
                 early, history>>

BusResume ==
  /\ Settled /\ hbus = "suspended"
  /\ hbus' = "active" /\ SUSPI' = FALSE /\ WAKEUPI' = TRUE
  /\ UNCHANGED <<driver, endpoints, handler, VBUSTI, EORSTI, SUSPE, address, ep0, haddr, hstage, hreq, got,
                 early, history>>

(* A SETUP packet is always taken, and empties the endpoint.  The host may *)
(* not have waited for the end of its last transfer; or that is over, and  *)
(* the host is faster than its handler, which has not returned or not even *)
(* seen the last packet.                                                   *)
HostSetup ==
  /\ Listening
  /\ \E q \in Requests : hreq' = q /\ hstage' = Stages(q)
  /\ RXSTPI' = TRUE /\ RXOUTI' = FALSE /\ TXINI' = TRUE /\ in' = <<>> /\ STALLRQ' = FALSE
  /\ got' = <<>> /\ early' = FALSE
  /\ overran' = (pc # "loop")
  /\ left' = (hstage # "none" \/ (overran' /\ (left \/ RXOUTI)))
  /\ UNCHANGED <<driver, endpoints, handler, flags, address, hbus, haddr, cutAddr, hbaud>>

Packet == Listening /\ ~RXSTPI /\ ~STALLRQ   \* the device may answer

(* The data stage ends with a short packet, with the last byte asked for,  *)
(* or when the host has seen enough.                                       *)
HostReads ==
  /\ Packet /\ hstage = "dataIn" /\ ~TXINI
  /\ got' = got \o in
  /\ TXINI' = TRUE /\ in' = <<>>
  /\ \E enough \in BOOLEAN :
       LET last == Len(in) < USB_Device_ControlEndpointSize \/ Len(got') >= hreq.wLength
       IN  /\ hstage' = IF last \/ enough THEN "statusOut" ELSE "dataIn"
           /\ early' = (enough /\ ~last)
  /\ UNCHANGED <<driver, endpoints, handler, flags, address, RXSTPI, RXOUTI, STALLRQ, hbus, haddr,
                 hreq, history>>

HostWrites ==
  /\ Packet /\ hstage \in {"dataOut", "statusOut"} /\ ~RXOUTI
  /\ RXOUTI' = TRUE
  /\ hstage' = IF hstage = "dataOut" THEN "statusIn" ELSE "none"
  /\ IF hstage = "dataOut" THEN hbaud' = hreq.v /\ UNCHANGED <<hreq, got, early>>
     ELSE TransferOver /\ UNCHANGED hbaud
  /\ UNCHANGED <<driver, endpoints, handler, flags, address, RXSTPI, TXINI, in, STALLRQ, hbus, haddr, left,
                 overran, cutAddr>>

HostReadsStatus ==
  /\ Packet /\ hstage = "statusIn" /\ ~TXINI
  /\ TXINI' = TRUE
  /\ hstage' = "none" /\ TransferOver
  /\ haddr' = IF hreq.r = "SetAddress" THEN hreq.v ELSE haddr
  /\ UNCHANGED <<driver, endpoints, handler, flags, address, RXSTPI, RXOUTI, in, STALLRQ, hbus, history>>

HostSeesStall ==
  /\ Listening /\ ~RXSTPI /\ STALLRQ /\ hstage # "none"
  /\ hstage' = "none" /\ TransferOver
  /\ UNCHANGED <<driver, endpoints, handler, flags, address, ep0, hbus, haddr, history>>

Transfer == HostReads \/ HostWrites \/ HostReadsStatus \/ HostSeesStall

Next ==
  \/ Device \/ Interrupt \/ Transfer
  \/ Plug \/ Unplug \/ BusReset \/ BusSuspend \/ BusResume \/ HostSetup

Spec == Init /\ [][Next]_vars

(* The main loop and the interrupts go on, and so does a transfer of the   *)
(* host that is neither given up nor cut.                                  *)
FairSpec == Spec /\ WF_vars(Device) /\ WF_vars(Interrupt) /\ WF_vars(Transfer)

-----------------------------------------------------------------------------
(* In the middle of a transfer the device answers at the address that the  *)
(* host uses: it takes a new one only when the status stage of SetAddress  *)
(* is over, unless the host left that transfer.                            *)
AddressHeld == hstage # "none" /\ ~cutAddr => UADD = haddr

(* What the host reads of a descriptor is the beginning of it, and all of  *)
(* it that was asked for unless the host stops by itself; or nothing, when *)
(* it gave up a SetConfiguration for this request before its status stage: *)
(* that packet is still sent, and is read as the end of the data.          *)
DescriptorWhole ==
  hreq.r = "GetDescriptor" =>
    /\ got = SubSeq(Descriptor(hreq.v), 1, Len(got))
    /\ hstage = "statusOut" /\ ~early =>
         Len(got) = Min({hreq.v, hreq.wLength}) \/ (got = <<>> /\ overran /\ left)

(* A request is stalled only when it is not supported, or when it came     *)
(* while the handler of another was still running, for a transfer that the *)
(* host gave up or that was over for the host but not for the handler: the *)
(* end of that handler then throws the new request away.                   *)
StallsTheUnsupported == STALLRQ /\ hstage # "none" => ~Supported(hreq) \/ overran

(* Between requests the baud rate is the one that this host has set since  *)
(* it configured the device: none of an earlier session is left.           *)
BaudOfThisSession == eps /\ pc = "loop" => BaudRateBPS = hbaud

(* Every handler comes back to the main loop, except from a wait in which  *)
(* the host left it: by giving up the transfer, by a new request before    *)
(* the handler had seen the last packet, by a reset, or by taking a packet *)
(* that an earlier handler had left in the bank for its own.  The three    *)
(* waits without an exit last for ever; the waits for a status stage last  *)
(* until the state is Unattached (pulling the cable does not do it when    *)
(* SetConfiguration writes its state over that of the interrupt), and the  *)
(* descriptor stream until that or the host's next request.                *)
Abandoned ==
  /\ left
  /\ \/ pc \in {"dataIn", "dataOut", "setAddr"}
     \/ USB_DeviceState # "Unattached" /\ (pc \in {"statusOut", "lastOut"} \/ hstage = "none")
HandlersEnd == pc # "loop" ~> (pc = "loop" \/ Abandoned)

(* And every transfer comes to an end, unless the host gives it up for a   *)
(* new one, or had left the one before while that was handled.             *)
TransfersEnd == hstage # "none" ~> (hstage = "none" \/ left)
=============================================================================
