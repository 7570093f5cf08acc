----------------------------- MODULE UsbProofs ------------------------------
(***************************************************************************)
(* Proofs about Usb, for every set of requests and every size of the       *)
(* control endpoint: whatever the host asks, leaves, resets and unplugs.   *)
(***************************************************************************)
EXTENDS Usb, SequenceTheorems, TLAPS

Labels == {"loop", "statusOut", "statusIn", "dataIn", "dataOut", "setAddr", "apply", "select",
           "configure", "stream", "lastOut", "end"}
HostStages == {"none", "dataIn", "dataOut", "statusIn", "statusOut"}
Asks == Requests \cup {None}

(* The types, those of the flags apart: no prover is good at both. *)
Booleans ==
  /\ ints \in BOOLEAN /\ eps \in BOOLEAN /\ ep0set \in BOOLEAN /\ EORSTI \in BOOLEAN
  /\ RXSTPI \in BOOLEAN /\ RXOUTI \in BOOLEAN /\ TXINI \in BOOLEAN /\ STALLRQ \in BOOLEAN
  /\ early \in BOOLEAN /\ left \in BOOLEAN /\ overran \in BOOLEAN /\ cutAddr \in BOOLEAN

Values ==
  /\ pc \in Labels /\ hstage \in HostStages /\ UENUM \in {"control", "data"}
  /\ hreq \in Asks /\ USB_ControlRequest \in Asks
  /\ Length \in Nat /\ in \in Seq(Nat) /\ got \in Seq(Nat)
  /\ BaudRateBPS \in Nat /\ USB_Device_ConfigurationNumber \in Nat

(* After a reset the host waits for the interrupt before it goes on. *)
ResetEnds == EORSTI => hstage = "none"

(* A SETUP packet that is there is the host's request at its first stage,  *)
(* it came alone, and to an endpoint that is configured.                   *)
NewSetup ==
  RXSTPI => (hstage # "none" => hstage = Stages(hreq)) /\ ~STALLRQ /\ ~RXOUTI /\ ep0set

(* The stages of a transfer follow from its request. *)
Staged ==
  hstage # "none" => (Stages(hreq) = "dataIn" <=> hstage \in {"dataIn", "statusOut"})

(* A SETUP packet that finds a handler running, or a packet that one has   *)
(* put into the bank since, came too early;                                *)
Cut == RXSTPI /\ (pc # "loop" \/ ~TXINI) => overran

(* without one, the host is at the request that is being handled, if the   *)
(* control endpoint is there.                                              *)
Serving == pc # "loop" /\ hstage # "none" /\ ~RXSTPI /\ ep0set => hreq = USB_ControlRequest

(* What a descriptor request is to give. *)
Asked(q) == IF q.v <= q.wLength THEN q.v ELSE q.wLength

(* The request tells where its handler can be.  Only that of               *)
(* SetConfiguration leaves the control endpoint, or loses it.              *)
Handling ==
  /\ pc = "loop" => USB_ControlRequest = None
  /\ pc = "setAddr" => USB_ControlRequest.r = "SetAddress"
  /\ pc = "statusIn" => USB_ControlRequest.r \in NoData \cup {"SetLineEncoding"}
  /\ pc = "dataIn" => USB_ControlRequest.r = "GetLineEncoding"
  /\ pc = "dataOut" => USB_ControlRequest.r = "SetLineEncoding"
  /\ pc \in {"select", "configure"} => USB_ControlRequest.r = "SetConfiguration"
  /\ pc = "stream" => USB_ControlRequest.r = "GetDescriptor" /\ Length <= Asked(USB_ControlRequest)
  /\ UENUM = "data" => /\ pc \in {"select", "configure", "end"}
                       /\ USB_ControlRequest.r = "SetConfiguration"
  /\ ~ep0set => pc \in {"select", "configure", "end", "loop"}

(* SetAddress runs with the interrupts off.  Unless the host left it, the  *)
(* host is in its status stage until it has the packet, and then uses the  *)
(* new address.                                                            *)
AddressStep ==
  pc \in {"statusIn", "setAddr"} /\ USB_ControlRequest.r = "SetAddress" =>
    /\ ~ints
    /\ \/ left
       \/ /\ hstage = "statusIn" /\ hreq = USB_ControlRequest /\ ~RXSTPI /\ ~STALLRQ
          /\ TXINI <=> pc = "statusIn"
       \/ pc = "setAddr" /\ haddr = USB_ControlRequest.v

(* The line encoding is on its way from the moment the host has written it *)
(* until the handler has read it.                                          *)
Encoding ==
  /\ hstage = "dataOut" => ~RXOUTI /\ (RXSTPI \/ STALLRQ \/ pc = "dataOut" \/ ~ep0set)
  /\ pc = "dataOut" /\ RXOUTI => USB_ControlRequest.v = hbaud
  /\ pc = "dataOut" /\ ~RXSTPI => hstage \in {"none", "dataOut", "statusIn"}
  /\ eps \/ pc \in {"select", "configure"} => BaudRateBPS = hbaud \/ pc = "dataOut"

(* A sequence that is the beginning of a descriptor. *)
Counted(s) == \A j \in 1..Len(s) : s[j] = j

(* The host takes the empty packet of a request that it left for the end   *)
(* of this one's data.                                                     *)
Stray == got = <<>> /\ overran /\ left

(* What the bank holds, but for a line encoding that comes too late: the   *)
(* SETUP packet that is there will be stalled.                             *)
Bank ==
  /\ TXINI => in = <<>>
  /\ hstage \in {"dataOut", "statusIn"} /\ ~RXSTPI /\ ~STALLRQ => in = <<>>
  /\ RXSTPI => got = <<>> /\ (in = <<>> \/ USB_ControlRequest.r = "GetLineEncoding")

(* What the host has and what is in flight are the beginning of the        *)
(* descriptor, up to where the handler is; a short packet is the last.     *)
Reading ==
  hreq.r = "GetDescriptor" =>
    /\ Counted(got) /\ Len(got) <= Asked(hreq)
    /\ hstage = "statusOut" /\ ~early => Len(got) = Asked(hreq) \/ Stray
    /\ hstage = "dataIn" /\ ~RXSTPI /\ ~STALLRQ =>
         /\ Counted(got \o in) /\ Len(got) + Len(in) <= Asked(hreq)
         /\ pc = "stream" => Len(got) + Len(in) = Asked(hreq) - Length
         /\ ~TXINI /\ Len(in) < USB_Device_ControlEndpointSize
              => Len(got) + Len(in) = Asked(hreq) \/ (Stray /\ in = <<>>)

Control == ResetEnds /\ NewSetup /\ Staged /\ Cut /\ Serving /\ Handling

IInv ==
  /\ Booleans /\ Values /\ Control
  /\ AddressStep /\ AddressHeld /\ StallsTheUnsupported /\ Encoding /\ Bank /\ Reading

USE SizeAssumption
USE DEF driver, handler, endpoints, flags, address, ep0, host, history, Labels, HostStages

-----------------------------------------------------------------------------
LEMMA AsksFacts ==
  ASSUME NEW q \in Asks
  PROVE  /\ q.v \in Nat
         /\ q.r = "GetDescriptor" => q.wLength \in Nat /\ Asked(q) \in Nat
                                     /\ Asked(q) <= q.v /\ Asked(q) <= q.wLength
<1>1. CASE q = None
  BY <1>1 DEF None
<1>2. CASE q \in Requests
  BY <1>2, RequestsAssumption DEF Asked
<1> QED BY <1>1, <1>2 DEF Asks

LEMMA MinPair ==
  ASSUME NEW a \in Int, NEW b \in Int
  PROVE  Min({a, b}) = IF a <= b THEN a ELSE b
<1> DEFINE m == IF a <= b THEN a ELSE b
<1>1. m \in {a, b} /\ \A y \in {a, b} : m <= y
  OBVIOUS
<1>2. \A x \in {a, b} : (\A y \in {a, b} : x <= y) => x = m
  OBVIOUS
<1> QED BY <1>1, <1>2 DEF Min

LEMMA AskedMin ==
  ASSUME NEW q \in Asks, q.r = "GetDescriptor"
  PROVE  Min({q.v, q.wLength}) = Asked(q)
<1>1. q.v \in Int /\ q.wLength \in Int
  BY AsksFacts
<1> QED BY <1>1, MinPair DEF Asked

LEMMA InitIInv == Init => IInv
<1> SUFFICES ASSUME Init PROVE IInv
  OBVIOUS
<1>1. Booleans
  BY DEF Init, Booleans
<1>2. Values
  BY DEF Init, Values, Asks
<1>3. Control /\ AddressStep /\ AddressHeld /\ StallsTheUnsupported /\ Encoding /\ Bank /\ Reading
  BY DEF Init, Control, ResetEnds, NewSetup, Staged, Cut, Serving, Handling, AddressStep,
         AddressHeld, StallsTheUnsupported, Encoding, Bank, Reading, None
<1> QED BY <1>1, <1>2, <1>3 DEF IInv

(* Steps that leave all of this alone. *)
LEMMA QuietStep ==
  ASSUME IInv,
         \/ VbusChange \/ Suspend \/ WakeUp \/ Plug \/ BusSuspend \/ BusResume
         \/ UNCHANGED vars
  PROVE  IInv'
<1>1. /\ UNCHANGED <<ints, eps, ep0set, EORSTI, RXSTPI, RXOUTI, TXINI, STALLRQ, early, left>>
      /\ UNCHANGED <<overran, cutAddr, UENUM, pc, hstage, hreq, USB_ControlRequest, Length>>
      /\ UNCHANGED <<in, got>>
      /\ UNCHANGED <<BaudRateBPS, USB_Device_ConfigurationNumber, UADD, haddr, hbaud>>
  BY DEF VbusChange, Suspend, WakeUp, Plug, BusSuspend, BusResume, vars
<1>2. Booleans' /\ Values'
  BY <1>1 DEF IInv, Booleans, Values
<1>3. Control' /\ AddressStep' /\ AddressHeld' /\ StallsTheUnsupported'
  BY <1>1 DEF IInv, Control, ResetEnds, NewSetup, Staged, Cut, Serving, Handling, AddressStep,
              AddressHeld, StallsTheUnsupported
<1>4. Encoding' /\ Bank' /\ Reading'
  BY <1>1 DEF IInv, Encoding, Bank, Reading, Stray, Counted
<1> QED BY <1>2, <1>3, <1>4 DEF IInv

-----------------------------------------------------------------------------
(* One lemma per action.  The parts of the invariant are open in all of    *)
(* them; AddressHeld and the rest are opened where they are proved.        *)
USE DEF IInv, Booleans, Values, Control, ResetEnds, NewSetup, Staged, Cut, Serving, Handling

LEMMA RefuseStep == ASSUME IInv, Refuse PROVE IInv'
<1>1. Booleans'
  BY DEF Refuse, Accept
<1>2. Values'
  BY AsksFacts DEF Refuse, Accept, Asks, Stages
<1>3. Control'
  BY DEF Refuse, Accept, Stages, Supported, NoData, None
<1>4. AddressStep' /\ AddressHeld' /\ StallsTheUnsupported'
  BY DEF Refuse, Accept, AddressStep, AddressHeld, StallsTheUnsupported, Stages, NoData, None
<1>5. Encoding'
  BY DEF Refuse, Accept, Encoding, Stages, NoData, None
<1>6. Bank'
  BY <1>2, AsksFacts DEF Refuse, Accept, Bank, Stages, NoData, None
<1>7. Reading'
  BY <1>2, AsksFacts DEF Refuse, Accept, Bank, Reading, Stray, Counted, Stages, NoData, None
<1> QED BY <1>1, <1>2, <1>3, <1>4, <1>5, <1>6, <1>7

LEMMA ShortAnswerStep == ASSUME IInv, ShortAnswer PROVE IInv'
<1>1. Booleans'
  BY DEF ShortAnswer, Accept
<1>2. Values'
  <2>1. in' \in Seq(Nat)
    <3>1. PICK a \in Nat : in' \in {<<a>>, in}
      BY DEF ShortAnswer
    <3>2. <<a>> \in Seq(Nat)
      OBVIOUS
    <3> QED BY <3>1, <3>2
  <2> QED BY <2>1 DEF ShortAnswer, Accept, Asks
<1>3. Control'
  BY DEF ShortAnswer, Accept, Stages, Supported, NoData, None
<1>4. AddressStep' /\ AddressHeld' /\ StallsTheUnsupported'
  BY DEF ShortAnswer, Accept, AddressStep, AddressHeld, StallsTheUnsupported, Stages, NoData,
         None
<1>5. Encoding'
  BY DEF ShortAnswer, Accept, Encoding, Stages, NoData, None
<1>6. Bank'
  BY <1>2, AsksFacts DEF ShortAnswer, Accept, Bank, Stages, NoData, None
<1>7. Reading'
  BY <1>2, AsksFacts DEF ShortAnswer, Accept, Bank, Reading, Stray, Counted, Stages, NoData,
         None
<1> QED BY <1>1, <1>2, <1>3, <1>4, <1>5, <1>6, <1>7

LEMMA NoDataRequestStep == ASSUME IInv, NoDataRequest PROVE IInv'
<1>1. Booleans'
  BY DEF NoDataRequest, Accept, NoData
<1>2. Values'
  BY AsksFacts DEF NoDataRequest, Accept, NoData, Asks, Stages
<1>3. Control'
  BY DEF NoDataRequest, Accept, NoData, Stages, Supported, None
<1>4. AddressStep' /\ AddressHeld' /\ StallsTheUnsupported'
  BY DEF NoDataRequest, Accept, NoData, AddressStep, AddressHeld, StallsTheUnsupported, Stages,
         None
<1>5. Encoding'
  BY DEF NoDataRequest, Accept, NoData, Encoding, Stages, None
<1>6. Bank'
  BY <1>2, AsksFacts DEF NoDataRequest, Accept, NoData, Bank, Stages, None
<1>7. Reading'
  BY <1>2, AsksFacts DEF NoDataRequest, Accept, NoData, Bank, Reading, Stray, Counted, Stages,
         None
<1> QED BY <1>1, <1>2, <1>3, <1>4, <1>5, <1>6, <1>7

LEMMA GetLineEncodingStep == ASSUME IInv, GetLineEncoding PROVE IInv'
<1>1. Booleans'
  BY DEF GetLineEncoding, Accept
<1>2. Values'
  BY AsksFacts DEF GetLineEncoding, Accept, Asks, Stages
<1>3. Control'
  BY DEF GetLineEncoding, Accept, Stages, Supported, NoData, None
<1>4. AddressStep' /\ AddressHeld' /\ StallsTheUnsupported'
  BY DEF GetLineEncoding, Accept, AddressStep, AddressHeld, StallsTheUnsupported, Stages,
         NoData, None
<1>5. Encoding'
  BY DEF GetLineEncoding, Accept, Encoding, Stages, NoData, None
<1>6. Bank'
  BY <1>2, AsksFacts DEF GetLineEncoding, Accept, Bank, Stages, NoData, None
<1>7. Reading'
  BY <1>2, AsksFacts DEF GetLineEncoding, Accept, Bank, Reading, Stray, Counted, Stages, NoData,
         None
<1> QED BY <1>1, <1>2, <1>3, <1>4, <1>5, <1>6, <1>7

LEMMA LineEncodingSentStep == ASSUME IInv, LineEncodingSent PROVE IInv'
<1>1. Booleans'
  BY DEF LineEncodingSent
<1>2. Values'
  BY AsksFacts DEF LineEncodingSent, Asks, Stages
<1>3. Control'
  BY DEF LineEncodingSent, Stages, Supported, NoData, None
<1>4. AddressStep' /\ AddressHeld' /\ StallsTheUnsupported'
  BY DEF LineEncodingSent, AddressStep, AddressHeld, StallsTheUnsupported, Stages, NoData, None
<1>5. Encoding'
  BY DEF LineEncodingSent, Encoding, Stages, NoData, None
<1>6. Bank'
  BY <1>2, AsksFacts DEF LineEncodingSent, Bank, Stages, NoData, None
<1>7. Reading'
  BY <1>2, AsksFacts DEF LineEncodingSent, Bank, Reading, Stray, Counted, Stages, NoData, None
<1> QED BY <1>1, <1>2, <1>3, <1>4, <1>5, <1>6, <1>7

LEMMA SetLineEncodingStep == ASSUME IInv, SetLineEncoding PROVE IInv'
<1>1. Booleans'
  BY DEF SetLineEncoding, Accept
<1>2. Values'
  BY AsksFacts DEF SetLineEncoding, Accept, Asks, Stages
<1>3. Control'
  BY DEF SetLineEncoding, Accept, Stages, Supported, NoData, None
<1>4. AddressStep' /\ AddressHeld' /\ StallsTheUnsupported'
  BY DEF SetLineEncoding, Accept, AddressStep, AddressHeld, StallsTheUnsupported, Stages,
         NoData, None
<1>5. Encoding'
  BY DEF SetLineEncoding, Accept, Encoding, Stages, NoData, None
<1>6. Bank'
  BY <1>2, AsksFacts DEF SetLineEncoding, Accept, Bank, Stages, NoData, None
<1>7. Reading'
  BY <1>2, AsksFacts DEF SetLineEncoding, Accept, Bank, Reading, Stray, Counted, Stages, NoData,
         None
<1> QED BY <1>1, <1>2, <1>3, <1>4, <1>5, <1>6, <1>7

LEMMA LineEncodingReceivedStep == ASSUME IInv, LineEncodingReceived PROVE IInv'
<1>1. Booleans'
  BY DEF LineEncodingReceived, NoData
<1>2. Values'
  BY AsksFacts DEF LineEncodingReceived, NoData, Asks, Stages
<1>3. Control'
  BY DEF LineEncodingReceived, NoData, Stages, Supported, None
<1>4. AddressStep' /\ AddressHeld' /\ StallsTheUnsupported'
  BY DEF LineEncodingReceived, NoData, AddressStep, AddressHeld, StallsTheUnsupported, Stages,
         None
<1>5. Encoding'
  BY DEF LineEncodingReceived, NoData, Encoding, Stages, None
<1>6. Bank'
  BY <1>2, AsksFacts DEF LineEncodingReceived, NoData, Bank, Stages, None
<1>7. Reading'
  BY <1>2, AsksFacts DEF LineEncodingReceived, NoData, Bank, Reading, Stray, Counted, Stages,
         None
<1> QED BY <1>1, <1>2, <1>3, <1>4, <1>5, <1>6, <1>7

LEMMA StatusInStep == ASSUME IInv, StatusIn PROVE IInv'
<1>1. Booleans'
  BY DEF StatusIn
<1>2. Values'
  BY AsksFacts DEF StatusIn, Asks, Stages
<1>3. Control'
  BY DEF StatusIn, Stages, Supported, NoData, None
<1>4. AddressStep' /\ AddressHeld' /\ StallsTheUnsupported'
  BY DEF StatusIn, AddressStep, AddressHeld, StallsTheUnsupported, Stages, NoData, None
<1>5. Encoding'
  BY DEF StatusIn, Encoding, Stages, NoData, None
<1>6. Bank'
  BY <1>2, AsksFacts DEF StatusIn, Bank, Stages, NoData, None
<1>7. Reading'
  BY <1>2, AsksFacts DEF StatusIn, Bank, Reading, Stray, Counted, Stages, NoData, None
<1> QED BY <1>1, <1>2, <1>3, <1>4, <1>5, <1>6, <1>7

LEMMA SetAddressStep == ASSUME IInv, SetAddress PROVE IInv'
<1>1. Booleans'
  BY DEF SetAddress
<1>2. Values'
  BY AsksFacts DEF SetAddress, Asks, Stages
<1>3. Control'
  BY DEF SetAddress, Stages, Supported, NoData, None
<1>4. AddressStep' /\ AddressHeld' /\ StallsTheUnsupported'
  BY DEF SetAddress, AddressStep, AddressHeld, StallsTheUnsupported, Stages, NoData, None
<1>5. Encoding'
  BY DEF SetAddress, Encoding, Stages, NoData, None
<1>6. Bank'
  BY <1>2, AsksFacts DEF SetAddress, Bank, Stages, NoData, None
<1>7. Reading'
  BY <1>2, AsksFacts DEF SetAddress, Bank, Reading, Stray, Counted, Stages, NoData, None
<1> QED BY <1>1, <1>2, <1>3, <1>4, <1>5, <1>6, <1>7

LEMMA ApplyStep == ASSUME IInv, Apply PROVE IInv'
<1>1. Booleans'
  BY DEF Apply
<1>2. Values'
  BY AsksFacts DEF Apply, Asks, Stages
<1>3. Control'
  BY DEF Apply, Stages, Supported, NoData, None
<1>4. AddressStep' /\ AddressHeld' /\ StallsTheUnsupported'
  BY DEF Apply, AddressStep, AddressHeld, StallsTheUnsupported, Stages, NoData, None
<1>5. Encoding'
  BY DEF Apply, Encoding, Stages, NoData, None
<1>6. Bank'
  BY <1>2, AsksFacts DEF Apply, Bank, Stages, NoData, None
<1>7. Reading'
  BY <1>2, AsksFacts DEF Apply, Bank, Reading, Stray, Counted, Stages, NoData, None
<1> QED BY <1>1, <1>2, <1>3, <1>4, <1>5, <1>6, <1>7

LEMMA SelectEndpointStep == ASSUME IInv, SelectEndpoint PROVE IInv'
<1>1. Booleans'
  BY DEF SelectEndpoint
<1>2. Values'
  BY AsksFacts DEF SelectEndpoint, Asks, Stages
<1>3. Control'
  BY DEF SelectEndpoint, Stages, Supported, NoData, None
<1>4. AddressStep' /\ AddressHeld' /\ StallsTheUnsupported'
  BY DEF SelectEndpoint, AddressStep, AddressHeld, StallsTheUnsupported, Stages, NoData, None
<1>5. Encoding'
  BY DEF SelectEndpoint, Encoding, Stages, NoData, None
<1>6. Bank'
  BY <1>2, AsksFacts DEF SelectEndpoint, Bank, Stages, NoData, None
<1>7. Reading'
  BY <1>2, AsksFacts DEF SelectEndpoint, Bank, Reading, Stray, Counted, Stages, NoData, None
<1> QED BY <1>1, <1>2, <1>3, <1>4, <1>5, <1>6, <1>7

LEMMA ConfigureEndpointStep == ASSUME IInv, ConfigureEndpoint PROVE IInv'
<1>1. Booleans'
  BY DEF ConfigureEndpoint, EndpointFresh
<1>2. Values'
  <2>1. UNCHANGED ep0 \/ EndpointFresh
    BY DEF ConfigureEndpoint
  <2>2. in' \in Seq(Nat)
    <3>1. CASE in' = in
      BY <3>1
    <3>2. CASE in' = <<>>
      <4>1. <<>> \in Seq(Nat)
        OBVIOUS
      <4> QED BY <3>2, <4>1
    <3> QED BY <2>1, <3>1, <3>2 DEF EndpointFresh
  <2>3. pc' \in {"select", "end"}
    BY DEF ConfigureEndpoint
  <2> QED BY <2>2, <2>3 DEF ConfigureEndpoint
<1>3. Control'
  BY DEF ConfigureEndpoint, EndpointFresh, Stages, Supported, NoData, None
<1>4. AddressStep' /\ AddressHeld' /\ StallsTheUnsupported'
  BY DEF ConfigureEndpoint, EndpointFresh, AddressStep, AddressHeld, StallsTheUnsupported,
         Stages, NoData, None
<1>5. Encoding'
  BY DEF ConfigureEndpoint, EndpointFresh, Encoding, Stages, NoData, None
<1>6. Bank'
  BY <1>2, AsksFacts DEF ConfigureEndpoint, EndpointFresh, Bank, Stages, NoData, None
<1>7. Reading'
  <2>0. /\ pc' \in {"select", "end"} /\ pc = "configure"
        /\ UNCHANGED <<hreq, hstage, got, early, left, overran>>
    BY DEF ConfigureEndpoint
  <2>1. CASE UNCHANGED ep0
    BY <2>0, <2>1 DEF Reading, Stray
  <2>2. CASE EndpointFresh
    <3>1. in' = <<>> /\ TXINI' /\ got' \o in' = got' /\ Len(in') = 0 /\ Len(got') \in Nat
      BY <2>0, <2>2 DEF EndpointFresh
    <3> QED BY <2>0, <3>1 DEF Reading, Stray
  <2> QED BY <2>1, <2>2 DEF ConfigureEndpoint
<1> QED BY <1>1, <1>2, <1>3, <1>4, <1>5, <1>6, <1>7

LEMMA StatusOutStep == ASSUME IInv, StatusOut PROVE IInv'
<1>1. Booleans'
  BY DEF StatusOut
<1>2. Values'
  BY AsksFacts DEF StatusOut, Asks, Stages
<1>3. Control'
  BY DEF StatusOut, Stages, Supported, NoData, None
<1>4. AddressStep' /\ AddressHeld' /\ StallsTheUnsupported'
  BY DEF StatusOut, AddressStep, AddressHeld, StallsTheUnsupported, Stages, NoData, None
<1>5. Encoding'
  BY DEF StatusOut, Encoding, Stages, NoData, None
<1>6. Bank'
  BY <1>2, AsksFacts DEF StatusOut, Bank, Stages, NoData, None
<1>7. Reading'
  BY <1>2, AsksFacts DEF StatusOut, Bank, Reading, Stray, Counted, Stages, NoData, None
<1> QED BY <1>1, <1>2, <1>3, <1>4, <1>5, <1>6, <1>7

LEMMA StreamEndsStep == ASSUME IInv, StreamEnds PROVE IInv'
<1>1. Booleans'
  BY DEF StreamEnds
<1>2. Values'
  BY AsksFacts DEF StreamEnds, Asks, Stages
<1>3. Control'
  BY DEF StreamEnds, Stages, Supported, NoData, None
<1>4. AddressStep' /\ AddressHeld' /\ StallsTheUnsupported'
  BY DEF StreamEnds, AddressStep, AddressHeld, StallsTheUnsupported, Stages, NoData, None
<1>5. Encoding'
  BY DEF StreamEnds, Encoding, Stages, NoData, None
<1>6. Bank'
  BY <1>2, AsksFacts DEF StreamEnds, Bank, Stages, NoData, None
<1>7. Reading'
  BY <1>2, AsksFacts DEF StreamEnds, Bank, Reading, Stray, Counted, Stages, NoData, None
<1> QED BY <1>1, <1>2, <1>3, <1>4, <1>5, <1>6, <1>7

LEMMA LastOutStep == ASSUME IInv, LastOut PROVE IInv'
<1>1. Booleans'
  BY DEF LastOut
<1>2. Values'
  BY AsksFacts DEF LastOut, Asks, Stages
<1>3. Control'
  BY DEF LastOut, Stages, Supported, NoData, None
<1>4. AddressStep' /\ AddressHeld' /\ StallsTheUnsupported'
  BY DEF LastOut, AddressStep, AddressHeld, StallsTheUnsupported, Stages, NoData, None
<1>5. Encoding'
  BY DEF LastOut, Encoding, Stages, NoData, None
<1>6. Bank'
  BY <1>2, AsksFacts DEF LastOut, Bank, Stages, NoData, None
<1>7. Reading'
  BY <1>2, AsksFacts DEF LastOut, Bank, Reading, Stray, Counted, Stages, NoData, None
<1> QED BY <1>1, <1>2, <1>3, <1>4, <1>5, <1>6, <1>7

LEMMA EndStep == ASSUME IInv, End PROVE IInv'
<1>1. Booleans'
  BY DEF End
<1>2. Values'
  BY AsksFacts DEF End, Asks, Stages
<1>3. Control'
  BY DEF End, Stages, Supported, NoData, None
<1>4. AddressStep' /\ AddressHeld' /\ StallsTheUnsupported'
  BY DEF End, AddressStep, AddressHeld, StallsTheUnsupported, Stages, NoData, None
<1>5. Encoding'
  BY DEF End, Encoding, Stages, NoData, None
<1>6. Bank'
  BY <1>2, AsksFacts DEF End, Bank, Stages, NoData, None
<1>7. Reading'
  BY <1>2, AsksFacts DEF End, Bank, Reading, Stray, Counted, Stages, NoData, None
<1> QED BY <1>1, <1>2, <1>3, <1>4, <1>5, <1>6, <1>7

LEMMA EndOfResetStep == ASSUME IInv, EndOfReset PROVE IInv'
<1>1. Booleans'
  BY DEF EndOfReset, EndpointFresh
<1>2. Values'
  BY AsksFacts DEF EndOfReset, EndpointFresh, Asks, Stages
<1>3. Control'
  BY DEF EndOfReset, EndpointFresh, Stages, Supported, NoData, None
<1>4. AddressStep' /\ AddressHeld' /\ StallsTheUnsupported'
  BY DEF EndOfReset, EndpointFresh, AddressStep, AddressHeld, StallsTheUnsupported, Stages,
         NoData, None
<1>5. Encoding'
  BY DEF EndOfReset, EndpointFresh, Encoding, Stages, NoData, None
<1>6. Bank'
  BY <1>2, AsksFacts DEF EndOfReset, EndpointFresh, Bank, Stages, NoData, None
<1>7. Reading'
  BY <1>2, AsksFacts DEF EndOfReset, EndpointFresh, Bank, Reading, Stray, Counted, Stages,
         NoData, None
<1> QED BY <1>1, <1>2, <1>3, <1>4, <1>5, <1>6, <1>7

LEMMA UnplugStep == ASSUME IInv, Unplug PROVE IInv'
<1>1. Booleans'
  BY DEF Unplug, Left
<1>2. Values'
  BY AsksFacts DEF Unplug, Left, Asks, Stages
<1>3. Control'
  BY DEF Unplug, Left, Stages, Supported, NoData, None
<1>4. AddressStep' /\ AddressHeld' /\ StallsTheUnsupported'
  BY DEF Unplug, Left, AddressStep, AddressHeld, StallsTheUnsupported, Stages, NoData, None
<1>5. Encoding'
  BY DEF Unplug, Left, Encoding, Stages, NoData, None
<1>6. Bank'
  BY <1>2, AsksFacts DEF Unplug, Left, Bank, Stages, NoData, None
<1>7. Reading'
  BY <1>2, AsksFacts DEF Unplug, Left, Bank, Reading, Stray, Counted, Stages, NoData, None
<1> QED BY <1>1, <1>2, <1>3, <1>4, <1>5, <1>6, <1>7

LEMMA BusResetStep == ASSUME IInv, BusReset PROVE IInv'
<1>1. Booleans'
  BY DEF BusReset, TransferOver, Left, EndpointFresh
<1>2. Values'
  BY AsksFacts DEF BusReset, TransferOver, Left, EndpointFresh, Asks, Stages
<1>3. Control'
  BY DEF BusReset, TransferOver, Left, EndpointFresh, Stages, Supported, NoData, None
<1>4. AddressStep' /\ AddressHeld' /\ StallsTheUnsupported'
  BY DEF BusReset, TransferOver, Left, EndpointFresh, AddressStep, AddressHeld,
         StallsTheUnsupported, Stages, NoData, None
<1>5. Encoding'
  BY DEF BusReset, TransferOver, Left, EndpointFresh, Encoding, Stages, NoData, None
<1>6. Bank'
  BY <1>2, AsksFacts DEF BusReset, TransferOver, Left, EndpointFresh, Bank, Stages, NoData, None
<1>7. Reading'
  BY <1>2, AsksFacts DEF BusReset, TransferOver, Left, EndpointFresh, Bank, Reading, Stray,
         Counted, Stages, NoData, None
<1> QED BY <1>1, <1>2, <1>3, <1>4, <1>5, <1>6, <1>7

LEMMA HostSetupStep == ASSUME IInv, HostSetup PROVE IInv'
<1>1. Booleans'
  BY DEF HostSetup, Listening, Recovered
<1>2. Values'
  BY AsksFacts DEF HostSetup, Listening, Recovered, Asks, Stages
<1>3. Control'
  BY DEF HostSetup, Listening, Recovered, Stages, Supported, NoData, None
<1>4. AddressStep' /\ AddressHeld' /\ StallsTheUnsupported'
  BY DEF HostSetup, Listening, Recovered, AddressStep, AddressHeld, StallsTheUnsupported,
         Stages, NoData, None
<1>5. Encoding'
  BY DEF HostSetup, Listening, Recovered, Encoding, Stages, NoData, None
<1>6. Bank'
  BY <1>2, AsksFacts DEF HostSetup, Listening, Recovered, Bank, Stages, NoData, None
<1>7. Reading'
  BY <1>2, AsksFacts DEF HostSetup, Listening, Recovered, Bank, Reading, Stray, Counted, Stages,
         NoData, None
<1> QED BY <1>1, <1>2, <1>3, <1>4, <1>5, <1>6, <1>7

LEMMA HostReadsStep == ASSUME IInv, HostReads PROVE IInv'
<1>1. Booleans'
  BY DEF HostReads, Packet, Listening
<1>2. Values'
  BY AsksFacts DEF HostReads, Packet, Listening, Asks, Stages
<1>3. Control'
  BY DEF HostReads, Packet, Listening, Stages, Supported, NoData, None
<1>4. AddressStep' /\ AddressHeld' /\ StallsTheUnsupported'
  BY DEF HostReads, Packet, Listening, AddressStep, AddressHeld, StallsTheUnsupported, Stages,
         NoData, None
<1>5. Encoding'
  BY DEF HostReads, Packet, Listening, Encoding, Stages, NoData, None
<1>6. Bank'
  BY <1>2, AsksFacts DEF HostReads, Packet, Listening, Bank, Stages, NoData, None
<1>7. Reading'
  <2>1. /\ in' = <<>> /\ TXINI' /\ got' = got \o in /\ got' \in Seq(Nat) /\ got' \o in' = got'
        /\ UNCHANGED <<overran, left>>
    BY <1>2 DEF HostReads
  <2>2. CASE hreq.r = "GetDescriptor"
    <3>1. /\ Counted(got') /\ Len(got') = Len(got) + Len(in) /\ Len(got') <= Asked(hreq)
          /\ pc = "stream" => Len(got') = Asked(hreq) - Length
          /\ Len(in) < USB_Device_ControlEndpointSize => Len(got') = Asked(hreq) \/ Stray'
      BY <2>1, <2>2 DEF HostReads, Packet, Listening, Reading, Stray
    <3>2. Asked(hreq) \in Nat /\ hreq.wLength \in Nat /\ Asked(hreq) <= hreq.wLength
      BY <2>2, AsksFacts
    <3>3. hstage' = "statusOut" /\ ~early' => Len(got') = Asked(hreq) \/ Stray'
      <4> DEFINE last == Len(in) < USB_Device_ControlEndpointSize \/ Len(got') >= hreq.wLength
      <4>1. PICK enough \in BOOLEAN :
              /\ hstage' = IF last \/ enough THEN "statusOut" ELSE "dataIn"
              /\ early' = (enough /\ ~last)
        BY DEF HostReads
      <4>2. CASE Len(in) < USB_Device_ControlEndpointSize
        BY <3>1, <4>2
      <4>3. CASE Len(in) >= USB_Device_ControlEndpointSize /\ Len(got') >= hreq.wLength
        <5>1. Len(got') \in Nat
          BY <2>1
        <5>2. ASSUME NEW k \in Nat, NEW a \in Nat, NEW w \in Nat, k <= a, a <= w, k >= w
              PROVE  k = a
          BY <5>2
        <5>3. Len(got') = Asked(hreq)
          BY <3>1, <3>2, <4>3, <5>1, <5>2
        <5> QED BY <5>3
      <4>4. CASE ~last
        BY <4>1, <4>4
      <4>5. Len(in) \in Nat
        OBVIOUS
      <4> QED BY <4>2, <4>3, <4>4, <4>5
    <3> QED BY <2>1, <3>1, <3>2, <3>3 DEF HostReads, Reading
  <2>3. CASE hreq.r # "GetDescriptor"
    BY <2>1, <2>3 DEF HostReads, Reading
  <2> QED BY <2>2, <2>3
<1> QED BY <1>1, <1>2, <1>3, <1>4, <1>5, <1>6, <1>7

LEMMA HostWritesStep == ASSUME IInv, HostWrites PROVE IInv'
<1>1. Booleans'
  BY DEF HostWrites, Packet, Listening, TransferOver
<1>2. Values'
  <2>1. CASE hstage = "dataOut"
    BY <2>1 DEF HostWrites
  <2>2. CASE hstage # "dataOut"
    <3>1. hreq' = None /\ got' = <<>> /\ hstage' = "none"
      BY <2>2 DEF HostWrites, TransferOver
    <3> QED BY <3>1 DEF HostWrites, Asks
  <2> QED BY <2>1, <2>2
<1>3. Control'
  BY DEF HostWrites, Packet, Listening, TransferOver, Stages, Supported, NoData, None
<1>4. AddressStep' /\ AddressHeld' /\ StallsTheUnsupported'
  BY DEF HostWrites, Packet, Listening, TransferOver, AddressStep, AddressHeld,
         StallsTheUnsupported, Stages, NoData, None
<1>5. Encoding'
  BY DEF HostWrites, Packet, Listening, TransferOver, Encoding, Stages, NoData, None
<1>6. Bank'
  BY <1>2, AsksFacts DEF HostWrites, Packet, Listening, TransferOver, Bank, Stages, NoData, None
<1>7. Reading'
  <2>1. CASE hstage = "dataOut"
    <3>1. hreq' = hreq /\ Stages(hreq) # "dataIn"
      BY <2>1 DEF HostWrites, Staged
    <3>2. hreq'.r # "GetDescriptor"
      BY <3>1 DEF Stages
    <3> QED BY <3>2 DEF Reading
  <2>2. CASE hstage # "dataOut"
    <3>1. hreq'.r # "GetDescriptor"
      BY <2>2 DEF HostWrites, TransferOver, None
    <3> QED BY <3>1 DEF Reading
  <2> QED BY <2>1, <2>2
<1> QED BY <1>1, <1>2, <1>3, <1>4, <1>5, <1>6, <1>7

LEMMA HostReadsStatusStep == ASSUME IInv, HostReadsStatus PROVE IInv'
<1>1. Booleans'
  BY DEF HostReadsStatus, Packet, Listening, TransferOver
<1>2. Values'
  BY AsksFacts DEF HostReadsStatus, Packet, Listening, TransferOver, Asks, Stages
<1>3. Control'
  BY DEF HostReadsStatus, Packet, Listening, TransferOver, Stages, Supported, NoData, None
<1>4. AddressStep' /\ AddressHeld' /\ StallsTheUnsupported'
  BY DEF HostReadsStatus, Packet, Listening, TransferOver, AddressStep, AddressHeld,
         StallsTheUnsupported, Stages, NoData, None
<1>5. Encoding'
  BY DEF HostReadsStatus, Packet, Listening, TransferOver, Encoding, Stages, NoData, None
<1>6. Bank'
  BY <1>2, AsksFacts DEF HostReadsStatus, Packet, Listening, TransferOver, Bank, Stages, NoData,
         None
<1>7. Reading'
  <2>1. hreq'.r # "GetDescriptor"
    BY DEF HostReadsStatus, TransferOver, None
  <2> QED BY <2>1 DEF Reading
<1> QED BY <1>1, <1>2, <1>3, <1>4, <1>5, <1>6, <1>7

LEMMA HostSeesStallStep == ASSUME IInv, HostSeesStall PROVE IInv'
<1>1. Booleans'
  BY DEF HostSeesStall, Listening, TransferOver
<1>2. Values'
  BY AsksFacts DEF HostSeesStall, Listening, TransferOver, Asks, Stages
<1>3. Control'
  BY DEF HostSeesStall, Listening, TransferOver, Stages, Supported, NoData, None
<1>4. AddressStep' /\ AddressHeld' /\ StallsTheUnsupported'
  BY DEF HostSeesStall, Listening, TransferOver, AddressStep, AddressHeld, StallsTheUnsupported,
         Stages, NoData, None
<1>5. Encoding'
  BY DEF HostSeesStall, Listening, TransferOver, Encoding, Stages, NoData, None
<1>6. Bank'
  BY <1>2, AsksFacts DEF HostSeesStall, Listening, TransferOver, Bank, Stages, NoData, None
<1>7. Reading'
  <2>1. hreq'.r # "GetDescriptor"
    BY DEF HostSeesStall, TransferOver, None
  <2> QED BY <2>1 DEF Reading
<1> QED BY <1>1, <1>2, <1>3, <1>4, <1>5, <1>6, <1>7

LEMMA GetDescriptorStep == ASSUME IInv, GetDescriptor PROVE IInv'
<1>0. /\ USB_ControlRequest' = hreq /\ hreq.r = "GetDescriptor"
      /\ Length' = Asked(hreq) /\ Length' \in Nat
  <2>1. USB_ControlRequest' = hreq /\ hreq.r = "GetDescriptor"
        /\ Length' = Min({hreq.v, hreq.wLength})
    BY DEF GetDescriptor, Accept
  <2>2. hreq.v \in Nat /\ hreq.wLength \in Nat /\ Asked(hreq) \in Nat
    BY <2>1, AsksFacts
  <2>3. Min({hreq.v, hreq.wLength}) = Asked(hreq)
    BY <2>1, AskedMin
  <2> QED BY <2>1, <2>2, <2>3
<1>1. Booleans'
  BY DEF GetDescriptor, Accept
<1>2. Values'
  BY <1>0 DEF GetDescriptor, Accept, Asks
<1>3. Control'
  BY <1>0 DEF GetDescriptor, Accept, Stages, NoData, None
<1>4. AddressStep' /\ AddressHeld' /\ StallsTheUnsupported'
  BY DEF GetDescriptor, Accept, AddressStep, AddressHeld, StallsTheUnsupported, Stages, NoData,
         None
<1>5. Encoding'
  BY DEF GetDescriptor, Accept, Encoding, Stages, NoData, None
<1>6. Bank'
  BY <1>2, AsksFacts DEF GetDescriptor, Accept, Bank, Stages, NoData, None
<1>7. Reading'
  <2>1. /\ in' = in /\ got' = got /\ hreq' = hreq /\ hstage' = hstage /\ early' = early
        /\ TXINI' = TXINI /\ overran' = overran
        /\ ~TXINI => overran /\ left'
    BY DEF GetDescriptor, Accept
  <2>2. in = <<>> /\ got = <<>> /\ hstage \in {"none", "dataIn"}
    BY <1>0 DEF GetDescriptor, Accept, Bank, Stages, None
  <2>3. Len(in') = 0 /\ Len(got') = 0 /\ Counted(got') /\ Counted(got' \o in')
    BY <2>1, <2>2 DEF Counted
  <2>4. Asked(hreq) \in Nat
    BY <1>0, AsksFacts
  <2>5. ~TXINI' => Stray' /\ in' = <<>>
    BY <2>1, <2>2 DEF Stray
  <2>6. pc' = "stream" => Len(got') + Len(in') = Asked(hreq') - Length'
    BY <1>0, <2>1, <2>3, <2>4
  <2>7. hstage' # "statusOut" /\ Len(got') <= Asked(hreq') /\ Len(got') + Len(in') <= Asked(hreq')
    BY <2>1, <2>2, <2>3, <2>4
  <2> QED BY <2>3, <2>5, <2>6, <2>7 DEF Reading
<1> QED BY <1>1, <1>2, <1>3, <1>4, <1>5, <1>6, <1>7

LEMMA StreamStep == ASSUME IInv, Stream PROVE IInv'
<1>0. /\ PacketLength \in Nat /\ PacketLength <= Length /\ Length' = Length - PacketLength
      /\ PacketLength <= USB_Device_ControlEndpointSize
      /\ PacketLength < USB_Device_ControlEndpointSize => PacketLength = Length
      /\ in' \in Seq(Nat) /\ Len(in') = PacketLength
      /\ \A j \in 1..PacketLength : in'[j] = Asked(USB_ControlRequest) - Length + j
  <2>1. PacketLength = IF Length <= USB_Device_ControlEndpointSize
                       THEN Length ELSE USB_Device_ControlEndpointSize
    BY MinPair DEF PacketLength
  <2> DEFINE n == Asked(USB_ControlRequest)
             v == USB_ControlRequest.v
  <2>2. n \in Nat /\ v \in Nat /\ n <= v /\ Length <= n /\ Length \in Nat
    BY AsksFacts DEF Stream
  <2>3. in' = SubSeq(Descriptor(v), n - Length + 1, n - Length + PacketLength)
    <3>1. Min({v, USB_ControlRequest.wLength}) = n
      BY AskedMin DEF Stream
    <3> QED BY <3>1 DEF Stream, DataStream
  <2>4. Descriptor(v) \in Seq(Nat) /\ Len(Descriptor(v)) = v /\ \A j \in 1..v : Descriptor(v)[j] = j
    BY <2>2 DEF Descriptor
  <2> HIDE DEF n, v
  <2>5. PacketLength \in Nat /\ PacketLength <= Length
    BY <2>1, <2>2
  <2>6. Len(in') = PacketLength /\ in' \in Seq(Nat)
        /\ \A j \in 1..PacketLength : in'[j] = n - Length + j
    <3>1. n - Length + 1 \in 1..v + 1 /\ n - Length + PacketLength \in n - Length..v
      BY <2>2, <2>5
    <3> DEFINE a == n - Length + 1
               b == n - Length + PacketLength
    <3>2. a \in Int /\ b \in Int /\ \A j \in a..b : Descriptor(v)[j] \in Nat
      BY <2>2, <2>4, <2>5
    <3>3. /\ SubSeq(Descriptor(v), a, b) \in Seq(Nat)
          /\ Len(SubSeq(Descriptor(v), a, b)) = IF a <= b THEN b - a + 1 ELSE 0
          /\ \A j \in 1..b - a + 1 : SubSeq(Descriptor(v), a, b)[j] = Descriptor(v)[a + j - 1]
      BY <3>2, <2>4, SubSeqProperties
    <3>4. b - a + 1 = PacketLength
      BY <2>2, <2>5
    <3>5. Len(in') = PacketLength
      BY <2>2, <2>3, <2>5, <3>3, <3>4
    <3>6. \A j \in 1..PacketLength : a + j - 1 \in 1..v /\ a + j - 1 = n - Length + j
      BY <2>2, <2>5
    <3> QED BY <2>3, <2>4, <3>3, <3>4, <3>5, <3>6
  <2> QED BY <2>1, <2>2, <2>5, <2>6 DEF Stream, n
<1>1. Booleans'
  BY DEF Stream
<1>2. Values'
  BY <1>0 DEF Stream
<1>3. Control'
  <2>1. Length' <= Asked(USB_ControlRequest)
    <3>1. Asked(USB_ControlRequest) \in Nat /\ Length <= Asked(USB_ControlRequest)
      BY AsksFacts DEF Stream
    <3> QED BY <1>0, <3>1
  <2> QED BY <2>1 DEF Stream
<1>4. AddressStep' /\ AddressHeld' /\ StallsTheUnsupported'
  BY DEF Stream, AddressStep, AddressHeld, StallsTheUnsupported, Stages, NoData, None
<1>5. Encoding'
  BY DEF Stream, Encoding, Stages, NoData, None
<1>6. Bank'
  BY <1>2, AsksFacts DEF Stream, Bank, Stages, NoData, None
<1>7. Reading'
  <2>1. TXINI /\ in = <<>>
    BY DEF Stream, Bank
  <2>2. CASE hreq.r = "GetDescriptor" /\ hstage = "dataIn" /\ ~STALLRQ
    <3>1. hreq = USB_ControlRequest /\ Len(got) = Asked(hreq) - Length
          /\ Counted(got) /\ got \o in = got /\ ~RXSTPI
      BY <2>1, <2>2 DEF Stream, Reading
    <3>2. Counted(got \o in')
      BY <1>0, <3>1 DEF Counted
    <3>3. Len(got) \in Nat /\ Len(in') \in Nat
      BY <1>0
    <3>4. Asked(hreq) \in Nat
      BY <2>2, AsksFacts
    <3>5. /\ Len(got) + Len(in') = Asked(hreq) - Length'
          /\ Len(got) + Len(in') <= Asked(hreq)
          /\ Len(in') < USB_Device_ControlEndpointSize => Len(got) + Len(in') = Asked(hreq)
      BY <1>0, <3>1, <3>3, <3>4
    <3>6. UNCHANGED <<got, hreq, hstage, early, RXSTPI, STALLRQ, pc>> /\ ~TXINI'
      BY DEF Stream
    <3>7. Counted(got') /\ Counted(got' \o in') /\ Len(got') <= Asked(hreq')
      BY <1>0, <3>1, <3>2, <3>3, <3>6, <3>4 DEF Counted
    <3>8. hreq'.r = "GetDescriptor" /\ hstage' = "dataIn" /\ ~RXSTPI' /\ ~STALLRQ' /\ ~TXINI'
      BY <2>2, <3>1, <3>6
    <3>9. /\ Len(got') + Len(in') <= Asked(hreq')
          /\ Len(got') + Len(in') = Asked(hreq') - Length'
          /\ Len(in') < USB_Device_ControlEndpointSize
               => Len(got') + Len(in') = Asked(hreq')
      BY <3>5, <3>6
    <3> QED BY <3>7, <3>8, <3>9 DEF Reading, Stray
  <2>3. CASE ~(hreq.r = "GetDescriptor" /\ hstage = "dataIn" /\ ~STALLRQ)
    BY <2>3 DEF Stream, Reading, Stray, Staged, Stages, Serving
  <2> QED BY <2>2, <2>3
<1> QED BY <1>1, <1>2, <1>3, <1>4, <1>5, <1>6, <1>7

-----------------------------------------------------------------------------
LEMMA NextIInv == ASSUME IInv, [Next]_vars PROVE IInv'
<1> USE DEF Next
<1>1. CASE Device
  BY <1>1, RefuseStep, ShortAnswerStep, GetLineEncodingStep, LineEncodingSentStep,
     NoDataRequestStep, SetLineEncodingStep, LineEncodingReceivedStep, StatusInStep,
     SetAddressStep, ApplyStep, SelectEndpointStep, ConfigureEndpointStep, StatusOutStep,
     GetDescriptorStep, StreamStep, StreamEndsStep, LastOutStep, EndStep DEF Device
<1>2. CASE Interrupt
  BY <1>2, EndOfResetStep, QuietStep DEF Interrupt
<1>3. CASE Transfer
  BY <1>3, HostReadsStep, HostWritesStep, HostReadsStatusStep, HostSeesStallStep DEF Transfer
<1>4. CASE Plug \/ Unplug \/ BusReset \/ BusSuspend \/ BusResume \/ HostSetup \/ UNCHANGED vars
  BY <1>4, UnplugStep, BusResetStep, HostSetupStep, QuietStep
<1> QED BY <1>1, <1>2, <1>3, <1>4

(* The invariant holds in every state of the device, the bus and the host. *)
THEOREM Invariance == Spec => []IInv
<1> HIDE DEF IInv
<1>1. Init => IInv
  BY InitIInv
<1>2. IInv /\ [Next]_vars => IInv'
  BY NextIInv
<1> QED BY <1>1, <1>2, PTL DEF Spec

(* The device takes a new address only when the status stage of SetAddress *)
(* is over (the wait in USB_Device_SetAddress): in the middle of a         *)
(* transfer it answers at the host's address, unless the host left.        *)
THEOREM AddressKept == Spec => []AddressHeld
<1>1. IInv => AddressHeld
  BY DEF IInv
<1> HIDE DEF IInv
<1> QED BY <1>1, Invariance, PTL

(* USB_Device_ProcessControlRequest stalls only what is not supported and  *)
(* what came while the handler of another request was still running,       *)
(* whether the host had given that one up or had only seen its end first.  *)
THEOREM StallsJustified == Spec => []StallsTheUnsupported
<1>1. IInv => StallsTheUnsupported
  BY DEF IInv
<1> HIDE DEF IInv
<1> QED BY <1>1, Invariance, PTL

(* CDC_Device_ConfigureEndpoints and the SetLineEncoding handler: between  *)
(* requests the baud rate is the one of this session.                      *)
THEOREM BaudKept == Spec => []BaudOfThisSession
<1>1. IInv => BaudOfThisSession
  BY DEF IInv, Encoding, BaudOfThisSession
<1> HIDE DEF IInv
<1> QED BY <1>1, Invariance, PTL

(* Endpoint_Write_Control_PStream_LE: whatever its size and that of the    *)
(* endpoint, the host reads a descriptor in order and without a gap, up to *)
(* the last byte that it asked for; or nothing of it, when the empty       *)
(* packet of a SetConfiguration that it gave up came first.                *)
THEOREM DescriptorsWhole == Spec => []DescriptorWhole
<1>1. IInv => DescriptorWhole
  <2> SUFFICES ASSUME IInv, hreq.r = "GetDescriptor"
               PROVE  /\ got = SubSeq(Descriptor(hreq.v), 1, Len(got))
                      /\ hstage = "statusOut" /\ ~early =>
                           Len(got) = Min({hreq.v, hreq.wLength}) \/ Stray
    BY DEF DescriptorWhole, Stray
  <2>1. /\ hreq.v \in Nat /\ hreq.wLength \in Nat /\ Asked(hreq) \in Nat
        /\ Asked(hreq) <= hreq.v
    BY AsksFacts
  <2>2. /\ Counted(got) /\ Len(got) <= Asked(hreq)
        /\ hstage = "statusOut" /\ ~early => Len(got) = Asked(hreq) \/ Stray
    BY DEF Reading
  <2>3. Min({hreq.v, hreq.wLength}) = Asked(hreq)
    BY AskedMin
  <2>4. /\ Descriptor(hreq.v) \in Seq(Nat)
        /\ \A j \in 1..hreq.v : Descriptor(hreq.v)[j] = j
    BY <2>1 DEF Descriptor
  <2> DEFINE d == Descriptor(hreq.v)
  <2> HIDE DEF d
  <2>5. Len(got) \in Nat /\ \A j \in 1..Len(got) : d[j] = j /\ d[j] \in Nat
    BY <2>1, <2>2, <2>4 DEF d
  <2>6. /\ SubSeq(d, 1, Len(got)) \in Seq(Nat)
        /\ Len(SubSeq(d, 1, Len(got))) = IF 1 <= Len(got) THEN Len(got) - 1 + 1 ELSE 0
        /\ \A j \in 1..Len(got) - 1 + 1 : SubSeq(d, 1, Len(got))[j] = d[1 + j - 1]
    BY <2>4, <2>5, SubSeqProperties DEF d
  <2>7. /\ Len(SubSeq(d, 1, Len(got))) = Len(got)
        /\ \A j \in 1..Len(got) : SubSeq(d, 1, Len(got))[j] = got[j]
    BY <2>2, <2>5, <2>6 DEF Counted
  <2>8. got = SubSeq(d, 1, Len(got))
    BY <2>6, <2>7, SeqEqual
  <2> QED BY <2>2, <2>3, <2>8 DEF d
<1> HIDE DEF IInv
<1> QED BY <1>1, Invariance, PTL
=============================================================================
