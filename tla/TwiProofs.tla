------------------------------ MODULE TwiProofs ------------------------------
(***************************************************************************)
(* Proofs about Twi, for every buffer length, every set of bytes and every *)
(* bound on the length of a call.                                          *)
(***************************************************************************)
EXTENDS Twi, SequenceTheorems, TLAPS

(* The driver is ready exactly when no transfer is open, and the hardware  *)
(* is at rest then and while the claimed driver has not sent the start.    *)
BusState ==
  /\ twi_state = TWI_READY <=> wire.end # Open
  /\ TWCR = "off" <=> twi_state = TWI_READY \/ pc = "start"
  /\ pc = "start" => twi_state # TWI_READY /\ twi_masterBufferIndex = 0
                                           /\ wire.moved = <<>>
  /\ TWCR = "start" => twi_masterBufferIndex = 0 /\ wire.moved = <<>>

(* The transfer on the bus is the one of the call the program is in. *)
Claimed ==
  /\ pc = "begin" => ~TooLong(call)
  /\ pc \in {"start", "wait"} => wire.call = call
  /\ ~TooLong(wire.call)

(* While a write is open: the buffer holds its data, and the index runs    *)
(* one ahead of the bytes moved while the hardware sends one.              *)
Sending ==
  wire.end = Open /\ wire.call.op = "write" =>
    /\ twi_state = TWI_MTX /\ twi_slarw = SLA_W /\ twi_error = NoError
    /\ twi_masterBufferLength = wire.call.length
    /\ \A i \in 0..wire.call.length-1 : twi_masterBuffer[i] = wire.call.data[i + 1]
    /\ TWCR # "nack"
    /\ TWCR \in {"ack", "int"} =>
         TW_STATUS \in {TW_START, TW_MT_SLA_ACK, TW_MT_SLA_NACK, TW_MT_DATA_ACK,
                        TW_MT_DATA_NACK, TW_MT_ARB_LOST, TW_BUS_ERROR}
    /\ TWCR = "ack" => TW_STATUS \in {TW_START, TW_MT_SLA_ACK, TW_MT_DATA_ACK}
    /\ TWCR = "ack" /\ TW_STATUS = TW_START =>
         TWDR = SLA_W /\ wire.moved = <<>> /\ twi_masterBufferIndex = 0
    /\ TWCR = "ack" /\ TW_STATUS # TW_START =>
         /\ twi_masterBufferIndex = Len(wire.moved) + 1
         /\ twi_masterBufferIndex <= wire.call.length
         /\ TWDR = wire.call.data[twi_masterBufferIndex]
    /\ TWCR = "int" /\ TW_STATUS \in {TW_START, TW_MT_SLA_ACK, TW_MT_DATA_ACK} =>
         twi_masterBufferIndex = Len(wire.moved)
    /\ TWCR = "int" /\ TW_STATUS \in {TW_START, TW_MT_SLA_ACK, TW_MT_SLA_NACK} =>
         twi_masterBufferIndex = 0 /\ wire.moved = <<>>
    /\ TWCR = "int" /\ TW_STATUS = TW_MT_DATA_NACK =>
         Len(wire.moved) < wire.call.length

(* While a read is open: the buffer holds the bytes received, but for the  *)
(* one that an interrupt is about to store, and the acknowledge is given   *)
(* as long as the byte asked for is not the last.                          *)
Receiving ==
  wire.end = Open /\ wire.call.op = "read" =>
    /\ twi_state = TWI_MRX /\ twi_slarw = SLA_R /\ twi_error = NoError
    /\ twi_masterBufferLength = wire.call.length - 1
    /\ TWCR \in {"ack", "nack", "int"} =>
         TW_STATUS \in {TW_START, TW_MR_SLA_ACK, TW_MR_SLA_NACK, TW_MR_DATA_ACK,
                        TW_MR_DATA_NACK, TW_MT_ARB_LOST, TW_BUS_ERROR}
    /\ TWCR \in {"ack", "nack"} =>
         /\ TW_STATUS \in {TW_START, TW_MR_SLA_ACK, TW_MR_DATA_ACK}
         /\ TW_STATUS = TW_START => TWCR = "ack" /\ TWDR = SLA_R /\ wire.moved = <<>>
         /\ TW_STATUS # TW_START =>
              (TWCR = "ack" <=> twi_masterBufferIndex < twi_masterBufferLength)
    /\ TWCR = "int" /\ TW_STATUS \in {TW_START, TW_MR_SLA_ACK, TW_MR_SLA_NACK} =>
         wire.moved = <<>>
    /\ IF TWCR = "int" /\ TW_STATUS \in {TW_MR_DATA_ACK, TW_MR_DATA_NACK}
       THEN /\ Len(wire.moved) = twi_masterBufferIndex + 1
            /\ TWDR = wire.moved[twi_masterBufferIndex + 1]
            /\ IF TW_STATUS = TW_MR_DATA_ACK
               THEN twi_masterBufferIndex < twi_masterBufferLength
               ELSE twi_masterBufferIndex = twi_masterBufferLength
       ELSE /\ Len(wire.moved) = twi_masterBufferIndex
            /\ twi_masterBufferIndex <= twi_masterBufferLength

Received ==
  wire.call.op = "read" =>
    \A i \in 1..twi_masterBufferIndex : twi_masterBuffer[i - 1] = wire.moved[i]

(* What the driver remembers of the last transfer once it is over. *)
Ended ==
  wire.end # Open =>
    /\ wire.call.op = "write" =>
         /\ wire.end \in {TW_MT_SLA_ACK, TW_MT_DATA_ACK} =>
              twi_error = NoError /\ wire.moved = wire.call.data
         /\ wire.end = TW_MT_SLA_NACK => twi_error = wire.end /\ wire.moved = <<>>
         /\ wire.end = TW_MT_DATA_NACK =>
              twi_error = wire.end /\ Len(wire.moved) < wire.call.length
         /\ wire.end \in {TW_MT_ARB_LOST, TW_BUS_ERROR} => twi_error = wire.end
         /\ wire.end \in {TW_MT_SLA_ACK, TW_MT_DATA_ACK, TW_MT_SLA_NACK,
                          TW_MT_DATA_NACK, TW_MT_ARB_LOST, TW_BUS_ERROR}
    /\ wire.call.op = "read" =>
         /\ Len(wire.moved) = twi_masterBufferIndex
         /\ twi_masterBufferIndex <= wire.call.length
         /\ twi_masterBufferIndex = wire.call.length <=> wire.end = TW_MR_DATA_NACK
         /\ wire.end = TW_MR_SLA_NACK => wire.moved = <<>>
         /\ wire.end \in {TW_START, TW_MR_SLA_NACK, TW_MR_DATA_NACK,
                          TW_MT_ARB_LOST, TW_BUS_ERROR}

(* What the caller was told. *)
Told ==
  pc = "idle" =>
    /\ ret.op \in {"none", call.op}
    /\ ret.op = "write" => (ret.code = 1 <=> TooLong(call))
    /\ ret.op = "write" /\ call.wait /\ ~TooLong(call) =>
         /\ wire.call = call /\ wire.end # Open
         /\ ret.code = ErrorCode(twi_error)
    /\ ret.op = "read" /\ ~TooLong(call) =>
         /\ wire.call = call /\ wire.end # Open
         /\ ret.data = wire.moved

IInv == /\ TypeOK /\ BusState /\ Claimed /\ Sending /\ Receiving /\ Received
        /\ Ended /\ Told /\ WireCarriesTheCall

-----------------------------------------------------------------------------
USE DEF TWI_READY, TWI_MRX, TWI_MTX, TW_START, TW_MT_SLA_ACK, TW_MT_SLA_NACK,
        TW_MT_DATA_ACK, TW_MT_DATA_NACK, TW_MT_ARB_LOST, TW_MR_SLA_ACK,
        TW_MR_SLA_NACK, TW_MR_DATA_ACK, TW_MR_DATA_NACK, TW_BUS_ERROR,
        NoError, Open, SLA_W, SLA_R

(* What the callers pass to twi_writeTo and twi_readFrom. *)
LEMMA CallFacts ==
  ASSUME NEW c \in Calls
  PROVE  /\ c.op \in {"read", "write"}
         /\ c.length \in Nat
         /\ c.wait \in BOOLEAN
         /\ c.data \in Seq(Byte)
         /\ c.op = "write" => Len(c.data) = c.length
         /\ c.op = "read" => c.length > 0 /\ c.wait
<1>1. CASE \E d \in BoundedSeq(Byte, MaxLength), w \in BOOLEAN : c = WriteCall(d, w)
  <2>1. PICK d \in BoundedSeq(Byte, MaxLength), w \in BOOLEAN : c = WriteCall(d, w)
    BY <1>1
  <2>2. d \in Seq(Byte)
    BY LengthAssumption DEF BoundedSeq
  <2> QED BY <2>1, <2>2 DEF WriteCall
<1>2. CASE \E n \in 1..MaxLength : c = ReadCall(n)
  BY <1>2, LengthAssumption DEF ReadCall
<1> QED BY <1>1, <1>2 DEF Calls

LEMMA NoCallIsCall == NoCall \in Calls
BY LengthAssumption DEF NoCall, Calls

(* The initial state satisfies the inductive invariant. *)
LEMMA InitIInv == Init => IInv
<1> SUFFICES ASSUME Init PROVE IInv
  OBVIOUS
<1>1. TypeOK
  BY NoCallIsCall, ByteAssumption, BufferAssumption
  DEF Init, TypeOK, NoResult, Errors, Statuses
<1>2. BusState /\ Claimed
  BY BufferAssumption DEF Init, BusState, Claimed, TooLong, NoCall, ReadCall
<1>3. Sending /\ Receiving /\ Received /\ WireCarriesTheCall
  BY DEF Init, Sending, Receiving, Received, WireCarriesTheCall, NoCall, ReadCall
<1>4. Ended /\ Told
  BY DEF Init, Ended, Told, NoCall, ReadCall, NoResult
<1> QED BY <1>1, <1>2, <1>3, <1>4 DEF IInv

(* One step of the main program, the handler or the hardware keeps the    *)
(* inductive invariant: an action each. *)

(* When an interrupt reports a received byte a read is open, the byte is   *)
(* the last one moved, and the buffer has room for it.                     *)
LEMMA StoreFacts ==
  ASSUME IInv, Interrupt({TW_MR_DATA_ACK, TW_MR_DATA_NACK})
  PROVE  /\ wire.end = Open /\ wire.call.op = "read"
         /\ twi_masterBufferIndex < TWI_BUFFER_LENGTH
         /\ Len(wire.moved) = twi_masterBufferIndex + 1
         /\ TWDR = wire.moved[twi_masterBufferIndex + 1]
         /\ TWDR \in Byte
<1>1. wire.end = Open
  BY DEF IInv, BusState, Interrupt
<1>2. wire.call.op = "read"
  BY <1>1, CallFacts DEF IInv, TypeOK, Sending, Interrupt
<1>3. /\ twi_masterBufferIndex < TWI_BUFFER_LENGTH
      /\ Len(wire.moved) = twi_masterBufferIndex + 1
      /\ TWDR = wire.moved[twi_masterBufferIndex + 1]
  BY <1>1, <1>2, CallFacts, BufferAssumption
  DEF IInv, TypeOK, Receiving, Claimed, TooLong, Interrupt
<1>4. TWDR \in Byte
  BY <1>3 DEF IInv, TypeOK
<1> QED BY <1>1, <1>2, <1>3, <1>4

(* When the hardware sends a byte a write is open and the byte is the next *)
(* one of its data.                                                        *)
LEMMA SendFacts ==
  ASSUME IInv, TWCR = "ack", TW_STATUS \in {TW_MT_SLA_ACK, TW_MT_DATA_ACK}
  PROVE  /\ wire.end = Open /\ wire.call.op = "write"
         /\ twi_masterBufferIndex = Len(wire.moved) + 1
         /\ twi_masterBufferIndex <= wire.call.length
         /\ TWDR = wire.call.data[twi_masterBufferIndex]
         /\ TWDR \in Byte
<1>1. wire.end = Open
  BY DEF IInv, BusState
<1>2. wire.call.op = "write"
  BY <1>1, CallFacts DEF IInv, TypeOK, Receiving
<1>3. /\ twi_masterBufferIndex = Len(wire.moved) + 1
      /\ twi_masterBufferIndex <= wire.call.length
      /\ TWDR = wire.call.data[twi_masterBufferIndex]
  BY <1>1, <1>2 DEF IInv, Sending
<1>4. TWDR \in Byte
  BY <1>2, <1>3, CallFacts DEF IInv, TypeOK
<1> QED BY <1>1, <1>2, <1>3, <1>4

LEMMA InvokeStep == ASSUME IInv, NEW c \in Calls, Invoke(c) PROVE IInv'
<1>1. TypeOK'
  <2>1. ret' \in [op : {"none", "read", "write"}, code : 0..4, data : Seq(Byte)]
    <3>1. [op |-> c.op, code |-> 1, data |-> <<>>]
            \in [op : {"none", "read", "write"}, code : 0..4, data : Seq(Byte)]
      BY CallFacts
    <3> QED BY <3>1 DEF IInv, TypeOK, Invoke
  <2> QED BY <2>1 DEF IInv, TypeOK, Invoke, driver, hardware
<1>2. BusState'
  BY DEF IInv, BusState, Invoke, driver, hardware
<1>3. Claimed'
  BY DEF IInv, Claimed, Invoke
<1>4. Sending'
  BY DEF IInv, Sending, Invoke, driver, hardware
<1>5. Receiving'
  BY DEF IInv, Receiving, Invoke, driver, hardware
<1>6. Received'
  BY DEF IInv, Received, Invoke, driver
<1>7. Ended'
  BY DEF IInv, Ended, Invoke, driver
<1>8. Told'
  BY DEF IInv, Told, Invoke
<1>9. WireCarriesTheCall'
  BY DEF IInv, WireCarriesTheCall, Invoke
<1> QED BY <1>1, <1>2, <1>3, <1>4, <1>5, <1>6, <1>7, <1>8, <1>9 DEF IInv

LEMMA BecomeMasterStep == ASSUME IInv, BecomeMaster PROVE IInv'
<1>1. TypeOK'
  <2>1. twi_masterBuffer' \in [0..TWI_BUFFER_LENGTH-1 -> Byte]
    BY CallFacts DEF IInv, TypeOK, BecomeMaster, SetUp
  <2>2. /\ twi_masterBufferLength' \in 0..TWI_BUFFER_LENGTH
        /\ twi_masterBufferIndex' \in 0..TWI_BUFFER_LENGTH
    BY CallFacts, BufferAssumption
    DEF IInv, TypeOK, Claimed, TooLong, BecomeMaster, SetUp
  <2>3. wire' \in [call : Calls, moved : Seq(Byte), end : Statuses \cup {Open}]
    BY DEF IInv, TypeOK, BecomeMaster, SetUp
  <2> QED BY <2>1, <2>2, <2>3
  DEF IInv, TypeOK, BecomeMaster, SetUp, hardware, Errors
<1>2. BusState'
  BY DEF IInv, BusState, BecomeMaster, SetUp, hardware
<1>3. Claimed'
  BY DEF IInv, Claimed, BecomeMaster, SetUp
<1>4. Sending'
  BY CallFacts, BufferAssumption
  DEF IInv, TypeOK, BusState, Claimed, Sending, Receiving, BecomeMaster, SetUp,
      TooLong, hardware
<1>5. Receiving'
  BY CallFacts DEF IInv, TypeOK, BusState, Receiving, BecomeMaster, SetUp, hardware
<1>6. Received'
  BY DEF IInv, Received, BecomeMaster, SetUp
<1>7. Ended'
  BY DEF IInv, Ended, BecomeMaster, SetUp
<1>8. Told'
  BY DEF IInv, Told, BecomeMaster, SetUp
<1>9. WireCarriesTheCall'
  BY DEF IInv, WireCarriesTheCall, Prefix, BecomeMaster, SetUp
<1> QED BY <1>1, <1>2, <1>3, <1>4, <1>5, <1>6, <1>7, <1>8, <1>9 DEF IInv

LEMMA SendStartStep == ASSUME IInv, SendStart PROVE IInv'
<1>1. TypeOK'
  BY DEF IInv, TypeOK, SendStart, driver
<1>2. BusState'
  BY DEF IInv, BusState, SendStart, driver
<1>3. Claimed'
  BY DEF IInv, Claimed, SendStart
<1>4. Sending'
  BY DEF IInv, Sending, SendStart, driver
<1>5. Receiving'
  BY DEF IInv, BusState, Receiving, SendStart, driver
<1>6. Received'
  BY DEF IInv, Received, SendStart, driver
<1>7. Ended'
  BY DEF IInv, Ended, SendStart, driver
<1>8. Told'
  BY DEF IInv, Told, SendStart
<1>9. WireCarriesTheCall'
  BY DEF IInv, WireCarriesTheCall, SendStart
<1> QED BY <1>1, <1>2, <1>3, <1>4, <1>5, <1>6, <1>7, <1>8, <1>9 DEF IInv

LEMMA ReturnWriteStep == ASSUME IInv, ReturnWrite PROVE IInv'
<1>1. TypeOK'
  BY DEF IInv, TypeOK, ReturnWrite, ErrorCode, driver, hardware
<1>2. BusState'
  BY DEF IInv, BusState, ReturnWrite, driver, hardware
<1>3. Claimed'
  BY DEF IInv, Claimed, ReturnWrite
<1>4. Sending'
  BY DEF IInv, Sending, ReturnWrite, driver, hardware
<1>5. Receiving'
  BY DEF IInv, Receiving, ReturnWrite, driver, hardware
<1>6. Received'
  BY DEF IInv, Received, ReturnWrite, driver
<1>7. Ended'
  BY DEF IInv, Ended, ReturnWrite, driver
<1>8. Told'
  BY DEF IInv, Claimed, Sending, Told, ErrorCode, ReturnWrite, driver
<1>9. WireCarriesTheCall'
  BY DEF IInv, WireCarriesTheCall, ReturnWrite
<1> QED BY <1>1, <1>2, <1>3, <1>4, <1>5, <1>6, <1>7, <1>8, <1>9 DEF IInv

LEMMA ReturnReadStep == ASSUME IInv, ReturnRead PROVE IInv'
<1>1. TypeOK'
  <2> DEFINE n == Smaller(twi_masterBufferIndex, call.length)
             data == [i \in 1..n |-> twi_masterBuffer[i - 1]]
  <2>1. n \in 0..TWI_BUFFER_LENGTH
    BY CallFacts, BufferAssumption DEF IInv, TypeOK, Smaller
  <2>2. data \in [1..n -> Byte]
    BY <2>1, BufferAssumption DEF IInv, TypeOK
  <2>3. data \in Seq(Byte)
    BY <2>1, <2>2
  <2> QED BY <2>3 DEF IInv, TypeOK, ReturnRead, driver, hardware
<1>2. BusState'
  BY DEF IInv, BusState, ReturnRead, driver, hardware
<1>3. Claimed'
  BY DEF IInv, Claimed, ReturnRead
<1>4. Sending'
  BY DEF IInv, Sending, ReturnRead, driver, hardware
<1>5. Receiving'
  BY DEF IInv, Receiving, ReturnRead
<1>6. Received'
  BY DEF IInv, Received, ReturnRead, driver
<1>7. Ended'
  BY DEF IInv, Ended, ReturnRead, driver
<1>8. Told'
  BY CallFacts
  DEF IInv, TypeOK, Claimed, Receiving, Received, Ended, Told, ReturnRead,
      Smaller
<1>9. WireCarriesTheCall'
  BY DEF IInv, WireCarriesTheCall, ReturnRead
<1> QED BY <1>1, <1>2, <1>3, <1>4, <1>5, <1>6, <1>7, <1>8, <1>9 DEF IInv

LEMMA IsrStartStep == ASSUME IInv, IsrStart PROVE IInv'
<1>1. TypeOK'
  BY DEF IInv, TypeOK, IsrStart, twi_reply, client, driver
<1>2. BusState'
  BY DEF IInv, BusState, IsrStart, Interrupt, twi_reply, client, driver
<1>3. Claimed'
  BY DEF IInv, Claimed, IsrStart, client
<1>4. Sending'
  BY DEF IInv, Sending, IsrStart, Interrupt, twi_reply, driver
<1>5. Receiving'
  BY DEF IInv, Receiving, IsrStart, Interrupt, twi_reply, driver
<1>6. Received'
  BY DEF IInv, Received, IsrStart, driver
<1>7. Ended'
  BY DEF IInv, Ended, IsrStart, driver
<1>8. Told'
  BY DEF IInv, Told, IsrStart, client, driver
<1>9. WireCarriesTheCall'
  BY DEF IInv, WireCarriesTheCall, IsrStart
<1> QED BY <1>1, <1>2, <1>3, <1>4, <1>5, <1>6, <1>7, <1>8, <1>9 DEF IInv

LEMMA IsrTransmitStep == ASSUME IInv, IsrTransmit PROVE IInv'
<1>1. TypeOK'
  BY BufferAssumption
  DEF IInv, TypeOK, IsrTransmit, Interrupt, twi_reply, twi_stop, client
<1>2. BusState'
  BY DEF IInv, TypeOK, BusState, IsrTransmit, Interrupt, twi_reply, twi_stop, client
<1>3. Claimed'
  BY DEF IInv, TypeOK, Claimed, IsrTransmit, twi_stop, client
<1>4. Sending'
  <2> SUFFICES ASSUME wire'.end = Open, wire'.call.op = "write" PROVE Sending'
    BY DEF Sending
  <2>1. /\ twi_masterBufferIndex < twi_masterBufferLength
        /\ TWDR' = twi_masterBuffer[twi_masterBufferIndex]
        /\ twi_masterBufferIndex' = twi_masterBufferIndex + 1
        /\ TWCR' = "ack"
        /\ UNCHANGED <<twi_state, wire>>
    BY DEF IInv, TypeOK, Statuses, IsrTransmit, Interrupt, twi_reply, twi_stop
  <2> QED BY <2>1, CallFacts DEF IInv, TypeOK, Sending, IsrTransmit, Interrupt
<1>5. Receiving'
  BY DEF IInv, TypeOK, Receiving, IsrTransmit, Interrupt, twi_stop
<1>6. Received'
  BY DEF IInv, TypeOK, BusState, Receiving, Received, IsrTransmit, Interrupt,
         twi_stop
<1>7. Ended'
  <2> SUFFICES ASSUME wire'.end # Open PROVE Ended'
    BY DEF Ended
  <2>1. /\ wire.end = Open /\ wire.call.op = "write"
        /\ twi_masterBufferIndex >= twi_masterBufferLength
        /\ wire' = [wire EXCEPT !.end = TW_STATUS]
    BY CallFacts
    DEF IInv, TypeOK, BusState, Receiving, IsrTransmit, Interrupt, twi_stop
  <2>2. Len(wire.moved) = Len(wire.call.data) /\ twi_error = NoError
    BY <2>1, CallFacts
    DEF IInv, TypeOK, Sending, WireCarriesTheCall, Prefix, IsrTransmit, Interrupt
  <2>3. wire.moved = wire.call.data
    <3>1. \A i \in 1..Len(wire.moved) : wire.moved[i] = wire.call.data[i]
      BY <2>1 DEF IInv, WireCarriesTheCall, Prefix
    <3>2. wire.moved \in Seq(Byte) /\ wire.call.data \in Seq(Byte)
      BY CallFacts DEF IInv, TypeOK
    <3> QED BY <2>2, <3>1, <3>2, SeqEqual
  <2> QED BY <2>1, <2>2, <2>3 DEF IInv, TypeOK, Ended, IsrTransmit, Interrupt
<1>8. Told'
  BY DEF IInv, TypeOK, Told, IsrTransmit, Interrupt, twi_stop, client
<1>9. WireCarriesTheCall'
  BY DEF IInv, TypeOK, WireCarriesTheCall, IsrTransmit, twi_stop
<1> QED BY <1>1, <1>2, <1>3, <1>4, <1>5, <1>6, <1>7, <1>8, <1>9 DEF IInv

LEMMA IsrTransmitNackStep == ASSUME IInv, IsrTransmitNack PROVE IInv'
<1>1. TypeOK'
  BY DEF IInv, TypeOK, IsrTransmitNack, Interrupt, twi_stop, client, Errors
<1>2. BusState'
  BY DEF IInv, BusState, IsrTransmitNack, Interrupt, twi_stop, client
<1>3. Claimed'
  BY DEF IInv, Claimed, IsrTransmitNack, twi_stop, client
<1>4. Sending'
  BY DEF IInv, Sending, IsrTransmitNack, Interrupt, twi_stop
<1>5. Receiving'
  BY DEF IInv, Receiving, IsrTransmitNack, Interrupt, twi_stop
<1>6. Received'
  BY DEF IInv, Received, IsrTransmitNack, twi_stop
<1>7. Ended'
  BY DEF IInv, BusState, Sending, Receiving, Ended, IsrTransmitNack, Interrupt,
         twi_stop
<1>8. Told'
  BY DEF IInv, BusState, Told, IsrTransmitNack, Interrupt, client
<1>9. WireCarriesTheCall'
  BY DEF IInv, WireCarriesTheCall, IsrTransmitNack, twi_stop
<1> QED BY <1>1, <1>2, <1>3, <1>4, <1>5, <1>6, <1>7, <1>8, <1>9 DEF IInv

LEMMA IsrArbitrationLostStep == ASSUME IInv, IsrArbitrationLost PROVE IInv'
<1>1. TypeOK'
  BY DEF IInv, TypeOK, Errors, IsrArbitrationLost, twi_releaseBus, client
<1>2. BusState'
  BY DEF IInv, BusState, IsrArbitrationLost, Interrupt, twi_releaseBus, client
<1>3. Claimed'
  BY DEF IInv, Claimed, IsrArbitrationLost, twi_releaseBus, client
<1>4. Sending'
  BY DEF IInv, Sending, IsrArbitrationLost, Interrupt, twi_releaseBus
<1>5. Receiving'
  BY DEF IInv, Receiving, IsrArbitrationLost, Interrupt, twi_releaseBus
<1>6. Received'
  BY DEF IInv, Received, IsrArbitrationLost, twi_releaseBus
<1>7. Ended'
  BY CallFacts
  DEF IInv, TypeOK, BusState, Receiving, Ended, IsrArbitrationLost, Interrupt,
      twi_releaseBus
<1>8. Told'
  BY DEF IInv, BusState, Told, IsrArbitrationLost, Interrupt, client
<1>9. WireCarriesTheCall'
  BY DEF IInv, WireCarriesTheCall, IsrArbitrationLost, twi_releaseBus
<1> QED BY <1>1, <1>2, <1>3, <1>4, <1>5, <1>6, <1>7, <1>8, <1>9 DEF IInv

LEMMA IsrReceiveStep == ASSUME IInv, IsrReceive PROVE IInv'
<1>1. TypeOK'
  <2>1. CASE TW_STATUS = TW_MR_DATA_ACK
    BY <2>1, StoreFacts, BufferAssumption
    DEF IInv, TypeOK, IsrReceive, Interrupt, StoreByte, twi_reply, client
  <2>2. CASE TW_STATUS = TW_MR_SLA_ACK
    BY <2>2 DEF IInv, TypeOK, IsrReceive, Interrupt, StoreByte, twi_reply, client
  <2> QED BY <2>1, <2>2 DEF IsrReceive, Interrupt
<1>2. BusState'
  BY DEF IInv, BusState, IsrReceive, Interrupt, twi_reply, client
<1>3. Claimed'
  BY DEF IInv, Claimed, IsrReceive, client
<1>4. Sending'
  BY DEF IInv, Sending, IsrReceive, Interrupt
<1>5. Receiving'
  BY DEF IInv, TypeOK, Receiving, IsrReceive, Interrupt, StoreByte, twi_reply
<1>6. Received'
  BY BufferAssumption
  DEF IInv, TypeOK, BusState, Receiving, Received, IsrReceive, Interrupt,
      StoreByte
<1>7. Ended'
  BY DEF IInv, BusState, Ended, IsrReceive, Interrupt
<1>8. Told'
  BY DEF IInv, Told, IsrReceive, client
<1>9. WireCarriesTheCall'
  BY DEF IInv, WireCarriesTheCall, IsrReceive
<1> QED BY <1>1, <1>2, <1>3, <1>4, <1>5, <1>6, <1>7, <1>8, <1>9 DEF IInv

LEMMA IsrReceiveLastStep == ASSUME IInv, IsrReceiveLast PROVE IInv'
<1>1. TypeOK'
  <2>1. CASE TW_STATUS = TW_MR_DATA_NACK
    <3>1. /\ twi_masterBuffer' \in [0..TWI_BUFFER_LENGTH-1 -> Byte]
          /\ twi_masterBufferIndex' \in 0..TWI_BUFFER_LENGTH
      BY <2>1, StoreFacts, BufferAssumption
      DEF IInv, TypeOK, IsrReceiveLast, Interrupt, StoreByte
    <3> QED BY <3>1 DEF IInv, TypeOK, IsrReceiveLast, twi_stop, client
  <2>2. CASE TW_STATUS = TW_MR_SLA_NACK
    BY <2>2 DEF IInv, TypeOK, IsrReceiveLast, Interrupt, StoreByte, twi_stop, client
  <2> QED BY <2>1, <2>2 DEF IsrReceiveLast, Interrupt
<1>2. BusState'
  BY DEF IInv, BusState, IsrReceiveLast, Interrupt, twi_stop, client
<1>3. Claimed'
  BY DEF IInv, Claimed, IsrReceiveLast, twi_stop, client
<1>4. Sending'
  BY DEF IInv, Sending, IsrReceiveLast, twi_stop
<1>5. Receiving'
  BY DEF IInv, Receiving, IsrReceiveLast, twi_stop
<1>6. Received'
  <2>1. CASE TW_STATUS = TW_MR_DATA_NACK
    <3>1. /\ twi_masterBuffer' = [twi_masterBuffer EXCEPT ![twi_masterBufferIndex] = TWDR]
          /\ twi_masterBufferIndex' = twi_masterBufferIndex + 1
          /\ wire'.moved = wire.moved /\ wire'.call = wire.call
      BY <2>1 DEF IInv, TypeOK, IsrReceiveLast, StoreByte, twi_stop
    <3>2. /\ wire.call.op = "read"
          /\ TWDR = wire.moved[twi_masterBufferIndex + 1]
          /\ twi_masterBufferIndex \in 0..TWI_BUFFER_LENGTH-1
      BY <2>1, StoreFacts, BufferAssumption
      DEF IInv, TypeOK, IsrReceiveLast, Interrupt
    <3> SUFFICES ASSUME NEW i \in 1..twi_masterBufferIndex'
                 PROVE  twi_masterBuffer'[i - 1] = wire'.moved[i]
      BY DEF Received
    <3>3. i \in 1..twi_masterBufferIndex + 1 /\ twi_masterBufferIndex \in Nat
      BY <3>1 DEF IInv, TypeOK
    <3>4. CASE i = twi_masterBufferIndex + 1
      BY <3>1, <3>2, <3>3, <3>4 DEF IInv, TypeOK
    <3>5. CASE i \in 1..twi_masterBufferIndex
      BY <3>1, <3>2, <3>3, <3>5 DEF IInv, TypeOK, Received
    <3> QED BY <3>3, <3>4, <3>5
  <2>2. CASE TW_STATUS = TW_MR_SLA_NACK
    BY <2>2 DEF IInv, TypeOK, Received, IsrReceiveLast, Interrupt, twi_stop
  <2> QED BY <2>1, <2>2 DEF IsrReceiveLast, Interrupt
<1>7. Ended'
  BY CallFacts
  DEF IInv, TypeOK, BusState, Sending, Receiving, Ended, IsrReceiveLast,
      Interrupt, StoreByte, twi_stop
<1>8. Told'
  BY DEF IInv, Told, IsrReceiveLast, twi_stop, client
<1>9. WireCarriesTheCall'
  BY DEF IInv, WireCarriesTheCall, IsrReceiveLast, twi_stop
<1> QED BY <1>1, <1>2, <1>3, <1>4, <1>5, <1>6, <1>7, <1>8, <1>9 DEF IInv

LEMMA IsrBusErrorStep == ASSUME IInv, IsrBusError PROVE IInv'
<1>1. TypeOK'
  BY DEF IInv, TypeOK, Errors, IsrBusError, twi_stop, client
<1>2. BusState'
  BY DEF IInv, BusState, IsrBusError, Interrupt, twi_stop, client
<1>3. Claimed'
  BY DEF IInv, Claimed, IsrBusError, twi_stop, client
<1>4. Sending'
  BY DEF IInv, Sending, IsrBusError, Interrupt, twi_stop
<1>5. Receiving'
  BY DEF IInv, Receiving, IsrBusError, Interrupt, twi_stop
<1>6. Received'
  BY DEF IInv, Received, IsrBusError, twi_stop
<1>7. Ended'
  BY CallFacts
  DEF IInv, TypeOK, BusState, Receiving, Ended, IsrBusError, Interrupt, twi_stop
<1>8. Told'
  BY DEF IInv, BusState, Told, IsrBusError, Interrupt, client
<1>9. WireCarriesTheCall'
  BY DEF IInv, WireCarriesTheCall, IsrBusError, twi_stop
<1> QED BY <1>1, <1>2, <1>3, <1>4, <1>5, <1>6, <1>7, <1>8, <1>9 DEF IInv

LEMMA HwStartStep == ASSUME IInv, HwStart PROVE IInv'
<1>1. TypeOK'
  BY DEF IInv, TypeOK, Statuses, HwStart, Signal, client, driver
<1>2. BusState'
  BY DEF IInv, BusState, HwStart, Signal, client, driver
<1>3. Claimed'
  BY DEF IInv, Claimed, HwStart, client
<1>4. Sending'
  BY DEF IInv, BusState, Sending, HwStart, Signal, driver
<1>5. Receiving'
  BY DEF IInv, BusState, Receiving, HwStart, Signal, driver
<1>6. Received'
  BY DEF IInv, Received, HwStart, driver
<1>7. Ended'
  BY DEF IInv, Ended, HwStart, driver
<1>8. Told'
  BY DEF IInv, Told, HwStart, client, driver
<1>9. WireCarriesTheCall'
  BY DEF IInv, WireCarriesTheCall, HwStart
<1> QED BY <1>1, <1>2, <1>3, <1>4, <1>5, <1>6, <1>7, <1>8, <1>9 DEF IInv

LEMMA HwAddressStep == ASSUME IInv, HwAddress PROVE IInv'
<1>1. TypeOK'
  BY DEF IInv, TypeOK, Statuses, HwAddress, Signal, client, driver
<1>2. BusState'
  BY DEF IInv, BusState, HwAddress, Signal, client, driver
<1>3. Claimed'
  BY DEF IInv, Claimed, HwAddress, client
<1>4. Sending'
  BY DEF IInv, Sending, HwAddress, Signal, driver
<1>5. Receiving'
  BY DEF IInv, Receiving, HwAddress, Signal, driver
<1>6. Received'
  BY DEF IInv, Received, HwAddress, driver
<1>7. Ended'
  BY DEF IInv, Ended, HwAddress, driver
<1>8. Told'
  BY DEF IInv, Told, HwAddress, client, driver
<1>9. WireCarriesTheCall'
  BY DEF IInv, WireCarriesTheCall, HwAddress
<1> QED BY <1>1, <1>2, <1>3, <1>4, <1>5, <1>6, <1>7, <1>8, <1>9 DEF IInv

LEMMA HwTransmitStep == ASSUME IInv, HwTransmit PROVE IInv'
<1>1. TypeOK'
  <2>1. Append(wire.moved, TWDR) \in Seq(Byte)
    BY SendFacts DEF IInv, TypeOK, HwTransmit
  <2>2. wire' \in [call : Calls, moved : Seq(Byte), end : Statuses \cup {Open}]
    BY <2>1 DEF IInv, TypeOK, HwTransmit
  <2> QED BY <2>2 DEF IInv, TypeOK, HwTransmit, Signal, client, driver, Statuses
<1>2. BusState'
  BY DEF IInv, TypeOK, BusState, HwTransmit, Signal, client, driver
<1>3. Claimed'
  BY DEF IInv, TypeOK, Claimed, HwTransmit, client
<1>4. Sending'
  <2>1. /\ wire.end = Open /\ wire.call.op = "write"
        /\ twi_masterBufferIndex = Len(wire.moved) + 1
        /\ twi_masterBufferIndex <= wire.call.length
    BY SendFacts DEF HwTransmit
  <2>2. CASE TW_STATUS' = TW_MT_DATA_ACK
    <3>1. /\ wire'.call = wire.call /\ wire'.end = Open
          /\ Len(wire'.moved) = Len(wire.moved) + 1
      BY <2>1, <2>2 DEF IInv, TypeOK, HwTransmit, Signal
    <3> QED BY <2>1, <2>2, <3>1
    DEF IInv, TypeOK, Sending, HwTransmit, Signal, driver
  <2>3. CASE TW_STATUS' = TW_MT_DATA_NACK
    BY <2>1, <2>3 DEF IInv, TypeOK, Sending, HwTransmit, Signal, driver
  <2> QED BY <2>2, <2>3 DEF HwTransmit, Signal
<1>5. Receiving'
  BY DEF IInv, TypeOK, Receiving, HwTransmit
<1>6. Received'
  BY DEF IInv, TypeOK, BusState, Receiving, Received, HwTransmit
<1>7. Ended'
  BY DEF IInv, TypeOK, BusState, Ended, HwTransmit
<1>8. Told'
  BY DEF IInv, BusState, Told, HwTransmit, client
<1>9. WireCarriesTheCall'
  <2>1. /\ wire.call.op = "write"
        /\ Len(wire.moved) + 1 <= Len(wire.call.data)
        /\ TWDR = wire.call.data[Len(wire.moved) + 1]
    BY SendFacts, CallFacts DEF IInv, TypeOK, HwTransmit
  <2>2. wire'.call = wire.call /\ wire'.moved \in {wire.moved, Append(wire.moved, TWDR)}
    BY DEF IInv, TypeOK, HwTransmit
  <2>3. Prefix(Append(wire.moved, TWDR), wire.call.data)
    BY <2>1, CallFacts, SendFacts
    DEF IInv, TypeOK, WireCarriesTheCall, Prefix, HwTransmit
  <2> QED BY <2>1, <2>2, <2>3 DEF IInv, WireCarriesTheCall
<1> QED BY <1>1, <1>2, <1>3, <1>4, <1>5, <1>6, <1>7, <1>8, <1>9 DEF IInv

LEMMA HwReceiveStep == ASSUME IInv, HwReceive PROVE IInv'
<1>1. TypeOK'
  <2>1. PICK b \in Byte : TWDR' = b /\ wire' = [wire EXCEPT !.moved = Append(@, b)]
    BY DEF HwReceive
  <2>2. Append(wire.moved, b) \in Seq(Byte)
    BY DEF IInv, TypeOK
  <2>3. wire' \in [call : Calls, moved : Seq(Byte), end : Statuses \cup {Open}]
    BY <2>1, <2>2 DEF IInv, TypeOK
  <2> QED BY <2>1, <2>3
  DEF IInv, TypeOK, HwReceive, Signal, client, driver, Statuses
<1>2. BusState'
  BY DEF IInv, BusState, HwReceive, Signal, client, driver
<1>3. Claimed'
  BY DEF IInv, Claimed, HwReceive, client
<1>4. Sending'
  BY DEF IInv, Sending, HwReceive
<1>5. Receiving'
  BY DEF IInv, TypeOK, Receiving, HwReceive, Signal, driver
<1>6. Received'
  BY DEF IInv, BusState, Receiving, Received, HwReceive, driver
<1>7. Ended'
  BY DEF IInv, BusState, Ended, HwReceive
<1>8. Told'
  BY DEF IInv, BusState, Told, HwReceive, client
<1>9. WireCarriesTheCall'
  BY DEF IInv, BusState, Sending, WireCarriesTheCall, HwReceive
<1> QED BY <1>1, <1>2, <1>3, <1>4, <1>5, <1>6, <1>7, <1>8, <1>9 DEF IInv

LEMMA HwFaultStep == ASSUME IInv, HwFault PROVE IInv'
<1>1. TypeOK'
  BY DEF IInv, TypeOK, Statuses, HwFault, Signal, client, driver
<1>2. BusState'
  BY DEF IInv, BusState, HwFault, Signal, client, driver
<1>3. Claimed'
  BY DEF IInv, Claimed, HwFault, client
<1>4. Sending'
  BY DEF IInv, Sending, HwFault, Signal, driver
<1>5. Receiving'
  BY DEF IInv, Receiving, HwFault, Signal, driver
<1>6. Received'
  BY DEF IInv, Received, HwFault, driver
<1>7. Ended'
  BY DEF IInv, Ended, HwFault, driver
<1>8. Told'
  BY DEF IInv, Told, HwFault, client, driver
<1>9. WireCarriesTheCall'
  BY DEF IInv, WireCarriesTheCall, HwFault
<1> QED BY <1>1, <1>2, <1>3, <1>4, <1>5, <1>6, <1>7, <1>8, <1>9 DEF IInv

(***************************************************************************)
(* The inductive invariant holds in every reachable state.                 *)
(***************************************************************************)
THEOREM Invariance == Spec => []IInv
<1>1. IInv /\ [Next]_vars => IInv'
  <2> SUFFICES ASSUME IInv, [Next]_vars PROVE IInv'
    OBVIOUS
  <2>1. CASE UNCHANGED vars
    BY <2>1 DEF IInv, vars, client, driver, hardware, TypeOK, BusState, Claimed,
       Sending, Receiving, Received, Ended, Told, WireCarriesTheCall
  <2>2. ASSUME NEW c \in Calls, Invoke(c) PROVE IInv'
    BY <2>2, InvokeStep
  <2>3. CASE Main
    BY <2>3, BecomeMasterStep, SendStartStep, ReturnWriteStep, ReturnReadStep
    DEF Main
  <2>4. CASE TWI_vect
    BY <2>4, IsrStartStep, IsrTransmitStep, IsrTransmitNackStep,
       IsrArbitrationLostStep, IsrReceiveStep, IsrReceiveLastStep, IsrBusErrorStep
    DEF TWI_vect
  <2>5. CASE Hardware
    BY <2>5, HwStartStep, HwAddressStep, HwTransmitStep, HwReceiveStep, HwFaultStep
    DEF Hardware
  <2> QED BY <2>1, <2>2, <2>3, <2>4, <2>5 DEF Next
<1> QED BY InitIInv, <1>1, PTL DEF Spec

(* Every variable of the driver keeps its type: in particular the index    *)
(* and the length that TWI_vect works with never leave the buffer.         *)
THEOREM TypeCorrect == Spec => []TypeOK
BY Invariance, PTL DEF IInv

(* What the slave takes is a prefix of the data of the call on the bus,    *)
(* although the buffer is refilled by calls that did not wait.             *)
THEOREM WireCorrect == Spec => []WireCarriesTheCall
BY Invariance, PTL DEF IInv

(* TWI_vect never stores a byte outside twi_masterBuffer and the bus never *)
(* carries a byte more than the call asked for.                            *)
THEOREM BoundsCorrect == Spec => []NoByteTooMany
<1>1. IInv => NoByteTooMany
  <2> SUFFICES ASSUME IInv PROVE NoByteTooMany
    OBVIOUS
  <2>1. Len(wire.moved) <= wire.call.length
    <3>1. CASE wire.call.op = "write"
      BY <3>1, CallFacts DEF IInv, TypeOK, WireCarriesTheCall, Prefix
    <3>2. CASE wire.call.op = "read"
      BY <3>2, CallFacts DEF IInv, TypeOK, Receiving, Ended
    <3> QED BY <3>1, <3>2, CallFacts DEF IInv, TypeOK
  <2> QED BY <2>1, StoreFacts DEF NoByteTooMany, Interrupt
<1> QED BY Invariance, <1>1, PTL

(* The code of a twi_writeTo that waited tells what became of its bytes.   *)
THEOREM WriteAnswerCorrect == Spec => []WaitedWriteAnswer
<1>1. IInv => WaitedWriteAnswer
  BY CallFacts
  DEF IInv, TypeOK, Ended, Told, TooLong, ErrorCode, Errors, WaitedWriteAnswer
<1> QED BY Invariance, <1>1, PTL

(* The bytes twi_readFrom returned are the bytes the slave sent for it.    *)
THEOREM ReadAnswerCorrect == Spec => []ReadAnswer
<1>1. IInv => ReadAnswer
  BY CallFacts DEF IInv, TypeOK, Ended, Told, ReadAnswer
<1> QED BY Invariance, <1>1, PTL

-----------------------------------------------------------------------------
(* The driver implements TwiPort. *)

LEMMA InitPort == Init => Port!Init
BY NoCallIsCall DEF Init, Port!Init, CallerOf, XferOf, EndOf, NoResult

LEMMA InvokePort == ASSUME IInv, NEW c \in Calls, Invoke(c) PROVE Port!Ask(c)
BY CallFacts, BufferAssumption
DEF Invoke, TooLong, Port!Ask, CallerOf, XferOf, EndOf

LEMMA BecomeMasterPort == ASSUME IInv, BecomeMaster PROVE Port!Begin
<1>1. wire.end # Open /\ wire.end \in Statuses
  BY DEF IInv, TypeOK, BusState, BecomeMaster
<1> QED BY <1>1
DEF BecomeMaster, SetUp, Port!Begin, CallerOf, XferOf, EndOf, Statuses

LEMMA ReturnWritePort == ASSUME IInv, ReturnWrite PROVE Port!Answer
<1>1. wire.call = call /\ (call.wait => wire.end # Open)
  BY DEF IInv, Claimed, Sending, ReturnWrite
<1>2. ErrorCode(twi_error) = Port!Code(EndOf(wire.end))
  BY <1>1 DEF IInv, Sending, Ended, ReturnWrite, ErrorCode, Port!Code, EndOf
<1>3. call.wait => EndOf(wire.end) # "open"
  BY <1>1 DEF IInv, TypeOK, EndOf, Statuses
<1> QED BY <1>2, <1>3 DEF ReturnWrite, Port!Answer, CallerOf, XferOf

LEMMA ReturnReadPort == ASSUME IInv, ReturnRead PROVE Port!Answer
<1>1. wire.call = call /\ wire.end # Open /\ ~TooLong(call)
  BY CallFacts DEF IInv, TypeOK, Claimed, Receiving, ReturnRead
<1>2. ret'.data = wire.moved
  BY <1>1, ReturnReadStep DEF IInv, Told, TooLong, ReturnRead
<1>3. EndOf(wire.end) # "open"
  BY <1>1 DEF IInv, TypeOK, EndOf, Statuses
<1>4. ret' = [op |-> "read", code |-> 0, data |-> wire.moved]
  BY <1>2 DEF ReturnRead
<1> QED BY <1>3, <1>4 DEF ReturnRead, Port!Answer, CallerOf, XferOf

LEMMA HwTransmitPort ==
  ASSUME IInv, HwTransmit PROVE Port!Move \/ UNCHANGED Port!vars
<1>1. CASE wire' = wire
  BY <1>1 DEF HwTransmit, client, Port!vars, CallerOf, XferOf, EndOf
<1>2. CASE wire' = [wire EXCEPT !.moved = Append(@, TWDR)]
  <2>1. /\ wire.end = Open
        /\ Len(wire.moved) < wire.call.length
        /\ TWDR = wire.call.data[Len(wire.moved) + 1]
        /\ TWDR \in Byte
    BY SendFacts, CallFacts DEF IInv, TypeOK, HwTransmit
  <2>2. /\ wire'.call = wire.call /\ wire'.end = wire.end
        /\ wire'.moved = Append(wire.moved, TWDR)
    BY <1>2 DEF IInv, TypeOK
  <2> QED BY <2>1, <2>2 DEF HwTransmit, client, Port!Move, CallerOf, XferOf, EndOf
<1> QED BY <1>1, <1>2 DEF HwTransmit

LEMMA HwReceivePort == ASSUME IInv, HwReceive PROVE Port!Move
<1>1. PICK b \in Byte : wire' = [wire EXCEPT !.moved = Append(@, b)]
  BY DEF HwReceive
<1>2. wire.end = Open /\ wire.call.op = "read"
  BY CallFacts DEF IInv, TypeOK, BusState, Sending, HwReceive
<1>3. Len(wire.moved) < wire.call.length
  BY <1>2, CallFacts DEF IInv, TypeOK, Receiving, HwReceive
<1>4. /\ wire'.call = wire.call /\ wire'.end = wire.end
      /\ wire'.moved = Append(wire.moved, b)
  BY <1>1 DEF IInv, TypeOK
<1> QED BY <1>2, <1>3, <1>4
DEF HwReceive, client, Port!Move, CallerOf, XferOf, EndOf

(* A stop condition, or the release of the bus, ends the transfer. *)
LEMMA StopPort ==
  ASSUME IInv, NEW e \in {"done", "address", "data", "fault"},
         wire' = [wire EXCEPT !.end = TW_STATUS], UNCHANGED client,
         TWCR = "int", EndOf(TW_STATUS) = e,
         e = "done" => Len(wire.moved) = wire.call.length,
         e = "address" => wire.moved = <<>>,
         e = "data" => Len(wire.moved) < wire.call.length /\ wire.call.op = "write"
  PROVE  \E x \in Port!Ends : Port!End(x)
<1>1. wire.end = Open
  BY DEF IInv, BusState
<1>2. XferOf' = [XferOf EXCEPT !.end = e]
  BY DEF IInv, TypeOK, XferOf
<1>3. Port!End(e)
  BY <1>1, <1>2 DEF Port!End, client, CallerOf, XferOf, EndOf
<1> QED BY <1>3 DEF Port!Ends

LEMMA TWI_vectPort ==
  ASSUME IInv, TWI_vect
  PROVE  (\E e \in Port!Ends : Port!End(e)) \/ UNCHANGED Port!vars
<1>0. ASSUME UNCHANGED <<client, wire>> PROVE UNCHANGED Port!vars
  BY <1>0 DEF client, Port!vars, CallerOf, XferOf, EndOf
<1>1. CASE IsrStart
  BY <1>0, <1>1 DEF IsrStart
<1>2. CASE IsrTransmit
  <2>0. twi_masterBufferIndex \in Int /\ twi_masterBufferLength \in Int
    BY BufferAssumption DEF IInv, TypeOK
  <2>1. CASE twi_masterBufferIndex < twi_masterBufferLength
    <3>1. UNCHANGED <<client, wire>>
      BY <1>2, <2>0, <2>1 DEF IsrTransmit, client, twi_stop, twi_reply
    <3> QED BY <1>0, <3>1
  <2>2. CASE twi_masterBufferIndex >= twi_masterBufferLength
    <3>1. /\ wire' = [wire EXCEPT !.end = TW_STATUS] /\ UNCHANGED client
          /\ TWCR = "int" /\ TW_STATUS \in {TW_MT_SLA_ACK, TW_MT_DATA_ACK}
      BY <1>2, <2>0, <2>2 DEF IsrTransmit, Interrupt, twi_stop, twi_reply, client
    <3>2. wire.end = Open /\ wire.call.op = "write"
      BY <3>1, CallFacts DEF IInv, TypeOK, BusState, Receiving
    <3>3. Len(wire.moved) = wire.call.length
      BY <2>2, <3>1, <3>2, CallFacts
      DEF IInv, TypeOK, Sending, WireCarriesTheCall, Prefix
    <3>4. EndOf(TW_STATUS) = "done"
      BY <3>1 DEF EndOf
    <3> QED BY <3>1, <3>3, <3>4, StopPort
  <2> QED BY <2>0, <2>1, <2>2
<1>3. CASE IsrTransmitNack
  <2>1. /\ wire' = [wire EXCEPT !.end = TW_STATUS] /\ UNCHANGED client
        /\ TWCR = "int" /\ TW_STATUS \in {TW_MT_SLA_NACK, TW_MT_DATA_NACK}
    BY <1>3 DEF IsrTransmitNack, Interrupt, twi_stop
  <2>2. wire.end = Open /\ wire.call.op = "write"
    BY <2>1, CallFacts DEF IInv, TypeOK, BusState, Receiving
  <2>3. CASE TW_STATUS = TW_MT_SLA_NACK
    <3>1. EndOf(TW_STATUS) = "address" /\ wire.moved = <<>>
      BY <2>1, <2>2, <2>3 DEF IInv, Sending, EndOf
    <3> QED BY <2>1, <3>1, StopPort
  <2>4. CASE TW_STATUS = TW_MT_DATA_NACK
    <3>1. EndOf(TW_STATUS) = "data" /\ Len(wire.moved) < wire.call.length
      BY <2>1, <2>2, <2>4 DEF IInv, Sending, EndOf
    <3> QED BY <2>1, <2>2, <3>1, StopPort
  <2> QED BY <2>1, <2>3, <2>4
<1>4. CASE IsrArbitrationLost \/ IsrBusError
  <2>1. /\ wire' = [wire EXCEPT !.end = TW_STATUS] /\ UNCHANGED client
        /\ TWCR = "int" /\ EndOf(TW_STATUS) = "fault"
    BY <1>4
    DEF IsrArbitrationLost, IsrBusError, Interrupt, twi_stop, twi_releaseBus,
        EndOf
  <2> QED BY <2>1, StopPort
<1>5. CASE IsrReceive
  BY <1>0, <1>5 DEF IsrReceive
<1>6. CASE IsrReceiveLast
  <2>1. /\ wire' = [wire EXCEPT !.end = TW_STATUS] /\ UNCHANGED client
        /\ TWCR = "int" /\ TW_STATUS \in {TW_MR_DATA_NACK, TW_MR_SLA_NACK}
    BY <1>6 DEF IsrReceiveLast, Interrupt, twi_stop
  <2>2. wire.end = Open /\ wire.call.op = "read"
    BY <2>1, CallFacts DEF IInv, TypeOK, BusState, Sending
  <2>3. CASE TW_STATUS = TW_MR_SLA_NACK
    <3>1. EndOf(TW_STATUS) = "address" /\ wire.moved = <<>>
      BY <2>1, <2>2, <2>3 DEF IInv, Receiving, EndOf
    <3> QED BY <2>1, <3>1, StopPort
  <2>4. CASE TW_STATUS = TW_MR_DATA_NACK
    <3>1. Len(wire.moved) = wire.call.length
      BY <2>1, <2>2, <2>4, CallFacts DEF IInv, TypeOK, Receiving
    <3>2. EndOf(TW_STATUS) = "done"
      BY <2>4 DEF EndOf
    <3> QED BY <2>1, <3>1, <3>2, StopPort
  <2> QED BY <2>1, <2>3, <2>4
<1> QED BY <1>1, <1>2, <1>3, <1>4, <1>5, <1>6 DEF TWI_vect

(***************************************************************************)
(* The driver of twi.c implements TwiPort: every step of the program, the  *)
(* handler and the hardware is a step of the abstract port or none.        *)
(***************************************************************************)
THEOREM Refinement == Spec => ImplementsPort
<1>1. IInv /\ [Next]_vars => [Port!Next]_Port!vars
  <2> SUFFICES ASSUME IInv, [Next]_vars PROVE Port!Next \/ UNCHANGED Port!vars
    OBVIOUS
  <2>1. ASSUME NEW c \in Calls, Invoke(c) PROVE Port!Next
    BY <2>1, InvokePort DEF Port!Next
  <2>2. CASE BecomeMaster
    BY <2>2, BecomeMasterPort DEF Port!Next
  <2>3. CASE ReturnWrite \/ ReturnRead
    BY <2>3, ReturnWritePort, ReturnReadPort DEF Port!Next
  <2>4. CASE TWI_vect
    BY <2>4, TWI_vectPort DEF Port!Next
  <2>5. CASE HwTransmit \/ HwReceive
    BY <2>5, HwTransmitPort, HwReceivePort DEF Port!Next
  <2>6. CASE SendStart
    BY <2>6 DEF SendStart, Port!vars, CallerOf, XferOf, EndOf
  <2>7. CASE HwStart \/ HwAddress \/ HwFault
    BY <2>7
    DEF HwStart, HwAddress, HwFault, client, Port!vars, CallerOf, XferOf, EndOf
  <2>8. CASE UNCHANGED vars
    BY <2>8 DEF vars, client, Port!vars, CallerOf, XferOf, EndOf
  <2> QED BY <2>1, <2>2, <2>3, <2>4, <2>5, <2>6, <2>7, <2>8 DEF Next, Main, Hardware
<1> QED BY InitPort, Invariance, <1>1, PTL DEF Spec, ImplementsPort, Port!Spec
==============================================================================
