--------------------------------- MODULE Twi ---------------------------------
(***************************************************************************)
(* The I2C ("TWI") master driver of library/twi.c.  Three actors share its *)
(* static variables: the main program, which calls twi_writeTo and         *)
(* twi_readFrom; the TWI_vect interrupt handler, which runs between any    *)
(* two instructions of the main program; and the two-wire hardware with    *)
(* the one slave of the board, the real-time clock.                        *)
(*                                                                         *)
(* The handler runs with interrupts disabled, so each of its activations   *)
(* is one step.  A call is three steps of the main program: take the       *)
(* driver (BecomeMaster), send the start condition (SendStart), return.    *)
(***************************************************************************)
EXTENDS Integers, Sequences

CONSTANTS
  Byte,              \* the values a data byte takes, 0 among them
  TWI_BUFFER_LENGTH, \* size of twi_masterBuffer
  MaxLength          \* bound: the longest transfer a caller asks for

ASSUME ByteAssumption   == 0 \in Byte
ASSUME BufferAssumption == TWI_BUFFER_LENGTH \in Nat \ {0}
ASSUME LengthAssumption == MaxLength \in Nat \ {0}

(* twi_state *)
TWI_READY == "TWI_READY"
TWI_MRX   == "TWI_MRX"
TWI_MTX   == "TWI_MTX"

(* TW_STATUS, the codes of <compat/twi.h> that a single master meets *)
TW_START        == "TW_START"
TW_MT_SLA_ACK   == "TW_MT_SLA_ACK"
TW_MT_SLA_NACK  == "TW_MT_SLA_NACK"
TW_MT_DATA_ACK  == "TW_MT_DATA_ACK"
TW_MT_DATA_NACK == "TW_MT_DATA_NACK"
TW_MT_ARB_LOST  == "TW_MT_ARB_LOST"
TW_MR_SLA_ACK   == "TW_MR_SLA_ACK"
TW_MR_SLA_NACK  == "TW_MR_SLA_NACK"
TW_MR_DATA_ACK  == "TW_MR_DATA_ACK"
TW_MR_DATA_NACK == "TW_MR_DATA_NACK"
TW_BUS_ERROR    == "TW_BUS_ERROR"

Statuses == {TW_START, TW_MT_SLA_ACK, TW_MT_SLA_NACK, TW_MT_DATA_ACK,
             TW_MT_DATA_NACK, TW_MT_ARB_LOST, TW_MR_SLA_ACK, TW_MR_SLA_NACK,
             TW_MR_DATA_ACK, TW_MR_DATA_NACK, TW_BUS_ERROR}

(* The address byte, sla+w or sla+r: the clock's address 0x6F and TW_WRITE *)
(* or TW_READ.                                                             *)
SLA_W == 2 * 111
SLA_R == 2 * 111 + 1

NoError == "0xFF"  \* twi_error while no error has occurred

Errors == {NoError, TW_MT_SLA_NACK, TW_MT_DATA_NACK, TW_MT_ARB_LOST, TW_BUS_ERROR}

(* A call of the driver: its operation, its data or length, and whether it *)
(* waits for the transfer (twi_readFrom always does).                      *)
WriteCall(data, wait) ==
  [op |-> "write", data |-> data, length |-> Len(data), wait |-> wait]
ReadCall(n) ==
  [op |-> "read", data |-> <<>>, length |-> n, wait |-> TRUE]

BoundedSeq(S, n) == UNION {[1..k -> S] : k \in 0..n}

Calls == {WriteCall(d, w) : d \in BoundedSeq(Byte, MaxLength), w \in BOOLEAN}
           \cup {ReadCall(n) : n \in 1..MaxLength}

NoCall == ReadCall(1)  \* what the call variables hold before the first call

VARIABLES
  pc,     \* the main program: "idle", "begin", "start" or "wait"
  call,   \* the arguments of the call it is in, or was last in
  ret,    \* what that call returned: the code of a write, the bytes of a read
  twi_state, twi_error, twi_slarw,
  twi_masterBuffer, twi_masterBufferIndex, twi_masterBufferLength,
  TWCR,   \* what the hardware was told: "off", "start", "ack", "nack"; or "int"
  TW_STATUS, TWDR,
  wire    \* history: the call whose transfer is or was last on the bus, the
          \* bytes moved so far, and the status it ended with

driver   == <<twi_state, twi_error, twi_slarw, twi_masterBuffer,
              twi_masterBufferIndex, twi_masterBufferLength>>
hardware == <<TWCR, TW_STATUS, TWDR>>
client   == <<pc, call, ret>>
vars     == <<client, driver, hardware, wire>>

Open == "open"    \* wire.end while the transfer goes on

NoResult == [op |-> "none", code |-> 0, data |-> <<>>]

(* twi_init, and the zero-initialised static variables. *)
Init ==
  /\ pc = "idle" /\ call = NoCall /\ ret = NoResult
  /\ twi_state = TWI_READY
  /\ twi_error = NoError
  /\ twi_slarw = SLA_W
  /\ twi_masterBuffer = [i \in 0..TWI_BUFFER_LENGTH-1 |-> 0]
  /\ twi_masterBufferIndex = 0
  /\ twi_masterBufferLength = 0
  /\ TWCR = "off" /\ TW_STATUS = TW_START /\ TWDR = 0
  /\ wire = [call |-> NoCall, moved |-> <<>>, end |-> TW_START]

-----------------------------------------------------------------------------
(* The main program *)

(* Mutant: the length check lets one byte too many in. *)
TooLongOffByOne(c) == TWI_BUFFER_LENGTH + 1 < c.length

TooLong(c) == TWI_BUFFER_LENGTH < c.length

(* The caller enters twi_writeTo or twi_readFrom.  A transfer that does    *)
(* not fit the buffer is refused at once: code 1, or no bytes.             *)
Invoke(c) ==
  /\ pc = "idle"
  /\ call' = c
  /\ \/ /\ TooLong(c)
        /\ ret' = [op |-> c.op, code |-> 1, data |-> <<>>]
        /\ pc' = pc
     \/ /\ ~TooLong(c)
        /\ pc' = "begin"
        /\ ret' = ret
  /\ UNCHANGED <<driver, hardware, wire>>

(* Mutant: a read that does not take one off the length. *)
SetUpFullLength ==
  /\ twi_state' = IF call.op = "write" THEN TWI_MTX ELSE TWI_MRX
  /\ twi_slarw' = IF call.op = "write" THEN SLA_W ELSE SLA_R
  /\ twi_masterBufferLength' = call.length
  /\ twi_masterBuffer' = [i \in DOMAIN twi_masterBuffer |->
       IF i < Len(call.data) THEN call.data[i + 1] ELSE twi_masterBuffer[i]]
  /\ twi_masterBufferIndex' = 0
  /\ pc' = "start"
  /\ wire' = [call |-> call, moved |-> <<>>, end |-> Open]
  /\ UNCHANGED <<call, ret, hardware>>

(* The rest of the setup, once the driver is claimed. *)
SetUp ==
  /\ \/ /\ call.op = "write"
        /\ twi_state' = TWI_MTX
        /\ twi_slarw' = SLA_W
        /\ twi_masterBufferLength' = call.length
        /\ twi_masterBuffer' = [i \in DOMAIN twi_masterBuffer |->
             IF i < call.length THEN call.data[i + 1] ELSE twi_masterBuffer[i]]
     \/ /\ call.op = "read"
        /\ twi_state' = TWI_MRX
        /\ twi_slarw' = SLA_R
        /\ twi_masterBufferLength' = call.length - 1
        /\ UNCHANGED twi_masterBuffer
  /\ twi_masterBufferIndex' = 0
  /\ pc' = "start"
  /\ wire' = [call |-> call, moved |-> <<>>, end |-> Open]
  /\ UNCHANGED <<call, ret, hardware>>

(* Mutants: claim the driver without waiting for it; keep the last error. *)
BecomeMasterAtOnce == pc = "begin" /\ twi_error' = NoError /\ SetUp
BecomeMasterKeepsError ==
  /\ pc = "begin" /\ twi_state = TWI_READY
  /\ UNCHANGED twi_error
  /\ SetUp

(* Spin until the driver is ready, then claim it and set up the transfer.  *)
(* Nothing else runs on the driver's variables while it is ready.          *)
BecomeMaster ==
  /\ pc = "begin"
  /\ twi_state = TWI_READY
  /\ twi_error' = NoError
  /\ SetUp

SendStart ==
  /\ pc = "start"
  /\ TWCR' = "start"
  /\ pc' = "wait"
  /\ UNCHANGED <<call, ret, driver, TW_STATUS, TWDR, wire>>

(* What twi_writeTo makes of twi_error when it returns. *)
ErrorCode(e) == CASE e = NoError         -> 0
                  [] e = TW_MT_SLA_NACK  -> 2
                  [] e = TW_MT_DATA_NACK -> 3
                  [] OTHER               -> 4

ReturnWrite ==
  /\ pc = "wait" /\ call.op = "write"
  /\ call.wait => twi_state # TWI_MTX
  /\ ret' = [op |-> "write", code |-> ErrorCode(twi_error), data |-> <<>>]
  /\ pc' = "idle"
  /\ UNCHANGED <<call, driver, hardware, wire>>

Smaller(a, b) == IF a < b THEN a ELSE b

(* Mutant: the length is not cut down to the bytes received. *)
ReturnReadUncut ==
  /\ pc = "wait" /\ call.op = "read"
  /\ twi_state # TWI_MRX
  /\ ret' = [op |-> "read", code |-> 0,
             data |-> [i \in 1..call.length |-> twi_masterBuffer[i - 1]]]
  /\ pc' = "idle"
  /\ UNCHANGED <<call, driver, hardware, wire>>

ReturnRead ==
  /\ pc = "wait" /\ call.op = "read"
  /\ twi_state # TWI_MRX
  /\ LET n == Smaller(twi_masterBufferIndex, call.length)
     IN  ret' = [op |-> "read", code |-> 0,
                 data |-> [i \in 1..n |-> twi_masterBuffer[i - 1]]]
  /\ pc' = "idle"
  /\ UNCHANGED <<call, driver, hardware, wire>>

-----------------------------------------------------------------------------
(* The interrupt handler, TWI_vect: one action per group of cases *)

Interrupt(statuses) == TWCR = "int" /\ TW_STATUS \in statuses

twi_reply(ack) == TWCR' = IF ack THEN "ack" ELSE "nack"

(* twi_stop waits, inside the handler, until the stop condition is sent. *)
twi_stop == /\ TWCR' = "off"
            /\ twi_state' = TWI_READY
            /\ wire' = [wire EXCEPT !.end = TW_STATUS]

twi_releaseBus == /\ TWCR' = "off"
                  /\ twi_state' = TWI_READY
                  /\ wire' = [wire EXCEPT !.end = TW_STATUS]

IsrStart ==
  /\ Interrupt({TW_START})
  /\ TWDR' = twi_slarw
  /\ twi_reply(TRUE)
  /\ UNCHANGED <<client, driver, TW_STATUS, wire>>

(* Mutant: the index moves before the byte is fetched. *)
IsrTransmitPreIncrement ==
  /\ Interrupt({TW_MT_SLA_ACK, TW_MT_DATA_ACK})
  /\ \/ /\ twi_masterBufferIndex < twi_masterBufferLength
        /\ twi_masterBufferIndex' = twi_masterBufferIndex + 1
        /\ TWDR' = twi_masterBuffer[twi_masterBufferIndex']
        /\ twi_reply(TRUE)
        /\ UNCHANGED <<twi_state, wire>>
     \/ /\ twi_masterBufferIndex >= twi_masterBufferLength
        /\ twi_stop
        /\ UNCHANGED <<TWDR, twi_masterBufferIndex>>
  /\ UNCHANGED <<client, twi_error, twi_slarw, twi_masterBuffer,
                 twi_masterBufferLength, TW_STATUS>>

IsrTransmit ==
  /\ Interrupt({TW_MT_SLA_ACK, TW_MT_DATA_ACK})
  /\ \/ /\ twi_masterBufferIndex < twi_masterBufferLength
        /\ TWDR' = twi_masterBuffer[twi_masterBufferIndex]
        /\ twi_masterBufferIndex' = twi_masterBufferIndex + 1
        /\ twi_reply(TRUE)
        /\ UNCHANGED <<twi_state, wire>>
     \/ /\ twi_masterBufferIndex >= twi_masterBufferLength
        /\ twi_stop
        /\ UNCHANGED <<TWDR, twi_masterBufferIndex>>
  /\ UNCHANGED <<client, twi_error, twi_slarw, twi_masterBuffer,
                 twi_masterBufferLength, TW_STATUS>>

IsrTransmitNack ==
  /\ Interrupt({TW_MT_SLA_NACK, TW_MT_DATA_NACK})
  /\ twi_error' = TW_STATUS
  /\ twi_stop
  /\ UNCHANGED <<client, twi_slarw, twi_masterBuffer, twi_masterBufferIndex,
                 twi_masterBufferLength, TW_STATUS, TWDR>>

IsrArbitrationLost ==
  /\ Interrupt({TW_MT_ARB_LOST})
  /\ twi_error' = TW_MT_ARB_LOST
  /\ twi_releaseBus
  /\ UNCHANGED <<client, twi_slarw, twi_masterBuffer, twi_masterBufferIndex,
                 twi_masterBufferLength, TW_STATUS, TWDR>>

(* twi_masterBuffer[twi_masterBufferIndex++] = TWDR *)
StoreByte ==
  /\ twi_masterBuffer' = [twi_masterBuffer EXCEPT ![twi_masterBufferIndex] = TWDR]
  /\ twi_masterBufferIndex' = twi_masterBufferIndex + 1

(* The acknowledge set now answers the next byte, so the last byte but one *)
(* already asks for the nack.                                              *)
IsrReceive ==
  /\ Interrupt({TW_MR_SLA_ACK, TW_MR_DATA_ACK})
  /\ \/ TW_STATUS = TW_MR_DATA_ACK /\ StoreByte
     \/ /\ TW_STATUS = TW_MR_SLA_ACK
        /\ UNCHANGED <<twi_masterBuffer, twi_masterBufferIndex>>
  /\ twi_reply(twi_masterBufferIndex' < twi_masterBufferLength)
  /\ UNCHANGED <<client, twi_state, twi_error, twi_slarw,
                 twi_masterBufferLength, TW_STATUS, TWDR, wire>>

IsrReceiveLast ==
  /\ Interrupt({TW_MR_DATA_NACK, TW_MR_SLA_NACK})
  /\ \/ TW_STATUS = TW_MR_DATA_NACK /\ StoreByte
     \/ /\ TW_STATUS = TW_MR_SLA_NACK
        /\ UNCHANGED <<twi_masterBuffer, twi_masterBufferIndex>>
  /\ twi_stop
  /\ UNCHANGED <<client, twi_error, twi_slarw, twi_masterBufferLength,
                 TW_STATUS, TWDR>>

(* Mutant: no stop condition after a bus error. *)
IsrBusErrorNoStop ==
  /\ Interrupt({TW_BUS_ERROR})
  /\ twi_error' = TW_BUS_ERROR
  /\ twi_reply(TRUE)
  /\ UNCHANGED <<client, twi_state, twi_slarw, twi_masterBuffer, wire,
                 twi_masterBufferIndex, twi_masterBufferLength, TW_STATUS, TWDR>>

IsrBusError ==
  /\ Interrupt({TW_BUS_ERROR})
  /\ twi_error' = TW_BUS_ERROR
  /\ twi_stop
  /\ UNCHANGED <<client, twi_slarw, twi_masterBuffer, twi_masterBufferIndex,
                 twi_masterBufferLength, TW_STATUS, TWDR>>

TWI_vect == \/ IsrStart \/ IsrTransmit \/ IsrTransmitNack \/ IsrArbitrationLost
            \/ IsrReceive \/ IsrReceiveLast \/ IsrBusError

-----------------------------------------------------------------------------
(* The two-wire hardware and the slave (external).  Once the handler has   *)
(* replied, the hardware moves one byte, sets the status and interrupts.   *)

Signal(status) == TWCR' = "int" /\ TW_STATUS' = status

HwStart ==
  /\ TWCR = "start"
  /\ Signal(TW_START)
  /\ UNCHANGED <<client, driver, TWDR, wire>>

HwAddress ==
  /\ TWCR = "ack" /\ TW_STATUS = TW_START
  /\ \E s \in IF TWDR = SLA_W THEN {TW_MT_SLA_ACK, TW_MT_SLA_NACK}
                                ELSE {TW_MR_SLA_ACK, TW_MR_SLA_NACK} : Signal(s)
  /\ UNCHANGED <<client, driver, TWDR, wire>>

HwTransmit ==
  /\ TWCR = "ack" /\ TW_STATUS \in {TW_MT_SLA_ACK, TW_MT_DATA_ACK}
  /\ \/ /\ Signal(TW_MT_DATA_ACK)
        /\ wire' = [wire EXCEPT !.moved = Append(@, TWDR)]
     \/ /\ Signal(TW_MT_DATA_NACK)
        /\ wire' = wire
  /\ UNCHANGED <<client, driver, TWDR>>

HwReceive ==
  /\ TWCR \in {"ack", "nack"} /\ TW_STATUS \in {TW_MR_SLA_ACK, TW_MR_DATA_ACK}
  /\ \E b \in Byte : /\ TWDR' = b
                     /\ wire' = [wire EXCEPT !.moved = Append(@, b)]
  /\ Signal(IF TWCR = "ack" THEN TW_MR_DATA_ACK ELSE TW_MR_DATA_NACK)
  /\ UNCHANGED <<client, driver>>

(* Instead of moving a byte the hardware may report an illegal start or    *)
(* stop on the lines, or that it lost arbitration to one.                  *)
HwFault ==
  /\ TWCR \in {"ack", "nack"}
  /\ \E s \in {TW_MT_ARB_LOST, TW_BUS_ERROR} : Signal(s)
  /\ UNCHANGED <<client, driver, TWDR, wire>>

Hardware == HwStart \/ HwAddress \/ HwTransmit \/ HwReceive \/ HwFault

-----------------------------------------------------------------------------
Main == BecomeMaster \/ SendStart \/ ReturnWrite \/ ReturnRead

Next == (\E c \in Calls : Invoke(c)) \/ Main \/ TWI_vect \/ Hardware

Spec == Init /\ [][Next]_vars

(* The main program keeps executing, a pending interrupt is taken, and the *)
(* hardware clocks out what it was told to.                                *)
Fairness == WF_vars(Main) /\ WF_vars(TWI_vect) /\ WF_vars(Hardware)

FairSpec == Spec /\ Fairness
-----------------------------------------------------------------------------
(* Properties *)

TypeOK ==
  /\ pc \in {"idle", "begin", "start", "wait"}
  /\ call \in Calls
  /\ ret \in [op : {"none", "read", "write"}, code : 0..4, data : Seq(Byte)]
  /\ twi_state \in {TWI_READY, TWI_MRX, TWI_MTX}
  /\ twi_error \in Errors
  /\ twi_slarw \in {SLA_W, SLA_R}
  /\ twi_masterBuffer \in [0..TWI_BUFFER_LENGTH-1 -> Byte]
  /\ twi_masterBufferIndex \in 0..TWI_BUFFER_LENGTH
  /\ twi_masterBufferLength \in 0..TWI_BUFFER_LENGTH
  /\ TWCR \in {"off", "start", "ack", "nack", "int"}
  /\ TW_STATUS \in Statuses
  /\ TWDR \in Byte \cup {SLA_W, SLA_R}
  /\ wire \in [call : Calls, moved : Seq(Byte), end : Statuses \cup {Open}]

Prefix(s, t) == Len(s) <= Len(t) /\ \A i \in 1..Len(s) : s[i] = t[i]

(* What the slave acknowledged is a prefix of the data of the call on the  *)
(* bus, never a byte of an earlier or a later call left in the one buffer  *)
(* that twi_writeTo fills and TWI_vect empties after twi_writeTo returned. *)
WireCarriesTheCall ==
  wire.call.op = "write" => Prefix(wire.moved, wire.call.data)

(* The bus never carries more bytes than the call asked for, and TWI_vect  *)
(* stores a received byte only inside twi_masterBuffer: the acknowledge of *)
(* the last byte but one already asks the slave to stop ("This is not      *)
(* intuitive, read on...").                                                *)
NoByteTooMany ==
  /\ Len(wire.moved) <= wire.call.length
  /\ TWCR = "int" /\ TW_STATUS \in {TW_MR_DATA_ACK, TW_MR_DATA_NACK} =>
       twi_masterBufferIndex < TWI_BUFFER_LENGTH

(* The code that a waiting twi_writeTo returned tells what became of its   *)
(* bytes: 0 when the slave took them all, 2 when it took none, 3           *)
(* when it refused one of them, 4 after a fault of the bus.                *)
WaitedWriteAnswer ==
  pc = "idle" /\ ret.op = "write" /\ call.wait /\ ret.code # 1 =>
    /\ wire.call = call
    /\ ret.code = 0 => wire.moved = call.data
    /\ ret.code = 2 => wire.moved = <<>>
    /\ ret.code = 3 => Len(wire.moved) < call.length
    /\ ret.code = 4 <=> wire.end \in {TW_MT_ARB_LOST, TW_BUS_ERROR}

(* twi_readFrom returns exactly the bytes the slave sent for this call,    *)
(* and all that were asked for unless the address or the bus failed.       *)
ReadAnswer ==
  pc = "idle" /\ ret.op = "read" /\ ~TooLong(call) =>
    /\ wire.call = call
    /\ ret.data = wire.moved
    /\ Len(ret.data) = call.length <=> wire.end = TW_MR_DATA_NACK

(* Every call returns: the busy waits of twi_writeTo and twi_readFrom on   *)
(* twi_state end, whatever the slave and the bus answer.                   *)
EveryCallReturns == pc # "idle" ~> pc = "idle"

-----------------------------------------------------------------------------
(* The promise of the driver, with the registers and the handler hidden:   *)
(* a transfer is open from the claim of the driver to the stop condition.  *)

CallerOf == CASE pc = "idle"  -> "idle"
              [] pc = "begin" -> "asked"
              [] OTHER        -> "given"

EndOf(status) ==
  CASE status = Open                                    -> "open"
    [] status \in {TW_MT_SLA_NACK, TW_MR_SLA_NACK}      -> "address"
    [] status = TW_MT_DATA_NACK                         -> "data"
    [] status \in {TW_MT_ARB_LOST, TW_BUS_ERROR}        -> "fault"
    [] OTHER                                            -> "done"

XferOf == [call |-> wire.call, moved |-> wire.moved, end |-> EndOf(wire.end)]

Port == INSTANCE TwiPort WITH
          Capacity <- TWI_BUFFER_LENGTH, caller <- CallerOf, xfer <- XferOf

(* The driver of twi.c implements TwiPort: its transfers neither overlap   *)
(* nor mix, although twi_writeTo returns before the handler has sent them. *)
ImplementsPort == Port!Spec
==============================================================================
