-------------------------------- MODULE Cdc ---------------------------------
(***************************************************************************)
(* The sending half of the CDC stream (CDCClassDevice.c): SendByte behind  *)
(* fprintf, the Flush of every round of the main loop, and the wait for    *)
(* the endpoint with its timeout (Endpoint_AVR8.c), against a host that    *)
(* reads, suspends, halts, resets and is unplugged at any step.            *)
(*                                                                         *)
(* The data IN endpoint has one bank: the CPU fills it, ClearIN hands it   *)
(* to the host, and TXINI says that the host has taken it.  The interrupt  *)
(* of a bus reset configures the control endpoint and leaves it selected,  *)
(* whatever the interrupted call was doing.                                *)
(*                                                                         *)
(* Configured stands for both conditions of the calls' early return: the   *)
(* state, and a baud rate that the host has set.                           *)
(***************************************************************************)
EXTENDS Integers, Sequences

CONSTANTS
  CDC_TXRX_EPSIZE,         \* size of the bank
  USB_STREAM_TIMEOUT_MS,   \* frames that a wait lasts
  MaxChars, MaxResets      \* bounds: characters sent, bus resets

ASSUME SizeAssumption    == CDC_TXRX_EPSIZE \in Nat \ {0}
ASSUME TimeoutAssumption == USB_STREAM_TIMEOUT_MS \in Nat
ASSUME BoundAssumption   == MaxChars \in Nat /\ MaxResets \in Nat

VARIABLES
  call,     \* "send", "flush", or "none": the rest of the main loop
  pc,       \* where in the call: "select", "rwal", "clear", "wait", "poll", "finish"
  BankFull, TimeoutMSRem,
  moved,    \* the frame number is not PreviousFrameNumber any more
  UENUM,    \* the selected endpoint: "IN" or "control"
  USB_DeviceState,
  bank, TXINI, STALLRQ,    \* the IN endpoint
  char,     \* the character being sent: they are numbered
  accepted, \* history of the stream: characters that SendByte took,
  received, \* characters that the host got,
  lastFull, \* the last packet it got was a full one,
  gaveUp,   \* and a wait ended without the endpoint being ready
  resets,   \* number of bus resets
  stray     \* number of characters written to the control endpoint

local    == <<call, pc, BankFull, TimeoutMSRem, moved>>
endpoint == <<bank, TXINI, STALLRQ>>
history  == <<accepted, received, lastFull, gaveUp>>
bus      == <<USB_DeviceState, resets>>
vars     == <<local, UENUM, endpoint, char, history, bus, stray>>

Init ==
  /\ call = "none" /\ pc = "select" /\ BankFull = FALSE
  /\ TimeoutMSRem = 0 /\ moved = FALSE
  /\ UENUM = "control" /\ USB_DeviceState = "Default"
  /\ bank = <<>> /\ TXINI = TRUE /\ STALLRQ = FALSE
  /\ char = 0 /\ accepted = <<>> /\ received = <<>>
  /\ lastFull = FALSE /\ gaveUp = FALSE
  /\ resets = 0 /\ stray = 0

-----------------------------------------------------------------------------
(* The endpoint functions of Endpoint_AVR8.h.  What the control endpoint   *)
(* answers is left open.                                                   *)

Endpoint_IsReadWriteAllowed ==
  IF UENUM = "IN" THEN {TXINI /\ Len(bank) < CDC_TXRX_EPSIZE /\ ~STALLRQ}
  ELSE BOOLEAN

(* Whether there are any: a bank in flight counts down as it is sent. *)
Endpoint_BytesInEndpoint == {bank # <<>>} \cup (IF TXINI THEN {} ELSE {FALSE})

(* A wait looks at TXINI of an IN endpoint, at RXOUTI of the control one. *)
Endpoint_IsReady == IF UENUM = "IN" THEN {TXINI} ELSE BOOLEAN

Endpoint_ClearIN == TXINI' = (TXINI /\ UENUM # "IN")

(* A write to a full bank, or to one that is in flight, is lost. *)
Endpoint_Write_8 ==
  IF UENUM = "IN"
  THEN /\ bank' = IF TXINI /\ Len(bank) < CDC_TXRX_EPSIZE
                  THEN Append(bank, char) ELSE bank
       /\ accepted' = Append(accepted, char)
       /\ UNCHANGED stray
  ELSE stray' = stray + 1 /\ UNCHANGED <<bank, accepted>>

-----------------------------------------------------------------------------
(* The two calls *)

Return == call' = "none" /\ pc' = "select" /\ UNCHANGED <<BankFull, TimeoutMSRem, moved>>

Goto(l) == pc' = l /\ UNCHANGED <<call, BankFull, TimeoutMSRem, moved>>

(* fprintf sends a character, CDC_Device_USBTask flushes: both only when   *)
(* Configured, a test that is made once.                                   *)
SendByte ==
  /\ call = "none" /\ char < MaxChars
  /\ char' = char + 1
  /\ call' = IF USB_DeviceState = "Configured" THEN "send" ELSE "none"
  /\ UNCHANGED <<pc, BankFull, TimeoutMSRem, moved, UENUM, endpoint, history, bus, stray>>

Flush ==
  /\ call = "none" /\ USB_DeviceState = "Configured"
  /\ call' = "flush"
  /\ UNCHANGED <<pc, BankFull, TimeoutMSRem, moved, UENUM, endpoint, char, history, bus, stray>>

(* Mutant: the endpoint is not selected. *)
SelectMissing ==
  /\ call # "none" /\ pc = "select"
  /\ \E bytes \in Endpoint_BytesInEndpoint :
       IF call = "flush" /\ ~bytes THEN Return ELSE Goto("rwal")
  /\ UNCHANGED <<UENUM, endpoint, char, history, bus, stray>>

(* The endpoint is selected.  Flush has nothing to do when it is empty. *)
Select ==
  /\ call # "none" /\ pc = "select"
  /\ UENUM' = "IN"
  /\ \E bytes \in Endpoint_BytesInEndpoint :
       IF call = "flush" /\ ~bytes THEN Return ELSE Goto("rwal")
  /\ UNCHANGED <<endpoint, char, history, bus, stray>>

(* SendByte writes when it may; Flush notes whether the bank is full. *)
TestBank ==
  /\ pc = "rwal"
  /\ \E allowed \in Endpoint_IsReadWriteAllowed :
       IF call = "send" /\ allowed
       THEN Endpoint_Write_8 /\ Return
       ELSE /\ BankFull' = ~allowed /\ pc' = "clear"
            /\ UNCHANGED <<call, TimeoutMSRem, moved, bank, accepted, stray>>
  /\ UNCHANGED <<UENUM, TXINI, STALLRQ, char, received, lastFull, gaveUp, bus>>

(* The bank goes to the host, and the wait begins unless it was a Flush of *)
(* a short packet.                                                         *)
Clear ==
  /\ pc = "clear"
  /\ Endpoint_ClearIN
  /\ IF BankFull
     THEN /\ pc' = "wait" /\ TimeoutMSRem' = USB_STREAM_TIMEOUT_MS /\ moved' = FALSE
          /\ UNCHANGED <<call, BankFull>>
     ELSE Return
  /\ UNCHANGED <<UENUM, bank, STALLRQ, char, history, bus, stray>>

(* Endpoint_WaitUntilReady: ready, *)
Wait ==
  /\ pc = "wait"
  /\ \E ready \in Endpoint_IsReady : Goto(IF ready THEN "finish" ELSE "poll")
  /\ UNCHANGED <<UENUM, endpoint, char, history, bus, stray>>

(* Mutant: the frames of a wait are not counted. *)
PollNoCount ==
  /\ pc = "poll"
  /\ IF \/ USB_DeviceState \in {"Unattached", "Suspended"}
        \/ UENUM = "IN" /\ STALLRQ
        \/ moved /\ TimeoutMSRem = 0
     THEN Return /\ gaveUp' = TRUE
     ELSE /\ pc' = "wait" /\ moved' = FALSE
          /\ UNCHANGED <<call, BankFull, TimeoutMSRem, gaveUp>>
  /\ UNCHANGED <<UENUM, endpoint, char, accepted, received, lastFull, bus, stray>>

(* Mutant: the error code of the wait is not looked at. *)
PollIgnored ==
  /\ pc = "poll"
  /\ IF \/ USB_DeviceState \in {"Unattached", "Suspended"}
        \/ UENUM = "IN" /\ STALLRQ
        \/ moved /\ TimeoutMSRem = 0
     THEN Goto("finish") /\ gaveUp' = TRUE
     ELSE /\ pc' = "wait" /\ moved' = FALSE
          /\ TimeoutMSRem' = IF moved THEN TimeoutMSRem - 1 ELSE TimeoutMSRem
          /\ UNCHANGED <<call, BankFull, gaveUp>>
  /\ UNCHANGED <<UENUM, endpoint, char, accepted, received, lastFull, bus, stray>>

(* or one of the reasons to give up, or another round. *)
Poll ==
  /\ pc = "poll"
  /\ IF \/ USB_DeviceState \in {"Unattached", "Suspended"}
        \/ UENUM = "IN" /\ STALLRQ
        \/ moved /\ TimeoutMSRem = 0
     THEN Return /\ gaveUp' = TRUE
     ELSE /\ pc' = "wait" /\ moved' = FALSE
          /\ TimeoutMSRem' = IF moved THEN TimeoutMSRem - 1 ELSE TimeoutMSRem
          /\ UNCHANGED <<call, BankFull, gaveUp>>
  /\ UNCHANGED <<UENUM, endpoint, char, accepted, received, lastFull, bus, stray>>

(* Mutant: Flush sends no empty packet after the full one. *)
FinishNoEmptyPacket ==
  /\ pc = "finish"
  /\ IF call = "send" THEN Endpoint_Write_8 ELSE UNCHANGED <<bank, accepted, stray>>
  /\ Return
  /\ UNCHANGED <<UENUM, TXINI, STALLRQ, char, received, lastFull, gaveUp, bus>>

(* SendByte writes into the empty bank; Flush sends it, empty as it is. *)
Finish ==
  /\ pc = "finish"
  /\ IF call = "send"
     THEN Endpoint_Write_8 /\ UNCHANGED TXINI
     ELSE Endpoint_ClearIN /\ UNCHANGED <<bank, accepted, stray>>
  /\ Return
  /\ UNCHANGED <<UENUM, STALLRQ, char, received, lastFull, gaveUp, bus>>

Program == SendByte \/ Flush \/ Select \/ TestBank \/ Clear \/ Wait \/ Poll \/ Finish

-----------------------------------------------------------------------------
(* The requests that the main loop serves between the calls *)

FreshEndpoint ==
  /\ bank' = <<>> /\ TXINI' = TRUE /\ STALLRQ' = FALSE
  /\ accepted' = <<>> /\ received' = <<>> /\ lastFull' = FALSE /\ gaveUp' = FALSE

(* Set configuration, and the line encoding. *)
Configure ==
  /\ call = "none" /\ USB_DeviceState = "Default"
  /\ USB_DeviceState' = "Configured"
  /\ FreshEndpoint
  /\ UNCHANGED <<local, UENUM, char, resets, stray>>

(* USB_Device_ClearSetFeature: ENDPOINT_HALT, set and cleared.  Clearing   *)
(* resets the endpoint, halted or not: its characters are gone, and the    *)
(* stream begins anew.                                                     *)
SetHalt ==
  /\ call = "none" /\ USB_DeviceState = "Configured"
  /\ STALLRQ' = TRUE
  /\ UNCHANGED <<local, UENUM, bank, TXINI, char, history, bus, stray>>

ClearHalt ==
  /\ call = "none" /\ USB_DeviceState = "Configured"
  /\ FreshEndpoint
  /\ UNCHANGED <<local, UENUM, char, bus, stray>>

-----------------------------------------------------------------------------
(* The bus: what the interrupt does, at any step of a call *)

Suspend ==
  /\ USB_DeviceState = "Configured"
  /\ USB_DeviceState' = "Suspended"
  /\ UNCHANGED <<local, UENUM, endpoint, char, history, resets, stray>>

WakeUp ==
  /\ USB_DeviceState = "Suspended"
  /\ USB_DeviceState' = "Configured"
  /\ UNCHANGED <<local, UENUM, endpoint, char, history, resets, stray>>

Disconnect ==
  /\ USB_DeviceState # "Unattached"
  /\ USB_DeviceState' = "Unattached"
  /\ UNCHANGED <<local, UENUM, endpoint, char, history, resets, stray>>

(* A reset disables the data endpoints; the handler selects the control    *)
(* endpoint, and does not select the other one again.                      *)
Reset ==
  /\ resets < MaxResets
  /\ resets' = resets + 1
  /\ USB_DeviceState' = "Default"
  /\ UENUM' = "control"
  /\ bank' = <<>> /\ TXINI' = TRUE /\ STALLRQ' = FALSE
  /\ UNCHANGED <<local, char, history, stray>>

(* The host and its frames (external) *)
HostReads ==
  /\ USB_DeviceState = "Configured" /\ ~TXINI /\ ~STALLRQ
  /\ received' = received \o bank
  /\ lastFull' = (Len(bank) = CDC_TXRX_EPSIZE)
  /\ bank' = <<>> /\ TXINI' = TRUE
  /\ UNCHANGED <<local, UENUM, STALLRQ, char, accepted, gaveUp, bus, stray>>

Frame ==
  /\ USB_DeviceState \in {"Configured", "Default"} /\ pc \in {"wait", "poll"}
  /\ ~moved /\ moved' = TRUE
  /\ UNCHANGED <<call, pc, BankFull, TimeoutMSRem, UENUM, endpoint, char, history, bus, stray>>

Next ==
  \/ Program \/ Configure \/ SetHalt \/ ClearHalt
  \/ Suspend \/ WakeUp \/ Disconnect \/ Reset \/ HostReads \/ Frame

Spec == Init /\ [][Next]_vars

(* The program goes on, and a bus that is not suspended has a frame each   *)
(* millisecond, while it takes three idle ones to suspend it: the frames   *)
(* come and go, hence the strong fairness.  Nothing is asked of the host,  *)
(* which need never read.                                                  *)
FairSpec ==
  /\ Spec
  /\ WF_vars(Select \/ TestBank \/ Clear \/ Wait \/ Poll \/ Finish) /\ SF_vars(Frame)

-----------------------------------------------------------------------------
TypeOK ==
  /\ call \in {"none", "send", "flush"}
  /\ pc \in {"select", "rwal", "clear", "wait", "poll", "finish"}
  /\ (call = "none" => pc = "select")
  /\ BankFull \in BOOLEAN /\ moved \in BOOLEAN
  /\ TimeoutMSRem \in 0..USB_STREAM_TIMEOUT_MS
  /\ UENUM \in {"IN", "control"}
  /\ USB_DeviceState \in {"Configured", "Suspended", "Default", "Unattached"}
  /\ bank \in Seq(1..MaxChars) /\ Len(bank) <= CDC_TXRX_EPSIZE
  /\ TXINI \in BOOLEAN /\ STALLRQ \in BOOLEAN
  /\ char \in 0..MaxChars /\ accepted \in Seq(1..MaxChars)
  /\ received \in Seq(1..MaxChars) /\ lastFull \in BOOLEAN /\ gaveUp \in BOOLEAN
  /\ resets \in 0..MaxResets /\ stray \in Nat

Live == USB_DeviceState \in {"Configured", "Suspended"}

(* The characters for which SendByte answered NoError are the ones that    *)
(* the host has or that are on their way, once each and in order, whatever *)
(* waits timed out and whenever the bus was suspended.                     *)
NoCharacterLost == Live => received \o bank = accepted

(* A reset inside a call can send its character to the control endpoint,   *)
(* and no later one.                                                       *)
StrayPerReset == stray <= resets

(* Every call comes back, whatever the host does, and when it never reads: *)
(* the timeout of Endpoint_WaitUntilReady keeps the main loop, with its    *)
(* lights and alarms, from standing still because nobody takes the answers.*)
CallsReturn == call # "none" ~> call = "none"

(* The main loop comes round to its Flush, and the driver of a host that   *)
(* reads polls the IN endpoint in its frames; TXINI comes and goes.        *)
Reading == SF_vars(Flush) /\ SF_vars(HostReads)

(* With a host that keeps reading, the Flush of the main loop sends what   *)
(* has been written: each character that was taken gets there, and so does *)
(* the end of the transfer.  A full packet is not the end: a short or an   *)
(* empty one follows it, unless a wait for the host was given up.          *)
Undisturbed == USB_DeviceState = "Configured" /\ ~STALLRQ
AnswersDelivered ==
  Reading =>
    \A n \in 1..MaxChars :
      (Undisturbed /\ Len(accepted) >= n)
        ~> \/ Len(received) >= n /\ (~lastFull \/ gaveUp)
           \/ ~Undisturbed \/ accepted = <<>>
=============================================================================
