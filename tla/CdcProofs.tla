----------------------------- MODULE CdcProofs ------------------------------
(***************************************************************************)
(* Proofs about Cdc, for every size of the bank, every timeout and any     *)
(* number of characters and resets.                                        *)
(***************************************************************************)
EXTENDS Cdc, SequenceTheorems, TLAPS

(* The character of a SendByte is one of the stream. *)
CharSent == call = "send" => char \in 1..MaxChars

(* A call that goes on with the control endpoint is the one that a         *)
(* reset has hit: its write is already counted,                            *)
StrayBudget == stray + (IF pc # "select" /\ UENUM = "control" THEN 1 ELSE 0) <= resets

(* and the device cannot be configured again before it has returned.       *)
NotLive == pc # "select" /\ UENUM = "control" => ~Live

(* While a call waits, TXINI means that the host has emptied the bank; the *)
(* wait ends well only with TXINI.                                         *)
Emptied ==
  UENUM = "IN" =>
    /\ pc \in {"wait", "poll", "finish"} /\ TXINI => bank = <<>>
    /\ pc = "finish" => TXINI

IInv == TypeOK /\ CharSent /\ StrayBudget /\ NotLive /\ Emptied /\ NoCharacterLost

Chars == 1..MaxChars

(* TypeOK in two parts: no prover is good at both. *)
Booleans ==
  /\ BankFull \in BOOLEAN /\ moved \in BOOLEAN /\ TXINI \in BOOLEAN
  /\ STALLRQ \in BOOLEAN /\ lastFull \in BOOLEAN /\ gaveUp \in BOOLEAN

Values ==
  /\ call \in {"none", "send", "flush"}
  /\ pc \in {"select", "rwal", "clear", "wait", "poll", "finish"}
  /\ (call = "none" => pc = "select")
  /\ TimeoutMSRem \in 0..USB_STREAM_TIMEOUT_MS
  /\ UENUM \in {"IN", "control"}
  /\ USB_DeviceState \in {"Configured", "Suspended", "Default", "Unattached"}
  /\ bank \in Seq(Chars) /\ Len(bank) <= CDC_TXRX_EPSIZE
  /\ char \in 0..MaxChars /\ accepted \in Seq(Chars) /\ received \in Seq(Chars)
  /\ resets \in 0..MaxResets /\ stray \in Nat

USE SizeAssumption, TimeoutAssumption, BoundAssumption

-----------------------------------------------------------------------------
LEMMA TypeParts == TypeOK <=> Booleans /\ Values
BY DEF TypeOK, Booleans, Values, Chars

LEMMA TypePartsNext == TypeOK' <=> Booleans' /\ Values'
BY DEF TypeOK, Booleans, Values, Chars

LEMMA ConcatAppend ==
  ASSUME NEW s \in Seq(Chars), NEW t \in Seq(Chars), NEW e \in Chars
  PROVE  s \o Append(t, e) = Append(s \o t, e)
<1>1. Append(t, e) = t \o <<e>> /\ Append(s \o t, e) = (s \o t) \o <<e>>
  BY AppendIsConcat, ConcatProperties
<1>2. <<e>> \in Seq(Chars)
  OBVIOUS
<1> QED BY <1>1, <1>2, ConcatAssociative

LEMMA InitIInv == Init => IInv
<1> SUFFICES ASSUME Init PROVE IInv
  OBVIOUS
<1>1. Booleans
  BY DEF Init, Booleans
<1>2. Values
  BY DEF Init, Values
<1>3. TypeOK
  BY <1>1, <1>2, TypeParts
<1> QED BY <1>3 DEF Init, IInv, CharSent, StrayBudget, NotLive, Emptied, NoCharacterLost, Live

(* Steps that write nothing and leave the bank and the stream alone. *)
LEMMA QuietStep ==
  ASSUME IInv,
         SendByte \/ Flush \/ Select \/ Clear \/ Wait \/ Poll \/ SetHalt \/ Suspend \/ WakeUp
           \/ Disconnect \/ Frame
  PROVE  IInv'
<1> USE DEF local, endpoint, history, bus, Return, Goto, Live
<1>1. CASE SendByte
  <2>1. TypeOK'
    BY <1>1 DEF IInv, TypeOK, SendByte
  <2> QED BY <1>1, <2>1 DEF IInv, TypeOK, CharSent, StrayBudget, NotLive, Emptied, NoCharacterLost, SendByte
<1>2. CASE Flush
  <2>1. TypeOK'
    BY <1>2 DEF IInv, TypeOK, Flush
  <2> QED BY <1>2, <2>1 DEF IInv, TypeOK, CharSent, StrayBudget, NotLive, Emptied, NoCharacterLost, Flush
<1>3. CASE Clear
  <2>1. Booleans /\ Values
    BY TypeParts DEF IInv
  <2>2. Booleans'
    BY <1>3, <2>1 DEF Booleans, Clear, Endpoint_ClearIN
  <2>3. Values'
    BY <1>3, <2>1 DEF Values, Clear, Endpoint_ClearIN
  <2>4. TypeOK'
    BY <2>2, <2>3, TypePartsNext
  <2> QED BY <1>3, <2>4 DEF IInv, TypeOK, CharSent, StrayBudget, NotLive, Emptied, NoCharacterLost, Clear, Endpoint_ClearIN
<1>4. CASE Wait
  <2>1. TypeOK'
    BY <1>4 DEF IInv, TypeOK, Wait
  <2> QED BY <1>4, <2>1 DEF IInv, TypeOK, CharSent, StrayBudget, NotLive, Emptied, NoCharacterLost, Wait, Endpoint_IsReady
<1>5. CASE Poll
  <2>1. Booleans /\ Values
    BY TypeParts DEF IInv
  <2>2. Booleans'
    BY <1>5, <2>1 DEF Booleans, Poll
  <2>3. Values'
    BY <1>5, <2>1 DEF Values, Poll
  <2>4. TypeOK'
    BY <2>2, <2>3, TypePartsNext
  <2> QED BY <1>5, <2>4 DEF IInv, TypeOK, CharSent, StrayBudget, NotLive, Emptied, NoCharacterLost, Poll
<1>6. CASE SetHalt
  BY <1>6 DEF IInv, TypeOK, CharSent, StrayBudget, NotLive, Emptied, NoCharacterLost, SetHalt
<1>7. CASE Suspend \/ WakeUp \/ Disconnect
  <2>1. Booleans /\ Values
    BY TypeParts DEF IInv
  <2>2. Booleans'
    BY <1>7, <2>1 DEF Booleans, Suspend, WakeUp, Disconnect
  <2>3. Values'
    BY <1>7, <2>1 DEF Values, Suspend, WakeUp, Disconnect
  <2>4. TypeOK'
    BY <2>2, <2>3, TypePartsNext
  <2> QED BY <1>7, <2>4 DEF IInv, TypeOK, CharSent, StrayBudget, NotLive, Emptied, NoCharacterLost, Suspend, WakeUp, Disconnect
<1>8. CASE Frame
  BY <1>8 DEF IInv, TypeOK, CharSent, StrayBudget, NotLive, Emptied, NoCharacterLost, Frame
<1>9. CASE Select
  <2>1. TypeOK'
    BY <1>9 DEF IInv, TypeOK, Select
  <2> QED BY <1>9, <2>1 DEF IInv, TypeOK, CharSent, StrayBudget, NotLive, Emptied, NoCharacterLost, Select
<1> QED BY <1>1, <1>2, <1>3, <1>4, <1>5, <1>6, <1>7, <1>8, <1>9

(* The write of a character, with room in the bank if it is the IN one. *)
LEMMA WriteStep ==
  ASSUME IInv, call = "send", pc # "select", Endpoint_Write_8, Return,
         UENUM = "IN" => TXINI /\ Len(bank) < CDC_TXRX_EPSIZE,
         UNCHANGED <<UENUM, TXINI, STALLRQ, char, received, lastFull, gaveUp, bus>>
  PROVE  IInv'
<1> USE DEF bus, Return, Live
<1>1. CASE UENUM = "IN"
  <2>1. /\ bank' = Append(bank, char) /\ accepted' = Append(accepted, char)
        /\ UNCHANGED <<received, stray>>
    BY <1>1 DEF Endpoint_Write_8
  <2>2. char \in Chars /\ bank \in Seq(Chars) /\ accepted \in Seq(Chars) /\ received \in Seq(Chars)
    BY DEF IInv, CharSent, TypeOK, Chars
  <2>3. bank' \in Seq(Chars) /\ accepted' \in Seq(Chars) /\ Len(bank') = Len(bank) + 1
    BY <2>1, <2>2, AppendProperties
  <2>4. TypeOK'
    BY <1>1, <2>1, <2>2, <2>3 DEF IInv, TypeOK, Chars
  <2>5. NoCharacterLost'
    BY <2>1, <2>2, ConcatAppend DEF IInv, NoCharacterLost
  <2> QED BY <1>1, <2>1, <2>4, <2>5 DEF IInv, TypeOK, CharSent, StrayBudget, NotLive, Emptied
<1>2. CASE UENUM = "control"
  <2>1. stray' = stray + 1 /\ UNCHANGED <<bank, accepted>>
    BY <1>2 DEF Endpoint_Write_8
  <2>2. TypeOK'
    BY <2>1 DEF IInv, TypeOK
  <2> QED BY <1>2, <2>1, <2>2 DEF IInv, TypeOK, CharSent, StrayBudget, NotLive, Emptied, NoCharacterLost
<1> QED BY <1>1, <1>2 DEF IInv, TypeOK

LEMMA TestBankStep == ASSUME IInv, TestBank PROVE IInv'
<1>1. PICK allowed \in Endpoint_IsReadWriteAllowed :
        IF call = "send" /\ allowed
        THEN Endpoint_Write_8 /\ Return
        ELSE /\ BankFull' = ~allowed /\ pc' = "clear"
             /\ UNCHANGED <<call, TimeoutMSRem, moved, bank, accepted, stray>>
  BY DEF TestBank
<1>2. allowed \in BOOLEAN /\ (UENUM = "IN" /\ allowed => TXINI /\ Len(bank) < CDC_TXRX_EPSIZE)
  BY <1>1 DEF Endpoint_IsReadWriteAllowed, IInv, TypeOK
<1>3. CASE call = "send" /\ allowed
  BY <1>1, <1>2, <1>3, WriteStep DEF TestBank
<1>4. CASE ~(call = "send" /\ allowed)
  <2>1. TypeOK'
    BY <1>1, <1>2, <1>4 DEF IInv, TypeOK, TestBank, bus
  <2> QED BY <1>1, <1>4, <2>1 DEF IInv, TypeOK, CharSent, StrayBudget, NotLive, Emptied, NoCharacterLost, TestBank, bus, Live
<1> QED BY <1>3, <1>4

LEMMA FinishStep == ASSUME IInv, Finish PROVE IInv'
<1>1. CASE call = "send"
  <2>1. UENUM = "IN" => TXINI /\ Len(bank) < CDC_TXRX_EPSIZE
    BY DEF IInv, Emptied, Finish
  <2> QED BY <1>1, <2>1, WriteStep DEF Finish
<1>2. CASE call # "send"
  <2>1. TypeOK'
    BY <1>2 DEF IInv, TypeOK, Finish, Endpoint_ClearIN, Return, bus
  <2> QED BY <1>2, <2>1 DEF IInv, TypeOK, CharSent, StrayBudget, NotLive, Emptied, NoCharacterLost,
               Finish, Endpoint_ClearIN, Return, bus, Live
<1> QED BY <1>1, <1>2

(* A fresh endpoint is a fresh stream; a reset empties the bank of one     *)
(* that is not live any more.                                              *)
LEMMA FreshStep == ASSUME IInv, Configure \/ ClearHalt \/ Reset PROVE IInv'
<1>1. <<>> \in Seq(Chars) /\ Len(<<>>) = 0 /\ <<>> \o <<>> = <<>>
  OBVIOUS
<1> USE DEF local, bus, history, FreshEndpoint, Live
<1>2. TypeOK'
  <2>1. Booleans /\ Values
    BY TypeParts DEF IInv
  <2>2. Booleans'
    BY <2>1 DEF Booleans, Configure, ClearHalt, Reset
  <2>3. Values'
    <3>1. CASE Configure
      BY <1>1, <2>1, <3>1 DEF Values, Configure
    <3>2. CASE ClearHalt
      BY <1>1, <2>1, <3>2 DEF Values, ClearHalt
    <3>3. CASE Reset
      BY <1>1, <2>1, <3>3 DEF Values, Reset
    <3> QED BY <3>1, <3>2, <3>3
  <2> QED BY <2>2, <2>3, TypePartsNext
<1>3. NoCharacterLost'
  BY <1>1 DEF IInv, NoCharacterLost, Configure, ClearHalt, Reset
<1>4. CharSent' /\ NotLive' /\ StrayBudget'
  <2>1. CASE Configure \/ ClearHalt
    BY <2>1 DEF IInv, TypeOK, CharSent, NotLive, StrayBudget, Configure, ClearHalt
  <2>2. CASE Reset
    BY <2>2 DEF IInv, TypeOK, CharSent, NotLive, StrayBudget, Reset
  <2> QED BY <2>1, <2>2
<1>5. Emptied'
  BY DEF IInv, TypeOK, Emptied, Configure, ClearHalt, Reset
<1> QED BY <1>2, <1>3, <1>4, <1>5 DEF IInv

(* What is in the bank moves to what the host has. *)
LEMMA HostReadsStep == ASSUME IInv, HostReads PROVE IInv'
<1>1. bank \in Seq(Chars) /\ received \in Seq(Chars)
  BY DEF IInv, TypeOK, Chars
<1>2. received' \in Seq(Chars) /\ received' \o <<>> = received \o bank
  BY <1>1, ConcatProperties, ConcatEmptySeq DEF HostReads
<1>3. TypeOK'
  BY <1>2 DEF IInv, TypeOK, HostReads, Chars, local, bus
<1> QED BY <1>2, <1>3 DEF IInv, TypeOK, CharSent, StrayBudget, NotLive, Emptied, NoCharacterLost,
            HostReads, local, bus, Live

LEMMA NextIInv == ASSUME IInv, [Next]_vars PROVE IInv'
<1>1. CASE UNCHANGED vars
  BY <1>1 DEF vars, local, endpoint, history, bus, IInv, TypeOK, CharSent, StrayBudget,
              NotLive, Emptied, NoCharacterLost, Live
<1> QED BY <1>1, QuietStep, TestBankStep, FinishStep, FreshStep, HostReadsStep DEF Next, Program

THEOREM Invariance == Spec => []IInv
BY InitIInv, NextIInv, PTL DEF Spec

(* The types of the state of the calls, the endpoint and the history, and  *)
(* that the count of the frames never passes the timeout.                  *)
THEOREM TypeCorrect == Spec => []TypeOK
<1>1. IInv => TypeOK
  BY DEF IInv
<1> QED BY <1>1, Invariance, PTL

(* SendByte's NoError is kept: what it took is what the host has followed  *)
(* by what is in the bank, for every size of the bank and every timeout.   *)
THEOREM Reliable == Spec => []NoCharacterLost
<1>1. IInv => NoCharacterLost
  BY DEF IInv
<1> QED BY <1>1, Invariance, PTL

(* The reset interrupt, which leaves the control endpoint selected, costs  *)
(* the control endpoint at most one character each time.                   *)
THEOREM StrayBounded == Spec => []StrayPerReset
<1>1. IInv => StrayPerReset
  BY DEF IInv, TypeOK, StrayBudget, StrayPerReset
<1> QED BY <1>1, Invariance, PTL
=============================================================================
