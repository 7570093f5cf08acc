------------------------------- MODULE TwiPort -------------------------------
(***************************************************************************)
(* What library/twi.c promises its callers, without its interrupt handler, *)
(* its buffer and its registers: transfers go over the bus one at a time,  *)
(* in the order of the calls, each carries bytes of its own call only, and *)
(* a call that waits is told how its own transfer ended.  A write that     *)
(* does not wait may be answered while its transfer is still open, and is  *)
(* then told that it succeeded.  Twi implements this specification.        *)
(***************************************************************************)
EXTENDS Integers, Sequences

CONSTANTS Byte, Calls, Capacity

VARIABLES
  caller,  \* "idle", "asked" (its transfer has not begun) or "given"
  call, ret,
  xfer     \* the transfer: its call, the bytes moved, and "open" or its end

vars == <<caller, call, ret, xfer>>

Ends == {"done", "address", "data", "fault"}

(* The code of a write by the end of its transfer; an open one counts as done. *)
Code(end) == CASE end = "address" -> 2
               [] end = "data"    -> 3
               [] end = "fault"   -> 4
               [] OTHER           -> 0

Init ==
  /\ caller = "idle"
  /\ call \in Calls
  /\ ret = [op |-> "none", code |-> 0, data |-> <<>>]
  /\ xfer = [call |-> call, moved |-> <<>>, end |-> "done"]

Ask(c) ==
  /\ caller = "idle"
  /\ call' = c
  /\ \/ /\ c.length <= Capacity
        /\ caller' = "asked"
        /\ ret' = ret
     \/ /\ c.length > Capacity
        /\ caller' = caller
        /\ ret' = [op |-> c.op, code |-> 1, data |-> <<>>]
  /\ UNCHANGED xfer

Begin ==
  /\ caller = "asked"
  /\ xfer.end # "open"
  /\ xfer' = [call |-> call, moved |-> <<>>, end |-> "open"]
  /\ caller' = "given"
  /\ UNCHANGED <<call, ret>>

(* The next byte of the call, or of the slave when the call is a read. *)
Move ==
  /\ xfer.end = "open"
  /\ Len(xfer.moved) < xfer.call.length
  /\ \E b \in Byte :
       /\ xfer.call.op = "write" => b = xfer.call.data[Len(xfer.moved) + 1]
       /\ xfer' = [call |-> xfer.call, moved |-> Append(xfer.moved, b), end |-> "open"]
  /\ UNCHANGED <<caller, call, ret>>

(* A transfer is done when, and only when, all its bytes have moved. *)
End(e) ==
  /\ xfer.end = "open"
  /\ e = "done" => Len(xfer.moved) = xfer.call.length
  /\ e = "address" => xfer.moved = <<>>
  /\ e = "data" => Len(xfer.moved) < xfer.call.length /\ xfer.call.op = "write"
  /\ xfer' = [xfer EXCEPT !.end = e]
  /\ UNCHANGED <<caller, call, ret>>

Answer ==
  /\ caller = "given"
  /\ call.wait => xfer.end # "open"
  /\ ret' = [op   |-> call.op,
             code |-> IF call.op = "write" THEN Code(xfer.end) ELSE 0,
             data |-> IF call.op = "write" THEN <<>> ELSE xfer.moved]
  /\ caller' = "idle"
  /\ UNCHANGED <<call, xfer>>

Next == \/ \E c \in Calls : Ask(c)
        \/ Begin
        \/ Move
        \/ \E e \in Ends : End(e)
        \/ Answer

Spec == Init /\ [][Next]_vars
==============================================================================
