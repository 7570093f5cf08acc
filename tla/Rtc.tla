--------------------------------- MODULE Rtc ---------------------------------
(***************************************************************************)
(* Reading and setting the clock: the commands say_time and set_clock of   *)
(* commands.c, over get_time, set_time and reset_rtc of hardware/rtc.c,    *)
(* and the clock chip, which goes on counting meanwhile.                   *)
(*                                                                         *)
(* get_time reads each register in a transaction of its own, and set_time  *)
(* writes the time of day and the date in two that it does not wait for    *)
(* (TwiPort): a second may pass between any two of them, and the chip may  *)
(* refuse any byte.                                                        *)
(***************************************************************************)
EXTENDS Bcd, Sequences

CONSTANTS
  Clocks,    \* times at which the chip may stand when the program starts
  Requests,  \* times that set_clock may be asked to set
  MaxTicks,  \* bound: the seconds that pass
  MaxFaults  \* bound: the transfers that the chip refuses

(* A time is a function of the chip's register numbers. *)
Second == 0
Minute == 1
Hour   == 2
Day    == 4
Month  == 5
Year   == 6
Fields == {Second, Minute, Hour, Day, Month, Year}

Highest(f) == CASE f \in {Second, Minute} -> 59
                [] f = Hour  -> 23
                [] f = Day   -> 31
                [] f = Month -> 12
                [] OTHER     -> 99

IsTime(t) == t \in [Fields -> Nat] /\ \A f \in Fields : t[f] <= Highest(f)

ASSUME ClocksAssumption   == \A t \in Clocks : IsTime(t)
ASSUME RequestsAssumption == \A t \in Requests : IsTime(t)
ASSUME BoundsAssumption   == MaxTicks \in Nat /\ MaxFaults \in Nat

VARIABLES
  pc,     \* the program: "idle", "read", or a statement of set_clock
  t,      \* its local time: read so far, or to be set
  reply,  \* what the last command answered
  xfer,   \* the write on the bus: its first register and its bytes, or None
  clock,  \* the chip: the time,
  ST,     \* whether the oscillator runs (bit 7 of register 0),
  VBATEN, \* and whether the battery backs it (bit 3 of register 3)
  ticks, faults,
  seen,   \* history: the times the chip showed since the command began,
  rolled, \* whether the seconds rolled over since then,
  missed, \* the registers that could not be read since then,
  goal,   \* the time the chip should show after set_time, once half is set,
  spoilt  \* whether a byte was refused, or midnight fell between the halves

program == <<pc, t, reply>>
chip    == <<clock, ST, VBATEN>>
bounds  == <<ticks, faults>>
history == <<seen, rolled, missed, goal, spoilt>>
vars    == <<program, xfer, chip, bounds, history>>

None == [reg |-> 0, bytes |-> <<>>]
NoTime == [f \in Fields |-> 0]

Init ==
  /\ pc = "idle" /\ t = NoTime /\ reply = [kind |-> "none", time |-> NoTime]
  /\ xfer = None
  /\ clock \in Clocks /\ ST = TRUE /\ VBATEN \in BOOLEAN
  /\ ticks = 0 /\ faults = 0
  /\ seen = {clock} /\ rolled = FALSE /\ missed = {} /\ goal = clock /\ spoilt = TRUE

-----------------------------------------------------------------------------
(* The chip (external) *)

DaysIn(month, year) == CASE month = 2 -> IF year % 4 = 0 THEN 29 ELSE 28
                         [] month \in {4, 6, 9, 11} -> 30
                         [] OTHER -> 31

(* The fields that a second rolls over at c: each when the one below does. *)
Full(c, f) == CASE f \in {Second, Minute} -> c[f] = 59
                [] f = Hour  -> c[f] = 23
                [] f = Day   -> c[f] >= DaysIn(c[Month], c[Year])
                [] f = Month -> c[f] = 12
                [] OTHER     -> c[f] = 99

Lower(f) == {g \in Fields : g < f}

(* One second later. *)
Later(c) == [f \in Fields |->
  IF \E g \in Lower(f) : ~Full(c, g) THEN c[f]
  ELSE IF Full(c, f) THEN (IF f \in {Day, Month} THEN 1 ELSE 0)
  ELSE c[f] + 1]

(* Two digits as a byte, and back. *)
Byte(n) == CHOOSE b \in 0..255 : IsBcd(b, n)
Digits(byte) == CHOOSE n \in 0..99 : IsBcd(byte, n)

(* The byte in register f; the month's carries the leap year flag, bit 5.  *)
Register(f) == CASE f = Second -> Byte(clock[f]) + (IF ST THEN 128 ELSE 0)
                 [] f = Month  -> Byte(clock[f]) + (IF clock[Year] % 4 = 0 THEN 32 ELSE 0)
                 [] OTHER      -> Byte(clock[f])

(* The first k bytes of a write, into consecutive registers from reg. *)
Written(w, k) == [f \in w.reg..(w.reg + k - 1) |-> w.bytes[f - w.reg + 1]]

(* The time of day has been set, the date not yet. *)
HalfSet == \/ pc = "date" /\ xfer = None
           \/ xfer.reg = Day

Tick ==
  /\ ST /\ ticks < MaxTicks
  /\ ticks' = ticks + 1
  /\ clock' = Later(clock)
  /\ seen' = seen \cup {clock'}
  /\ rolled' = (rolled \/ clock'[Second] = 0)
  /\ goal' = Later(goal)
  /\ spoilt' = (spoilt \/ (HalfSet /\ clock'[Day] # clock[Day]))
  /\ UNCHANGED <<program, xfer, ST, VBATEN, faults, missed>>

(* A write ends on the bus: all its bytes taken, or only the first k. *)
Land(k) ==
  /\ xfer # None /\ k \in 0..Len(xfer.bytes)
  /\ LET w == Written(xfer, k)
     IN  /\ clock' = [f \in Fields |->
              IF f \notin DOMAIN w THEN clock[f]
              ELSE Digits(IF f = Second THEN w[f] % 128 ELSE w[f])]
         /\ ST' = IF Second \in DOMAIN w THEN w[Second] >= 128 ELSE ST
         /\ VBATEN' = IF 3 \in DOMAIN w THEN (w[3] \div 8) % 2 = 1 ELSE VBATEN
  /\ goal' = IF pc = "date" THEN t ELSE goal
  /\ spoilt' = (spoilt \/ k < Len(xfer.bytes))
  /\ k < Len(xfer.bytes) => faults < MaxFaults
  /\ faults' = IF k < Len(xfer.bytes) THEN faults + 1 ELSE faults
  /\ seen' = seen \cup {clock'}
  /\ xfer' = None
  /\ UNCHANGED <<program, ticks, rolled, missed>>

-----------------------------------------------------------------------------
(* The program *)

(* twi_writeTo without waiting, once the bus is free. *)
Post(reg, bytes) == xfer = None /\ xfer' = [reg |-> reg, bytes |-> bytes]

Begin(label) ==
  /\ pc = "idle"
  /\ pc' = label
  /\ reply' = [kind |-> "none", time |-> NoTime]
  /\ seen' = {clock} /\ rolled' = FALSE /\ missed' = {}

(* read_address: 0 when the chip refuses the address or sends nothing. *)
ReadAddress(f) ==
  /\ xfer = None
  /\ \/ /\ t' = [t EXCEPT ![f] = Register(f)]
        /\ UNCHANGED <<faults, missed>>
     \/ /\ t' = [t EXCEPT ![f] = 0] /\ missed' = missed \cup {f}
        /\ faults < MaxFaults /\ faults' = faults + 1

(* Mutant: the control bits of the registers are not masked out. *)
DecodeUnmasked(f, byte) == bcd2dec(byte)

Decode(f, byte) == bcd2dec(CASE f \in {Second, Minute} -> And7f(byte)
                             [] f \in {Hour, Day}      -> And3f(byte)
                             [] f = Month              -> And1f(byte)
                             [] OTHER                  -> byte)

say_time ==
  /\ Begin("second")
  /\ UNCHANGED <<t, xfer, chip, bounds, goal, spoilt>>

ReadOrder == [second |-> Second, minute |-> Minute, hour |-> Hour,
              day |-> Day, month |-> Month, year |-> Year]
After == [second |-> "minute", minute |-> "hour", hour |-> "day",
          day |-> "month", month |-> "year", year |-> "say"]

get_time ==
  /\ pc \in DOMAIN ReadOrder
  /\ ReadAddress(ReadOrder[pc])
  /\ pc' = After[pc]
  /\ UNCHANGED <<reply, xfer, chip, ticks, seen, rolled, goal, spoilt>>

(* mktime, and the answer. *)
Say ==
  /\ pc = "say"
  /\ reply' = [kind |-> "time", time |-> [f \in Fields |-> Decode(f, t[f])]]
  /\ pc' = "idle" /\ t' = NoTime
  /\ UNCHANGED <<xfer, chip, bounds, history>>

set_clock ==
  /\ Begin("backup")
  /\ UNCHANGED <<t, xfer, chip, bounds, goal, spoilt>>

reset_rtc ==
  /\ \/ pc = "backup" /\ Post(3, <<8>>) /\ pc' = "start"
     \/ pc = "start" /\ Post(0, <<128>>) /\ pc' = "parse"
  /\ UNCHANGED <<t, reply, chip, bounds, history>>

(* The time is read from the serial line only now. *)
Parse ==
  /\ pc = "parse"
  /\ \/ /\ \E r \in Requests : t' = r
        /\ pc' = "time"
        /\ reply' = reply
     \/ /\ reply' = [kind |-> "err", time |-> NoTime]
        /\ pc' = "idle"
        /\ t' = t
  /\ UNCHANGED <<xfer, chip, bounds, history>>

Encode(f) == dec2bcd(CASE f \in {Second, Minute} -> And7f(t[f])
                       [] f \in {Hour, Day}      -> And3f(t[f])
                       [] f = Month              -> And1f(t[f])
                       [] OTHER                  -> t[f])

(* Mutants: the oscillator is not kept running; day and month swapped. *)
SetTimeOfDayStopped ==
  /\ pc = "time"
  /\ Post(0, <<Encode(Second), Encode(Minute), Encode(Hour)>>)
  /\ pc' = "date"
  /\ spoilt' = FALSE
  /\ UNCHANGED <<t, reply, chip, bounds, seen, rolled, missed, goal>>

SetDateSwapped ==
  /\ pc = "date"
  /\ Post(4, <<Encode(Month), Encode(Day), Encode(Year)>>)
  /\ pc' = "dated"
  /\ UNCHANGED <<t, reply, chip, bounds, history>>

(* set_time: the time of day, with ST, then the date. *)
SetTimeOfDay ==
  /\ pc = "time"
  /\ Post(0, <<uint8_t(Encode(Second) + 128), Encode(Minute), Encode(Hour)>>)
  /\ pc' = "date"
  /\ spoilt' = FALSE
  /\ UNCHANGED <<t, reply, chip, bounds, seen, rolled, missed, goal>>

SetDate ==
  /\ pc = "date"
  /\ Post(4, <<Encode(Day), Encode(Month), Encode(Year)>>)
  /\ pc' = "dated"
  /\ UNCHANGED <<t, reply, chip, bounds, history>>

SaySet ==
  /\ pc = "dated"
  /\ reply' = [kind |-> "set", time |-> NoTime]
  /\ pc' = "idle" /\ t' = NoTime
  /\ UNCHANGED <<xfer, chip, bounds, history>>

Program == \/ say_time \/ get_time \/ Say \/ set_clock \/ reset_rtc \/ Parse
           \/ SetTimeOfDay \/ SetDate \/ SaySet

Next == Program \/ Tick \/ \E k \in 0..3 : Land(k)

Spec == Init /\ [][Next]_vars

-----------------------------------------------------------------------------
(* Properties *)

Labels == {"idle", "second", "minute", "hour", "day", "month", "year", "say",
           "backup", "start", "parse", "time", "date", "dated"}

TypeOK ==
  /\ pc \in Labels
  /\ t \in [Fields -> 0..255]
  /\ reply.kind \in {"none", "time", "set", "err"}
  /\ xfer.reg \in 0..6 /\ xfer.bytes \in Seq(0..255)
  /\ IsTime(clock) /\ ST \in BOOLEAN /\ VBATEN \in BOOLEAN
  /\ ticks \in 0..MaxTicks /\ faults \in 0..MaxFaults

(* What say_time answers for a register at c: 0 exactly when the register  *)
(* could not be read.                                                      *)
Told(c, f) == IF f \in missed THEN 0 ELSE c[f]

(* say_time answers, through the masks and the decimal coding both ways,   *)
(* what the chip showed during the call, field by field; and all fields    *)
(* are of one time, although they are read one by one while the chip       *)
(* counts, as long as the seconds do not roll over meanwhile.  A register  *)
(* shows as 0 when it could not be read, and only then.                    *)
SayTimeHonest ==
  pc = "idle" /\ reply.kind = "time" =>
    /\ \A f \in Fields : \E c \in seen : reply.time[f] = Told(c, f)
    /\ ~rolled => \E c \in seen : \A f \in Fields : reply.time[f] = Told(c, f)

(* After set_clock answered "set" and its writes have landed whole, the    *)
(* clock runs and shows the time asked for, and counts on from it, unless  *)
(* midnight fell between its two writes.                                   *)
SetClockWorks ==
  pc = "idle" /\ reply.kind = "set" /\ xfer = None /\ ~spoilt =>
    clock = goal /\ ST
==============================================================================
