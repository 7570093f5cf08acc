-------------------------------- MODULE Alarm --------------------------------
(***************************************************************************)
(* The pass alarm of ISS-Notify.c and hardware/rtc.c: the clock chip pulls *)
(* the line of INT3 low, the level-triggered handler masks itself and sets *)
(* a flag, and the main loop clears the alarm in the chip and unmasks.     *)
(*                                                                         *)
(* The writes that clear the alarm do not wait for the bus (TwiPort): they *)
(* land in the chip while the main loop goes on, or are refused unnoticed. *)
(*                                                                         *)
(* The command that calls set_alarm0 is commented out (commands.c): the    *)
(* firmware as built is the behaviours in which it is never taken, where   *)
(* the battery-backed chip may still hold an alarm that was set before.    *)
(***************************************************************************)
EXTENDS Integers

VARIABLES
  loop,    \* the statement the main loop is at
  alarm, pass,
  INT3,    \* the bit of EIMSK: the interrupt is unmasked
  xfer,    \* the register write on the bus, or "none"
  ALM0,    \* the chip: alarm 0 is switched on (bit of register 0x07),
  OUT,     \* the level of the line while it is off (bit of register 0x07),
  ALM0IF   \* alarm 0 has gone off (bit of register 0x0D)

chip      == <<ALM0, OUT, ALM0IF>>
program   == <<loop, alarm, pass, INT3>>
alarmVars == <<program, xfer, chip>>

Labels == {"listen", "set_time", "set_on", "test", "clear_flag", "clear_on",
           "pass", "unmask", "zero", "show", "rearm"}

(* The writes: registers 0x0A..0x10 and 0x07 of set_alarm0, registers 0x0D *)
(* and 0x07 of clear_alarm0.                                               *)
Writes == {"time", "on", "flag", "off"}

LineLow == IF ALM0 THEN ALM0IF ELSE ~OUT

(* After Setup_Hardware and sei: RTC_Init unmasked INT3.  The chip was     *)
(* last written by set_alarm0 or by clear_alarm0 (or by its own reset).    *)
AlarmInit ==
  /\ loop = "listen" /\ alarm = 0 /\ pass = 0 /\ INT3 = TRUE
  /\ xfer = "none"
  /\ ALM0 \in BOOLEAN /\ OUT = ~ALM0 /\ ALM0IF \in BOOLEAN

-----------------------------------------------------------------------------
(* The main loop *)

Goto(from, to) == loop = from /\ loop' = to

(* twi_writeTo without waiting: spin until the bus is free, then return    *)
(* while the write is under way.                                           *)
Post(w) == xfer = "none" /\ xfer' = w

(* The command handlers; one of them enters set_alarm0, which reads the    *)
(* weekday once the bus is free.                                           *)
Listen ==
  /\ \/ Goto("listen", "test")
     \/ xfer = "none" /\ Goto("listen", "set_time")
  /\ UNCHANGED <<alarm, pass, INT3, xfer, chip>>

set_alarm0 ==
  /\ \/ Goto("set_time", "set_on") /\ Post("time")
     \/ Goto("set_on", "test") /\ Post("on")
  /\ UNCHANGED <<alarm, pass, INT3, chip>>

(* Mutant: the flag is expected to count. *)
TestAlarmAboveOne ==
  /\ \/ alarm > 1 /\ Goto("test", "clear_flag")
     \/ alarm <= 1 /\ Goto("test", "show")
  /\ UNCHANGED <<alarm, pass, INT3, xfer, chip>>

TestAlarm ==
  /\ \/ alarm > 0 /\ Goto("test", "clear_flag")
     \/ alarm = 0 /\ Goto("test", "show")
  /\ UNCHANGED <<alarm, pass, INT3, xfer, chip>>

(* Mutant: the alarm is acknowledged but not switched off. *)
clear_alarm0_FlagOnly ==
  /\ \/ Goto("clear_flag", "clear_on") /\ Post("flag")
     \/ Goto("clear_on", "pass") /\ UNCHANGED xfer
  /\ UNCHANGED <<alarm, pass, INT3, chip>>

clear_alarm0 ==
  /\ \/ Goto("clear_flag", "clear_on") /\ Post("flag")
     \/ Goto("clear_on", "pass") /\ Post("off")
  /\ UNCHANGED <<alarm, pass, INT3, chip>>

SetPass ==
  /\ Goto("pass", "unmask")
  /\ pass' = 1
  /\ UNCHANGED <<alarm, INT3, xfer, chip>>

Unmask ==
  /\ Goto("unmask", "zero")
  /\ INT3' = TRUE
  /\ UNCHANGED <<alarm, pass, xfer, chip>>

(* From the statement above to this one the handler may have run again. *)
ZeroAlarm ==
  /\ Goto("zero", "show")
  /\ alarm' = 0
  /\ UNCHANGED <<pass, INT3, xfer, chip>>

(* The rainbow, the LEDs and the USB tasks. *)
Show ==
  /\ Goto("show", "rearm")
  /\ UNCHANGED <<alarm, pass, INT3, xfer, chip>>

(* Mutant: the braces that the indentation suggests. *)
RearmIfReset ==
  /\ Goto("rearm", "listen")
  /\ UNCHANGED <<alarm, pass, INT3, xfer, chip>>

(* Nothing sets reset_alarm, so the clear_alarm0 that it guards never runs.*)
(* The guard has no braces: INT3 is unmasked in every round of the loop.   *)
Rearm ==
  /\ Goto("rearm", "listen")
  /\ INT3' = TRUE
  /\ UNCHANGED <<alarm, pass, xfer, chip>>

Main == \/ Listen \/ set_alarm0 \/ TestAlarm \/ clear_alarm0
        \/ SetPass \/ Unmask \/ ZeroAlarm \/ Show \/ Rearm

-----------------------------------------------------------------------------
(* Mutant: the handler counts the alarms. *)
INT3_vect_Counts ==
  /\ INT3 /\ LineLow
  /\ INT3' = FALSE
  /\ alarm' = alarm + 1
  /\ UNCHANGED <<loop, pass, xfer, chip>>

(* The handler, between any two statements of the main loop. *)
INT3_vect ==
  /\ INT3 /\ LineLow
  /\ INT3' = FALSE
  /\ alarm' = 1
  /\ UNCHANGED <<loop, pass, xfer, chip>>

-----------------------------------------------------------------------------
(* The chip (external).  A write lands, or is refused or lost. *)

Land ==
  /\ xfer \in Writes
  /\ xfer' = "none"
  /\ ALM0IF' = IF xfer \in {"time", "flag"} THEN FALSE ELSE ALM0IF
  /\ ALM0' = IF xfer \in {"on", "off"} THEN xfer = "on" ELSE ALM0
  /\ OUT' = IF xfer \in {"on", "off"} THEN xfer = "off" ELSE OUT
  /\ UNCHANGED program

Refuse ==
  /\ xfer \in Writes
  /\ xfer' = "none"
  /\ UNCHANGED <<program, chip>>

(* The time matches an alarm that is on. *)
GoOff ==
  /\ ALM0 /\ ~ALM0IF
  /\ ALM0IF' = TRUE
  /\ UNCHANGED <<program, xfer, ALM0, OUT>>

AlarmNext == Main \/ INT3_vect \/ Land \/ Refuse \/ GoOff

AlarmSpec == AlarmInit /\ [][AlarmNext]_alarmVars

(* The main loop and the handler run, every transfer ends, and a write     *)
(* that is repeated again and again is not refused for ever.               *)
Fairness == /\ WF_alarmVars(Main) /\ WF_alarmVars(INT3_vect)
            /\ WF_alarmVars(Land \/ Refuse)
            /\ \A w \in Writes : SF_alarmVars(xfer = w /\ Land)

FairSpec == AlarmSpec /\ Fairness

-----------------------------------------------------------------------------
AlarmTypeOK ==
  /\ loop \in Labels
  /\ alarm \in {0, 1} /\ pass \in {0, 1} /\ INT3 \in BOOLEAN
  /\ xfer \in Writes \cup {"none"}
  /\ ALM0 \in BOOLEAN /\ OUT \in BOOLEAN /\ ALM0IF \in BOOLEAN

(* INT3 is unmasked before alarm is zeroed (ISS-Notify.c:221-222), so the  *)
(* flag of a second alarm can be wiped out with the interrupt masked.  It  *)
(* is never forgotten: whenever the interrupt is masked the flag is set,   *)
(* or the loop has yet to pass the unconditional unmasking at its end.     *)
AlarmNotForgotten ==
  ~INT3 => alarm = 1 \/ loop \in {"show", "rearm"}

(* However the writes, the handler and the loop interleave, and however    *)
(* often a write is refused, a line pulled low is released.                *)
LineReleased == LineLow ~> ~LineLow

(* Once no alarm is set any more, the line and the flag come to rest: the  *)
(* alarm that clear_alarm0 switched off does not go off every minute, and  *)
(* the interrupts raised while its writes were on the bus do not go on.    *)
ComesToRest ==
  <>[](loop \notin {"set_time", "set_on"}) => <>[](~LineLow /\ alarm = 0)
==============================================================================
