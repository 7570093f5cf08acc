------------------------------- MODULE Rainbow -------------------------------
(***************************************************************************)
(* The rainbow of the main loop (ISS-Notify.c), paced by a millisecond     *)
(* counter that a timer interrupt advances.  The counter is wider than the *)
(* registers of the processor: millis() loads it a byte at a time, lowest  *)
(* first, and the interrupt may come between two loads.                    *)
(***************************************************************************)
EXTENDS Led

CONSTANTS
  Base,    \* the values of a byte of ms: 256
  Width,   \* the bytes of ms: 4
  Period,  \* the pace of the rainbow: 80
  MaxLag   \* bound: the ticks between two steps of the main loop

ASSUME BaseAssumption   == Base \in Nat /\ Base > 1
ASSUME WidthAssumption  == Width \in Nat \ {0}
ASSUME PeriodAssumption == Period \in 1..Base-1
ASSUME LagAssumption    == MaxLag \in Nat \ {0}

Power[n \in 0..Width] == IF n = 0 THEN 1 ELSE Base * Power[n - 1]
Range32 == Power[Width]            \* 2^32: where ms and its differences wrap
Byte(n, k) == (n \div Power[k]) % Base

VARIABLES
  ms,
  step,            \* the main loop: "listen", "load", "pace" or "show"
  do_rainbow, previousMillis, bow_rotate,
  colours,         \* show[]: for each LED a colour of the rainbow, Off or Plain
  loaded, value,   \* millis(): bytes loaded so far, and their value
  lag              \* history: the ticks since the last step of the main loop

pace == <<do_rainbow, previousMillis, bow_rotate>>
load == <<loaded, value>>
rainbowVars == <<ms, step, pace, colours, load, lag>>

Off   == -1              \* no light,
Plain == -2              \* and a colour a command sets
All(c) == [j \in LEDs |-> c]

RainbowInit ==
  /\ ms = 0 /\ step = "listen"
  /\ do_rainbow = FALSE /\ previousMillis = 0 /\ bow_rotate = 0
  /\ colours = All(Off)
  /\ loaded = 0 /\ value = 0 /\ lag = 0

(* Mutant: the counter sticks at its last value. *)
TIMER3_COMPA_vect_Sticks ==
  /\ lag < MaxLag /\ lag' = lag + 1
  /\ ms' = IF ms = Range32 - 1 THEN ms ELSE ms + 1
  /\ UNCHANGED <<step, pace, colours, load>>

TIMER3_COMPA_vect ==
  /\ lag < MaxLag /\ lag' = lag + 1
  /\ ms' = (ms + 1) % Range32
  /\ UNCHANGED <<step, pace, colours, load>>

toggle_rainbow ==
  /\ do_rainbow' = ~do_rainbow
  /\ colours' = IF do_rainbow THEN All(Off) ELSE colours

(* show_color, wb_red, wb_green and wb_blue put one colour on all the LEDs, *)
(* set_wb darkens them; the others, or none, leave them alone.             *)
OtherCommand ==
  /\ colours' \in {colours, All(Plain), All(Off)}
  /\ UNCHANGED do_rainbow

HandleCommand ==
  /\ step = "listen"
  /\ toggle_rainbow \/ OtherCommand
  /\ step' = IF do_rainbow' THEN "load" ELSE "listen"
  /\ loaded' = 0 /\ value' = 0
  /\ UNCHANGED <<ms, previousMillis, bow_rotate>>

(* One load instruction of millis(). *)
millis ==
  /\ step = "load"
  /\ loaded < Width
  /\ value' = value + Byte(ms, loaded) * Power[loaded]
  /\ loaded' = loaded + 1
  /\ step' = IF loaded' = Width THEN "pace" ELSE "load"
  /\ UNCHANGED <<ms, pace, colours>>

Since(t) == (t - previousMillis) % Range32   \* uint32_t arithmetic

Pace ==
  /\ step = "pace"
  /\ \/ /\ Since(value) > Period
        /\ previousMillis' = value
        /\ bow_rotate' = bow_rotate + 1
     \/ /\ Since(value) <= Period
        /\ UNCHANGED <<previousMillis, bow_rotate>>
  /\ step' = "show"
  /\ UNCHANGED <<ms, do_rainbow, colours, load>>

(* Mutant: the wrap to the front of rainbow[] is off by one. *)
ColourOffByOne(j) ==
  IF j + bow_rotate > 7 THEN bow_rotate - (7 - j) ELSE j + bow_rotate

(* The index into rainbow[] for LED j. *)
Colour(j) == IF j + bow_rotate > 7 THEN bow_rotate - (8 - j) ELSE j + bow_rotate

(* Mutant: the rotation is never taken back to 0. *)
DisplayNoReset ==
  /\ step = "show"
  /\ colours' = [j \in LEDs |-> Colour(j)]
  /\ step' = "listen"
  /\ UNCHANGED <<ms, pace, load>>

Display ==
  /\ step = "show"
  /\ colours' = [j \in LEDs |-> Colour(j)]
  /\ bow_rotate' = IF bow_rotate > 7 THEN 0 ELSE bow_rotate
  /\ step' = "listen"
  /\ UNCHANGED <<ms, do_rainbow, previousMillis, load>>

MainLoop == (HandleCommand \/ millis \/ Pace \/ Display) /\ lag' = 0

RainbowNext == TIMER3_COMPA_vect \/ MainLoop

RainbowSpec == RainbowInit /\ [][RainbowNext]_rainbowVars

(* The timer ticks and the main loop runs: a round of it takes far less    *)
(* than the counter needs to wrap.                                         *)
RainbowFairness == WF_rainbowVars(TIMER3_COMPA_vect) /\ WF_rainbowVars(MainLoop)

RainbowFairSpec == RainbowSpec /\ RainbowFairness

-----------------------------------------------------------------------------
RainbowTypeOK ==
  /\ ms \in 0..Range32-1
  /\ step \in {"listen", "load", "pace", "show"}
  /\ do_rainbow \in BOOLEAN
  /\ previousMillis \in 0..Range32-1
  /\ bow_rotate \in 0..8
  /\ colours \in [LEDs -> LEDs \cup {Off, Plain}]
  /\ loaded \in 0..Width /\ value \in 0..Range32-1

(* The LEDs show one colour, or the whole rainbow from some colour on:     *)
(* every index the main loop computes is inside rainbow[], bow_rotate = 8  *)
(* included, and a round never mixes a command's colour into the rainbow.  *)
ShowsARotation ==
  \/ colours \in {All(Off), All(Plain)}
  \/ \E r \in LEDs : \A j \in LEDs : colours[j] = (j + r) % 8

(* As long as it is on, the rainbow turns again and again: neither the     *)
(* wrap of the counter nor a torn value in previousMillis stops it.        *)
KeepsTurning == \A r \in 0..8 :
  (do_rainbow /\ bow_rotate = r) ~> (~do_rainbow \/ bow_rotate # r)
==============================================================================
