--------------------------------- MODULE Led ---------------------------------
(***************************************************************************)
(* The LED driver of hardware/led.c: the frame it clocks into the chain of *)
(* two TLC5971 chips, and what the chips make of it.                       *)
(***************************************************************************)
EXTENDS Integers, Sequences

LEDs     == 0..7
Channels == {"blue", "green", "red"}

(* The low len bits of a word go out, the highest first: as a piece of the *)
(* frame, the number they make and their count.                            *)
write_word(word, len) == <<[value |-> word % 2^len, bits |-> len]>>

TLC_WRITE  == 37
TLC_TMGRST == 4
TLC_DSPRPT == 2

(* The command, the configuration and the brightness of a chip. *)
Head32(wb) ==
  write_word(TLC_WRITE, 6) \o write_word(TLC_TMGRST + TLC_DSPRPT, 5)
    \o write_word(wb.blue, 7) \o write_word(wb.green, 7) \o write_word(wb.red, 7)

Light(light) ==
  write_word(light.blue, 16) \o write_word(light.green, 16) \o write_word(light.red, 16)

(* The frame of the chip that drives the four lights from i on. *)
Chip(lights, wb, i) ==
  Head32(wb) \o Light(lights[i]) \o Light(lights[i + 1])
    \o Light(lights[i + 2]) \o Light(lights[i + 3])

(* Mutant: both chips are sent the first four lights. *)
ledFirstFour(lights, wb) == Chip(lights, wb, 0) \o Chip(lights, wb, 0)

led(lights, wb) == Chip(lights, wb, 0) \o Chip(lights, wb, 4)

-----------------------------------------------------------------------------
(* The chips (external): each cuts its 224 bits into fields of these       *)
(* widths, so that a frame makes sense only if its pieces have them.       *)

Layout == <<6, 5, 7, 7, 7>> \o [k \in 1..12 |-> 16]

WellFormed(frame) == [k \in DOMAIN frame |-> frame[k].bits] = Layout \o Layout

Triple(frame, k) ==
  [blue |-> frame[k].value, green |-> frame[k + 1].value, red |-> frame[k + 2].value]

(* What the two chips show once the frame has been shifted in. *)
Latched(frame) ==
  LET At(k) == k * Len(Layout)
  IN  [k \in {n \in 0..1 : WellFormed(frame)} |->
         [command    |-> frame[At(k) + 1].value,
          brightness |-> Triple(frame, At(k) + 3),
          grey       |-> [j \in 0..3 |-> Triple(frame, At(k) + 6 + 3 * j)]]]
==============================================================================
