-------------------------------- MODULE Lights --------------------------------
(***************************************************************************)
(* The lights and their white balance: the commands wb_red, wb_green,      *)
(* wb_blue, set_wb and show_color of commands.c, the rounds of the main    *)
(* loop that refresh the LEDs, and the restart, which takes the balance    *)
(* back from the EEPROM (Setup_Hardware).  Power may be lost between any   *)
(* two EEPROM bytes.                                                       *)
(***************************************************************************)
EXTENDS Led

CONSTANTS
  Balances,  \* the balances that set_wb may be asked for, as ints
  Levels,    \* the values that wb_red, wb_green and wb_blue may be given
  Colors     \* the colours that show_color may be given

ASSUME BalancesAssumption == Balances \subseteq [Channels -> Int]
ASSUME LevelsAssumption   == Levels \subseteq Int
ASSUME ColorsAssumption   == Colors \subseteq [Channels -> Int]

VARIABLES
  pc,           \* "idle", or the EEPROM byte that set_wb writes next
  arg,          \* the locals b, g, r of set_wb
  TLC_WB,       \* TLC_Blue_WB, TLC_Green_WB and TLC_Red_WB
  NonVolatile,  \* NonVolatile_Blue_WB, NonVolatile_Green_WB and _Red_WB
  show,
  latched,      \* what the chips were last sent
  reply,
  balance,      \* history: the balance of the last set_wb that answered,
  intact,       \* whether no set_wb has written to the EEPROM since,
  preview       \* and whether a wb_ command changed it since or since the start

history == <<balance, intact, preview>>
vars == <<pc, arg, TLC_WB, NonVolatile, show, latched, reply, history>>

uint8(n)  == n % 256
uint16(n) == n % 2^16
Uint16    == 0..(2^16 - 1)

AllTo(light) == [j \in LEDs |-> light]
Grey(n)      == [c \in Channels |-> n]

rainbow ==
  LET Of(b, g, r) == [blue |-> b, green |-> g, red |-> r]
  IN  << Of(65535, 0, 0), Of(65535, 49151, 0), Of(32767, 65535, 0),
         Of(0, 65535, 16383), Of(0, 65535, 65535), Of(0, 16383, 65535),
         Of(32767, 0, 65535), Of(65535, 0, 49151) >>

(* led(show), and the chips after it. *)
Refresh == \E frame \in {led(show', TLC_WB')} : latched' = Latched(frame)

Dark == AllTo(Grey(0))

(* A new device: the EEPROM is erased.  After Setup_Hardware and the       *)
(* startup animation.                                                      *)
Init ==
  /\ pc = "idle" /\ arg = Grey(0)
  /\ NonVolatile = Grey(255) /\ TLC_WB = Grey(255)
  /\ show = Dark
  /\ latched = Latched(led(Dark, Grey(255)))
  /\ reply = "none"
  /\ balance = Grey(255) /\ intact = TRUE /\ preview = FALSE

-----------------------------------------------------------------------------
(* Mutant: the variable is an int. *)
WhiteBalanceInt(c, v) ==
  /\ pc = "idle"
  /\ show' = AllTo(Grey(65535))
  /\ TLC_WB' = [TLC_WB EXCEPT ![c] = v]
  /\ Refresh
  /\ reply' = "set" /\ preview' = TRUE
  /\ UNCHANGED <<pc, arg, NonVolatile, balance, intact>>

(* wb_blue, wb_green and wb_red *)
WhiteBalance(c, v) ==
  /\ pc = "idle"
  /\ show' = AllTo(Grey(65535))
  /\ TLC_WB' = [TLC_WB EXCEPT ![c] = uint8(v)]
  /\ Refresh
  /\ reply' = "set" /\ preview' = TRUE
  /\ UNCHANGED <<pc, arg, NonVolatile, balance, intact>>

set_wb(wb) ==
  /\ pc = "idle"
  /\ show' = Dark
  /\ TLC_WB' = [c \in Channels |-> uint8(wb[c])]
  /\ arg' = wb
  /\ pc' = "blue"
  /\ reply' = "none"
  /\ UNCHANGED <<NonVolatile, latched, history>>

(* eeprom_update_byte writes only a byte that differs. *)
StoreByte(from, to) ==
  /\ pc = from
  /\ NonVolatile' = [NonVolatile EXCEPT ![from] = uint8(arg[from])]
  /\ intact' = (intact /\ NonVolatile' = NonVolatile)
  /\ pc' = to
  /\ UNCHANGED <<arg, TLC_WB, show, latched, reply, balance, preview>>

(* The last byte, led(show) and the answer. *)
AnswerWb ==
  /\ pc = "red"
  /\ NonVolatile' = [NonVolatile EXCEPT !.red = uint8(arg.red)]
  /\ UNCHANGED <<TLC_WB, show>>
  /\ Refresh
  /\ pc' = "idle" /\ arg' = Grey(0) /\ reply' = "set"
  /\ balance' = TLC_WB /\ intact' = TRUE /\ preview' = FALSE

show_color(color) ==
  /\ pc = "idle"
  /\ show' = AllTo([c \in Channels |-> uint16(color[c])])
  /\ reply' = "none"
  /\ UNCHANGED <<pc, arg, TLC_WB, NonVolatile, history>>
  /\ Refresh

(* A command whose numbers do not parse. *)
Unparsed ==
  /\ pc = "idle"
  /\ reply' = "err"
  /\ UNCHANGED <<pc, arg, TLC_WB, NonVolatile, show, latched, history>>

(* The end of a round of the main loop, after the rainbow if it is on. *)
Round ==
  /\ pc = "idle"
  /\ \/ UNCHANGED show
     \/ \E r \in LEDs : show' = [j \in LEDs |-> rainbow[((j + r) % 8) + 1]]
  /\ UNCHANGED <<pc, arg, TLC_WB, NonVolatile, reply, history>>
  /\ Refresh

(* Mutant: a channel is taken from its neighbour. *)
RestartSwapped ==
  /\ pc' = "idle" /\ arg' = Grey(0)
  /\ TLC_WB' = [NonVolatile EXCEPT !.green = NonVolatile.red]
  /\ show' = Dark
  /\ Refresh
  /\ reply' = "none" /\ preview' = FALSE
  /\ UNCHANGED <<NonVolatile, balance, intact>>

(* Power is lost at any moment; Setup_Hardware and the startup animation.  *)
Restart ==
  /\ pc' = "idle" /\ arg' = Grey(0)
  /\ TLC_WB' = NonVolatile
  /\ show' = Dark
  /\ Refresh
  /\ reply' = "none" /\ preview' = FALSE
  /\ UNCHANGED <<NonVolatile, balance, intact>>

Next == \/ \E c \in Channels, v \in Levels : WhiteBalance(c, v)
        \/ \E wb \in Balances : set_wb(wb)
        \/ StoreByte("blue", "green") \/ StoreByte("green", "red") \/ AnswerWb
        \/ \E color \in Colors : show_color(color)
        \/ Unparsed \/ Round \/ Restart

Spec == Init /\ [][Next]_vars

-----------------------------------------------------------------------------
TypeOK ==
  /\ pc \in Channels \cup {"idle"}
  /\ TLC_WB \in [Channels -> 0..255] /\ NonVolatile \in [Channels -> 0..255]
  /\ show \in [LEDs -> [Channels -> Uint16]]
  /\ reply \in {"none", "set", "err"}

(* Between two commands the chips show what the variables say: every light *)
(* its own colour, and the seven low bits of the white balance, whichever  *)
(* command, round or restart sent the last frame.                          *)
ChipsShowTheState ==
  pc = "idle" => \A k \in 0..1 :
    /\ k \in DOMAIN latched
    /\ latched[k].command = TLC_WRITE
    /\ latched[k].brightness = [c \in Channels |-> TLC_WB[c] % 128]
    /\ \A j \in 0..3 : latched[k].grey[j] = show[4 * k + j]

(* A balance that set_wb answered for is the one in use until a wb_ command*)
(* tries another, and again after every restart, until the next set_wb     *)
(* changes a byte of the EEPROM.                                           *)
BalanceSurvives ==
  pc = "idle" /\ intact /\ ~preview => TLC_WB = balance
==============================================================================
