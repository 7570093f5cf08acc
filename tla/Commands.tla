------------------------------ MODULE Commands ------------------------------
(***************************************************************************)
(* The command interpreter: the main loop's fscanf (ISS-Notify.c), the     *)
(* table COMMANDS with its handlers' own fscanf calls (commands.c), and    *)
(* below them the receiving half of LUFA's CDC stream with its one bank of *)
(* CDC_TXRX_EPSIZE characters.                                             *)
(*                                                                         *)
(* The stream does not block: a character that is not there yet is EOF,    *)
(* and fscanf ends.  What it had matched is gone; a character that did not *)
(* match is pushed back, and is the first that the next fscanf reads.      *)
(*                                                                         *)
(* What the commands do is the subject of the other modules.  Here a       *)
(* command that runs is the numbers that it was given.                     *)
(***************************************************************************)
EXTENDS Integers, Sequences

CONSTANTS
  Messages,         \* what a host may send: records of a text (characters),
                    \* of the command (cmd, args) that it is meant to be, of
                    \* how its characters spell it (reading, see Spells),
                    \* and of whether something follows its last number
  CDC_TXRX_EPSIZE,  \* size of the bank
  MaxSent           \* bound: messages of a session

ASSUME SizeAssumption == CDC_TXRX_EPSIZE \in Nat \ {0}
ASSUME SentAssumption == MaxSent \in Nat

VARIABLES
  call,    \* the running fscanf: "main", "args" (of a handler), "count" and
           \* "record" (of set_passes); or "none", the rest of the main loop
  at,      \* its next directive,
  conv,    \* its results,
  num,     \* and the number it is reading, or Unread
  ungot,   \* the character pushed back, or Nothing
  c,       \* the letter of the running command
  args,    \* the numbers it was given so far
  todo,    \* num - i of set_passes
  bank,    \* the characters in the OUT endpoint
  RXOUTI,  \* the bank holds a packet (which may be empty)
  up,      \* USB_DeviceState is Configured and the host has set a baud rate
  msg, rest,       \* the message on its way, and what of it is not sent yet
  sent, executed,  \* history of the session: commands sent, commands run,
  starved,         \* an fscanf met the end of the data inside a message,
  trailing         \* a message had something after its last number

scan     == <<call, at, conv, num, ungot>>
handler  == <<c, args, todo>>
endpoint == <<bank, RXOUTI>>
host     == <<up, msg, rest, sent, trailing>>
history  == <<executed, starved>>
vars     == <<scan, handler, endpoint, host, history>>

Nothing == "nothing"
EOF     == "EOF"
Unread  == -1

Characters == STRING \ {Nothing, EOF}

ASSUME MessagesAssumption ==
  \A m \in Messages : m.text \in Seq(Characters) \ {<<>>} /\ m.trailing \in BOOLEAN

Digits   == {"0", "1", "2"}
Value(d) == CASE d = "0" -> 0 [] d = "1" -> 1 [] d = "2" -> 2
Space    == {"\n", " "}

-----------------------------------------------------------------------------
(* The formats.  %lu and %u scan as %d does, into other variables (Stored). *)

Plain   == {"a", "m", "t", "d", "x"}        \* the commands without arguments
Numbers == {"c", "r", "g", "b"}
Triples == {"W", "l"}
COMMANDS == Plain \cup Numbers \cup Triples \cup {"T", "u"}

ArgFormat(l) ==
  CASE l \in Numbers -> <<"%d">>
    [] l \in Triples -> <<"%d", ",", "%d", ",", "%d">>
    [] OTHER         -> <<"Y", "%d", "M", "%d", "D", "%d",
                          "H", "%d", "M", "%d", "S", "%d">>

ArgCount(l) == CASE l \in Numbers -> 1 [] l \in Triples -> 3 [] OTHER -> 6

(* Mutant: the main loop's format does not take the end of the line. *)
FormatNoNewline ==
  CASE call = "main"   -> <<"I", "S", "S", "%c">>
    [] call = "args"   -> ArgFormat(c)
    [] call = "count"  -> <<"%d", "\n">>
    [] call = "record" -> <<"%d", ",", "%d", ",">>
    [] OTHER           -> <<>>

Format ==
  CASE call = "main"   -> <<"I", "S", "S", "%c", "\n">>
    [] call = "args"   -> ArgFormat(c)
    [] call = "count"  -> <<"%d", "\n">>
    [] call = "record" -> <<"%d", ",", "%d", ",">>
    [] OTHER           -> <<>>

-----------------------------------------------------------------------------
(* The messages of a host that keeps to the formats.  A message is a row   *)
(* of fields: the letters that the formats name, and numbers.              *)

Fields(m) == CASE m.cmd \in Plain -> 4
               [] m.cmd = "u"     -> 5 + 4 * m.args[1]
               [] OTHER           -> 4 + Len(ArgFormat(m.cmd))

Field(m, i) ==
  IF i <= 4 THEN <<"I", "S", "S", m.cmd>>[i]
  ELSE IF m.cmd # "u" THEN ArgFormat(m.cmd)[i - 4]
  ELSE IF i = 5 \/ i % 2 = 0 THEN "%d" ELSE ","

(* A reading says how many fields have begun, the numbers so far, and      *)
(* whether the last of them may go on.  With one character more             *)
Reading(n, numbers, goesOn) == [field |-> n, nums |-> numbers, open |-> goesOn]

Expects(m, r, d) == r.field < Fields(m) /\ Field(m, r.field + 1) = d

(* a number goes on,                                                       *)
Continues(r, ch, s) ==
  /\ ch \in Digits /\ r.open
  /\ s = Reading(r.field, [r.nums EXCEPT ![Len(r.nums)] = @ * 10 + Value(ch)], TRUE)

(* or begins;                                                              *)
Begins(m, r, ch, s) ==
  /\ ch \in Digits /\ ~r.open /\ Expects(m, r, "%d")
  /\ s = Reading(r.field + 1, Append(r.nums, Value(ch)), TRUE)

(* a space stands before a number, after the letter, or after u's count;   *)
Pauses(m, r, ch, s) ==
  /\ ch \in Space
  /\ Expects(m, r, "%d") \/ r.field = 4 \/ (m.cmd = "u" /\ r.field = 5)
  /\ s = Reading(r.field, r.nums, FALSE)

(* or the character is the next field.                                     *)
Names(m, r, ch, s) ==
  /\ ch \notin Digits \cup Space \cup {"%d"} /\ Expects(m, r, ch)
  /\ s = Reading(r.field + 1, r.nums, FALSE)

Extends(m, r, ch, s) ==
  Continues(r, ch, s) \/ Begins(m, r, ch, s) \/ Pauses(m, r, ch, s) \/ Names(m, r, ch, s)

(* The number n of field i fits the variable it is read into: an int, or   *)
(* in a record of u the uint32_t t and the uint16_t d.                     *)
Fits(m, i, n) ==
  IF m.cmd # "u" \/ i = 5 THEN n < 32768
  ELSE IF i % 4 = 2 THEN n \div 65536 < 65536 ELSE n < 65536

(* The text of m, character by character, is the command it is meant to    *)
(* be, with numbers that fit, and no more records than a uint8_t counts.   *)
Spells(m) ==
  /\ m.cmd \in COMMANDS /\ m.args \in Seq(Nat)
  /\ m.cmd = "u" => m.args # <<>> /\ m.args[1] < 256
  /\ m.cmd \notin Plain \cup {"u"} => Len(m.args) = ArgCount(m.cmd)
  /\ DOMAIN m.reading = 0..Len(m.text)
  /\ m.reading[0] = Reading(0, <<>>, FALSE)
  /\ \A k \in 1..Len(m.text) : Extends(m, m.reading[k - 1], m.text[k], m.reading[k])
  /\ \A k \in 1..Len(m.text) :
       LET r == m.reading[k] IN r.open => Fits(m, r.field, r.nums[Len(r.nums)])
  /\ m.reading[Len(m.text)].field = Fields(m) /\ m.reading[Len(m.text)].nums = m.args

ASSUME SpellingAssumption == \A m \in Messages : m.trailing \/ Spells(m)

-----------------------------------------------------------------------------
Init ==
  /\ call = "none" /\ at = 1 /\ conv = <<>> /\ num = Unread /\ ungot = Nothing
  /\ c = Nothing /\ args = <<>> /\ todo = 0
  /\ bank = <<>> /\ RXOUTI = FALSE
  /\ up = FALSE /\ msg = <<>> /\ rest = <<>>
  /\ sent = <<>> /\ trailing = FALSE /\ executed = <<>> /\ starved = FALSE

-----------------------------------------------------------------------------
(* CDC_Device_ReceiveByte behind CDC_Device_getchar.  Reading the last     *)
(* character of a packet frees the bank; an empty packet is freed and is   *)
(* the end of the data.                                                    *)

Readable == up /\ RXOUTI /\ bank # <<>>

(* Mutant: the bank is not given back to the host. *)
ReceiveByteKeepsBank ==
  /\ bank' = IF Readable THEN Tail(bank) ELSE bank
  /\ RXOUTI' = RXOUTI

ReceiveByte ==
  /\ bank' = IF Readable THEN Tail(bank) ELSE bank
  /\ RXOUTI' = (RXOUTI /\ (up => Len(bank) > 1))

(* The next character of the stream. *)
Next1 == IF ungot # Nothing THEN ungot
         ELSE IF Readable THEN Head(bank) ELSE EOF

(* Part of a message is still to come, or never will. *)
Split == (rest # <<>> /\ rest # msg) \/ bank # <<>>

Getc ==
  /\ IF ungot # Nothing THEN UNCHANGED endpoint ELSE ReceiveByte
  /\ starved' = (starved \/ (Next1 = EOF /\ Split))

-----------------------------------------------------------------------------
(* fscanf (external), one character at a time *)

(* Mutant: the character that does not match is dropped. *)
KeepDropped(ch) == ungot' = Nothing

Keep(ch) == ungot' = ch   \* ungetc

(* To directive k, after a result or without one. *)
Proceed(k, results) == at' = k /\ conv' = results /\ num' = Unread

Return == Proceed(Len(Format) + 1, conv)

(* Mutant: a character that does not match the format is skipped. *)
LiteralSkips(d, ch) ==
  (IF ch = d THEN Proceed(at + 1, conv) ELSE Return) /\ ungot' = Nothing

Literal(d, ch) ==
  IF ch = d THEN Proceed(at + 1, conv) /\ ungot' = Nothing
  ELSE Return /\ IF ch = EOF THEN ungot' = Nothing ELSE Keep(ch)

White(ch) ==
  IF ch \in Space THEN UNCHANGED <<at, conv, num>> /\ ungot' = Nothing
  ELSE Proceed(at + 1, conv) /\ IF ch = EOF THEN ungot' = Nothing ELSE Keep(ch)

Character(ch) ==
  /\ IF ch = EOF THEN Return ELSE Proceed(at + 1, Append(conv, ch))
  /\ ungot' = Nothing

(* What a variable holds of the number n: the 32 bits of t, or the 16 bits *)
(* of the others.                                                          *)
Stored(n) ==
  IF call = "record" /\ at = 1
  THEN ((n \div 65536) % 65536) * 65536 + (n % 65536)
  ELSE n % 65536

Number(ch) ==
  IF ch \in Digits
  THEN /\ num' = (IF num = Unread THEN 0 ELSE num * 10) + Value(ch)
       /\ UNCHANGED <<at, conv>> /\ ungot' = Nothing
  ELSE IF num = Unread /\ ch \in Space
  THEN UNCHANGED <<at, conv, num>> /\ ungot' = Nothing
  ELSE /\ IF num = Unread THEN Return ELSE Proceed(at + 1, Append(conv, Stored(num)))
       /\ IF ch = EOF THEN ungot' = Nothing ELSE Keep(ch)

Scan ==
  /\ call # "none" /\ at <= Len(Format)
  /\ LET d == Format[at] IN
       CASE d = "\n" -> White(Next1)
         [] d = "%c" -> Character(Next1)
         [] d = "%d" -> Number(Next1)
         [] OTHER    -> Literal(d, Next1)
  /\ Getc
  /\ UNCHANGED <<call, handler, host, executed>>

-----------------------------------------------------------------------------
(* The main loop and the handlers, when an fscanf has returned *)

Returned(which) == call = which /\ at > Len(Format)

Call(which) == call' = which /\ at' = 1 /\ conv' = <<>> /\ num' = Unread

(* A handler ends, with its effects and its answer. *)
Run(l, numbers) ==
  /\ executed' = Append(executed, [cmd |-> l, args |-> numbers])
  /\ Call("none")

Listen ==
  /\ call = "none"
  /\ Call("main")
  /\ UNCHANGED <<ungot, handler, endpoint, host, history>>

(* fscanf matched, and one of COMMANDS has the letter; or nothing happens. *)
Dispatch ==
  /\ Returned("main")
  /\ c' = IF Len(conv) = 1 THEN conv[1] ELSE Nothing
  /\ args' = <<>>
  /\ CASE c' \in Plain -> Run(c', <<>>)
       [] c' = "u" -> Call("count") /\ UNCHANGED executed
       [] c' \in COMMANDS \ (Plain \cup {"u"}) -> Call("args") /\ UNCHANGED executed
       [] OTHER -> Call("none") /\ UNCHANGED executed
  /\ UNCHANGED <<ungot, todo, endpoint, host, starved>>

(* set_color, wb_red, wb_green, wb_blue, set_wb, show_color, set_clock: all *)
(* the numbers, or the answer err.                                          *)
Arguments ==
  /\ Returned("args")
  /\ IF Len(conv) = ArgCount(c)
     THEN Run(c, conv)
     ELSE Call("none") /\ UNCHANGED executed
  /\ UNCHANGED <<ungot, handler, endpoint, host, starved>>

(* set_passes: the number of records, an int, which may be negative, *)
Count ==
  /\ Returned("count")
  /\ IF conv = <<>> THEN Call("none") /\ UNCHANGED <<args, todo, executed>>
     ELSE /\ args' = conv
          /\ todo' = IF conv[1] < 32768 THEN conv[1] ELSE 0
          /\ IF todo' = 0 THEN Run(c, conv)
             ELSE Call("record") /\ UNCHANGED executed
  /\ UNCHANGED <<ungot, c, endpoint, host, starved>>

(* and the records, each of which counts whether it parsed or not.  The    *)
(* counter i is a uint8_t, so that 256 records and more never end.         *)
Record ==
  /\ Returned("record")
  /\ args' = IF Len(conv) = 2 THEN args \o conv ELSE args
  /\ LET i == args[1] - todo IN todo' = args[1] - ((i + 1) % 256)
  /\ IF todo' = 0 THEN Run(c, args') ELSE Call("record") /\ UNCHANGED executed
  /\ UNCHANGED <<ungot, c, endpoint, host, starved>>

Program == Scan \/ Listen \/ Dispatch \/ Arguments \/ Count \/ Record

-----------------------------------------------------------------------------
(* The host and its driver (external) *)

(* A session begins: enumeration needs the main loop's USB tasks, so no    *)
(* fscanf is running.  What the interpreter remembers stays.               *)
Plug ==
  /\ ~up /\ call = "none"
  /\ up' = TRUE /\ bank' = <<>> /\ RXOUTI' = FALSE
  /\ msg' = <<>> /\ rest' = <<>> /\ sent' = <<>> /\ trailing' = FALSE
  /\ executed' = <<>> /\ starved' = (ungot # Nothing)
  /\ UNCHANGED <<scan, handler>>

Unplug ==
  /\ up
  /\ up' = FALSE
  /\ UNCHANGED <<scan, handler, endpoint, msg, rest, sent, trailing, history>>

(* The application writes a message, whether the last was answered or not. *)
Write ==
  /\ up /\ rest = <<>> /\ Len(sent) < MaxSent
  /\ \E m \in Messages :
       /\ msg' = m.text /\ rest' = m.text
       /\ sent' = Append(sent, [cmd |-> m.cmd, args |-> m.args])
       /\ trailing' = (trailing \/ m.trailing)
  /\ UNCHANGED <<scan, handler, endpoint, up, history>>

(* A packet of it, or an empty one after a full one. *)
Deliver ==
  /\ up /\ ~RXOUTI
  /\ \/ \E n \in 1..CDC_TXRX_EPSIZE :
          /\ n <= Len(rest)
          /\ bank' = SubSeq(rest, 1, n)
          /\ rest' = SubSeq(rest, n + 1, Len(rest))
     \/ /\ rest = <<>> /\ msg # <<>> /\ Len(msg) % CDC_TXRX_EPSIZE = 0
        /\ bank' = <<>> /\ rest' = <<>>
  /\ RXOUTI' = TRUE
  /\ UNCHANGED <<scan, handler, up, msg, sent, trailing, history>>

Next == Program \/ Plug \/ Unplug \/ Write \/ Deliver

Spec == Init /\ [][Next]_vars

(* The main loop goes on, and the driver sends what the application wrote. *)
FairSpec == Spec /\ WF_vars(Program) /\ WF_vars(Deliver /\ rest # <<>>)

-----------------------------------------------------------------------------
Excused == starved \/ trailing

TypeOK ==
  /\ call \in {"none", "main", "args", "count", "record"}
  /\ at \in 1..Len(Format) + 1
  /\ num \in Nat \cup {Unread}
  /\ todo \in Nat
  /\ Len(bank) <= CDC_TXRX_EPSIZE
  /\ (bank # <<>> => RXOUTI)

(* While no fscanf has run out of data inside a message and none of the    *)
(* messages had anything after its last number, the interpreter is in step *)
(* with the host, however its messages are queued and cut into packets: it *)
(* has run the commands that were sent, in order, with their numbers.      *)
(* (The numbers fit their variables, and u has at most 255 records.)       *)
InStep ==
  ~Excused =>
    /\ Len(executed) <= Len(sent)
    /\ executed = SubSeq(sent, 1, Len(executed))

(* The main loop reads the pushed back character first: one that cannot    *)
(* begin a command matches nothing, is pushed back, and is read again.     *)
Wedged ==
  /\ ungot \notin {Nothing, "I"}
  /\ call = "none" \/ (call = "main" /\ conv = <<>>)

(* No host that keeps to the format can wedge the interpreter: it takes a  *)
(* late packet inside a message, or a character after the last number.     *)
WedgeNeedsASplit == Wedged => Excused

(* And then no command is ever run again, not even after the cable has     *)
(* been pulled and plugged in: nothing empties the push-back but a reset.  *)
WedgedForGood == [][Wedged => Wedged' /\ executed' \in {executed, <<>>}]_vars

(* Every command is run in the end, unless the stream was cut.             *)
Served == (up /\ sent # <<>>) ~> (~up \/ Excused \/ executed = sent)
=============================================================================
