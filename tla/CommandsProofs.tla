--------------------------- MODULE CommandsProofs ---------------------------
(***************************************************************************)
(* Proofs about Commands, for whatever messages a host sends, cut into     *)
(* packets of whatever size.  What is said of the messages' numbers is     *)
(* said of numbers that fit the variables they are read into (Spells).     *)
(*                                                                         *)
(* IInv holds of every session, and WedgedForGood follows from it.  That   *)
(* the interpreter is in step with the host is SyncInv: there are the      *)
(* messages of the session, their characters in a row, and a place in it   *)
(* where the interpreter is, either before a message or inside of it, with *)
(* the numbers that the characters so far spell (InMessage).               *)
(***************************************************************************)
EXTENDS Commands, SequenceTheorems, WellFoundedInduction, TLAPS

(* Besides the types: the results of a handler's fscanf are numbers, a     *)
(* record that is read is counted, and the text on its way is a text.      *)
Typed ==
  /\ TypeOK
  /\ (call \in {"args", "count", "record"} => conv \in Seq(Nat))
  /\ (call = "record" => args \in Seq(Nat) /\ args # <<>> /\ todo \in 1..args[1])
  /\ msg \in Seq(Characters) /\ rest \in Seq(Characters) /\ bank \in Seq(Characters)

(* A character is pushed back at the end of an fscanf only: the main       *)
(* loop's, while it has no result, is at its beginning or at its end.      *)
PushedBack ==
  /\ ungot # EOF
  /\ (call = "main" /\ conv = <<>> /\ ungot # Nothing => at \in {1, 6})

IInv == Typed /\ PushedBack

USE SizeAssumption
USE DEF Nothing, EOF, Unread

-----------------------------------------------------------------------------
(* The formats *)

LEMMA FormatLength == call \in {"none", "main", "args", "count", "record"} => Len(Format) \in Nat
BY DEF Format, ArgFormat

LEMMA MainFormat ==
  call = "main" => Len(Format) = 5 /\ Format = <<"I", "S", "S", "%c", "\n">>
BY DEF Format

(* Only the main loop reads a character as such. *)
LEMMA HandlersReadNumbers ==
  call \in {"args", "count", "record"} => \A i \in 1..Len(Format) : Format[i] # "%c"
<1> HIDE SizeAssumption
<1> DEFINE comma == ","
<1>0. comma # "%c"
  BY Zenon
<1> HIDE DEF comma
<1>1. \A i \in 1..Len(ArgFormat(c)) : ArgFormat(c)[i] # "%c"
  <2>1. CASE c \in Numbers
    <3>1. ArgFormat(c) = <<"%d">>
      BY <2>1 DEF ArgFormat, Numbers, Triples
    <3> QED BY <3>1
  <2>2. CASE c \notin Numbers /\ c \in Triples
    <3>1. ArgFormat(c) = <<"%d", comma, "%d", comma, "%d">>
      BY <2>2 DEF ArgFormat, comma
    <3> QED BY <1>0, <3>1
  <2>3. CASE c \notin Numbers /\ c \notin Triples
    <3>1. ArgFormat(c) = <<"Y", "%d", "M", "%d", "D", "%d", "H", "%d", "M", "%d", "S", "%d">>
      BY <2>3 DEF ArgFormat
    <3> QED BY <3>1
  <2> QED BY <2>1, <2>2, <2>3
<1>2. CASE call = "args"
  <2>1. Format = ArgFormat(c)
    BY <1>2 DEF Format
  <2> QED BY <1>1, <2>1
<1>3. CASE call = "count"
  <2>1. Format = <<"%d", "\n">>
    BY <1>3 DEF Format
  <2> QED BY <2>1
<1>4. CASE call = "record"
  <2>1. Format = <<"%d", comma, "%d", comma>>
    BY <1>4 DEF Format, comma
  <2> QED BY <1>0, <2>1
<1> QED BY <1>2, <1>3, <1>4

-----------------------------------------------------------------------------
(* A step of fscanf *)

LEMMA GetcTyped ==
  ASSUME IInv, Getc
  PROVE  /\ bank' \in Seq(Characters) /\ Len(bank') <= CDC_TXRX_EPSIZE
         /\ bank' # <<>> => RXOUTI'
<1> USE DEF IInv, Typed, TypeOK
<1>1. CASE ungot # Nothing
  BY <1>1 DEF Getc, endpoint
<1>2. CASE ungot = Nothing /\ ~Readable
  BY <1>2 DEF Getc, ReceiveByte, Readable
<1>3. CASE ungot = Nothing /\ Readable
  <2>1. bank' = Tail(bank) /\ bank # <<>> /\ (Len(bank) > 1 => RXOUTI')
    BY <1>3 DEF Getc, ReceiveByte, Readable
  <2>2. bank' \in Seq(Characters) /\ Len(bank') = Len(bank) - 1 /\ Len(bank) \in Nat \ {0}
    BY <2>1, HeadTailProperties, EmptySeq, LenProperties
  <2>3. bank' # <<>> => Len(bank') # 0
    BY <2>2, EmptySeq
  <2> QED BY <2>1, <2>2, <2>3
<1> QED BY <1>1, <1>2, <1>3

LEMMA StoredType == ASSUME NEW n \in Nat PROVE Stored(n) \in Nat
<1>1. (n \div 65536) % 65536 \in Nat /\ n % 65536 \in Nat
  <2>1. n \div 65536 \in Nat
    OBVIOUS
  <2> QED BY <2>1
<1> QED BY <1>1 DEF Stored

(* Where it goes to, and what it leaves. *)
LEMMA ScanTyped ==
  ASSUME IInv, Scan
  PROVE  /\ at' \in 1..Len(Format) + 1
         /\ num' \in Nat \cup {Unread}
         /\ (call \in {"args", "count", "record"} => conv' \in Seq(Nat))
         /\ ungot' # EOF
<1> DEFINE d == Format[at]
<1>1. /\ call # "none" /\ at \in 1..Len(Format) /\ Len(Format) \in Nat
      /\ call \in {"none", "main", "args", "count", "record"}
      /\ num \in Nat \cup {Unread}
      /\ (call \in {"args", "count", "record"} => conv \in Seq(Nat))
  BY FormatLength DEF IInv, Typed, TypeOK, Scan
<1> HIDE DEF d
<1>2. /\ d = "\n" => White(Next1)
      /\ d = "%c" => Character(Next1)
      /\ d = "%d" => Number(Next1)
      /\ d \notin {"\n", "%c", "%d"} => Literal(d, Next1)
  BY DEF Scan, d
<1>3. CASE White(Next1)
  BY <1>1, <1>3 DEF White, Proceed, Keep
<1>4. CASE d = "%c" /\ Character(Next1)
  <2>1. call = "main"
    BY <1>1, <1>4, HandlersReadNumbers DEF d
  <2> QED BY <1>1, <1>4, <2>1 DEF Character, Return, Proceed
<1>5. CASE Number(Next1)
  <2>1. CASE Next1 \in Digits
    BY <1>1, <1>5, <2>1 DEF Number, Digits, Value
  <2>2. CASE Next1 \notin Digits /\ num = Unread
    BY <1>1, <1>5, <2>2 DEF Number, Return, Proceed, Keep
  <2>3. CASE Next1 \notin Digits /\ num # Unread
    <3>1. call \in {"args", "count", "record"} => Append(conv, Stored(num)) \in Seq(Nat)
      <4>1. Stored(num) \in Nat
        BY <1>1, <2>3, StoredType
      <4> QED BY <1>1, <4>1, AppendProperties
    <3> QED BY <1>1, <1>5, <2>3, <3>1 DEF Number, Proceed, Keep
  <2> QED BY <2>1, <2>2, <2>3
<1>6. CASE Literal(d, Next1)
  BY <1>1, <1>6 DEF Literal, Return, Proceed, Keep
<1> QED BY <1>2, <1>3, <1>4, <1>5, <1>6

(* The main loop's fscanf. *)
LEMMA ScanPushedBack == ASSUME IInv, Scan PROVE PushedBack'
<1>1. ungot' # EOF /\ UNCHANGED call
  BY ScanTyped DEF Scan
<1>2. CASE call # "main"
  BY <1>1, <1>2 DEF PushedBack
<1>3. CASE call = "main"
  <2>1. at \in 1..5
    <3>1. Len(Format) = 5
      BY <1>3, MainFormat
    <3> QED BY <3>1 DEF Scan, IInv, Typed, TypeOK
  <2>2. CASE at \in {1, 2, 3}
    <3>1. Format[at] \in {"I", "S"} /\ Len(Format) = 5
      BY <1>3, <2>2, MainFormat
    <3>2. Literal(Format[at], Next1)
      BY <3>1 DEF Scan
    <3> QED BY <1>1, <1>3, <3>1, <3>2 DEF Literal, Return, Proceed, PushedBack
  <2>3. CASE at = 4
    <3>1. Character(Next1)
      BY <1>3, <2>3, MainFormat DEF Scan
    <3> QED BY <1>1, <3>1 DEF Character, PushedBack
  <2>4. CASE at = 5
    <3>1. White(Next1)
      BY <1>3, <2>4, MainFormat DEF Scan
    <3> QED BY <1>1, <2>4, <3>1 DEF White, Proceed, PushedBack
  <2> QED BY <2>1, <2>2, <2>3, <2>4
<1> QED BY <1>2, <1>3

LEMMA ScanStep == ASSUME IInv, Scan PROVE IInv'
<1>1. Format' = Format
  BY DEF Scan, handler, Format, ArgFormat
<1>2. Typed'
  BY <1>1, ScanTyped, GetcTyped DEF IInv, Typed, TypeOK, Scan, handler, host
<1> QED BY <1>2, ScanPushedBack DEF IInv

-----------------------------------------------------------------------------
(* The other steps *)

LEMMA CallFacts ==
  ASSUME IInv, NEW which \in {"none", "main", "args", "count", "record"}, Call(which)
  PROVE  /\ call' = which /\ at' = 1 /\ conv' = <<>> /\ num' = Unread
         /\ at' \in 1..Len(Format)' + 1
         /\ conv' \in Seq(Nat)
<1>1. Len(Format)' \in Nat
  BY DEF Call, Format, ArgFormat
<1> QED BY <1>1 DEF Call

LEMMA ProgramStep ==
  ASSUME IInv, Listen \/ Dispatch \/ Arguments \/ Count \/ Record
  PROVE  IInv'
<1>1. CASE Listen
  <2>1. Call("main") /\ UNCHANGED <<ungot, handler, endpoint, host, history>>
    BY <1>1 DEF Listen
  <2> QED BY <2>1, CallFacts DEF IInv, Typed, TypeOK, PushedBack, handler, endpoint, host
<1>2. CASE Dispatch
  <2>1. /\ Call("none") \/ Call("count") \/ Call("args")
        /\ UNCHANGED <<ungot, todo, endpoint, host, starved>>
    BY <1>2 DEF Dispatch, Run
  <2> QED BY <2>1, CallFacts DEF IInv, Typed, TypeOK, PushedBack, endpoint, host
<1>3. CASE Arguments
  <2>1. Call("none") /\ UNCHANGED <<ungot, handler, endpoint, host, starved>>
    BY <1>3 DEF Arguments, Run
  <2> QED BY <2>1, CallFacts DEF IInv, Typed, TypeOK, PushedBack, handler, endpoint, host
<1>4. CASE Count
  <2>1. /\ \/ Call("none") /\ (UNCHANGED todo \/ todo' = 0)
           \/ Call("record") /\ conv # <<>> /\ args' = conv /\ todo' = conv[1] /\ conv[1] # 0
        /\ UNCHANGED <<ungot, c, endpoint, host, starved>>
    BY <1>4 DEF Count, Run
  <2>2. conv \in Seq(Nat) /\ (conv # <<>> => conv[1] \in Nat)
    <3>1. conv \in Seq(Nat)
      BY <1>4 DEF Count, Returned, IInv, Typed
    <3> QED BY <3>1, EmptySeq, ElementOfSeq
  <2> QED BY <2>1, <2>2, CallFacts DEF IInv, Typed, TypeOK, PushedBack, endpoint, host
<1>5. CASE Record
  <2> DEFINE i == args[1] - todo
             j == (i + 1) % 256
  <2>1. /\ args \in Seq(Nat) /\ args # <<>> /\ args[1] \in Nat /\ todo \in 1..args[1]
        /\ conv \in Seq(Nat)
    <3>1. args \in Seq(Nat) /\ args # <<>> /\ todo \in 1..args[1] /\ conv \in Seq(Nat)
      BY <1>5 DEF Record, Returned, IInv, Typed
    <3> QED BY <3>1, EmptySeq, ElementOfSeq
  <2>2. /\ Call("none") \/ (Call("record") /\ todo' # 0)
        /\ args' = (IF Len(conv) = 2 THEN args \o conv ELSE args)
        /\ todo' = args[1] - j
        /\ UNCHANGED <<ungot, c, endpoint, host, starved>>
    BY <1>5 DEF Record, Run
  <2>3. j \in 0..args[1]
    <3>1. i + 1 \in 1..args[1]
      BY <2>1
    <3>2. \A x \in Nat : x % 256 \in 0..x
      OBVIOUS
    <3> HIDE DEF i
    <3> QED BY <2>1, <3>1, <3>2
  <2> HIDE DEF j
  <2>4. todo' \in 0..args[1]
    BY <2>1, <2>2, <2>3
  <2>5. args' \in Seq(Nat) /\ args' # <<>> /\ args'[1] = args[1]
    <3>1. args \o conv \in Seq(Nat) /\ args \o conv # <<>> /\ (args \o conv)[1] = args[1]
      BY <2>1
    <3> QED BY <2>1, <2>2, <3>1
  <2>6. todo' \in Nat /\ (todo' # 0 => todo' \in 1..args'[1])
    BY <2>1, <2>4, <2>5
  <2>7. /\ call' \in {"none", "record"} /\ (call' = "record" => todo' # 0)
        /\ at' \in 1..Len(Format)' + 1 /\ conv' \in Seq(Nat) /\ num' = Unread
    BY <2>2, CallFacts
  <2>8. TypeOK'
    BY <2>2, <2>6, <2>7 DEF IInv, Typed, TypeOK, endpoint
  <2>9. Typed'
    BY <2>2, <2>5, <2>6, <2>7, <2>8 DEF IInv, Typed, endpoint, host
  <2> QED BY <2>2, <2>7, <2>9 DEF IInv, PushedBack
<1> QED BY <1>1, <1>2, <1>3, <1>4, <1>5

LEMMA HostStep == ASSUME IInv, Plug \/ Unplug \/ Write \/ Deliver PROVE IInv'
<1>1. UNCHANGED <<scan, handler>> /\ Len(Format)' = Len(Format)
  BY DEF Plug, Unplug, Write, Deliver, scan, handler, Format, ArgFormat
<1>2. /\ msg' \in Seq(Characters) /\ rest' \in Seq(Characters) /\ bank' \in Seq(Characters)
      /\ Len(bank') <= CDC_TXRX_EPSIZE /\ (bank' # <<>> => RXOUTI')
  <2> USE DEF IInv, Typed, TypeOK
  <2>1. CASE Plug
    BY <2>1 DEF Plug
  <2>2. CASE Unplug
    BY <2>2 DEF Unplug, endpoint
  <2>3. CASE Write
    BY <2>3, MessagesAssumption DEF Write, endpoint
  <2>4. CASE Deliver
    <3>1. CASE bank' = <<>> /\ rest' = <<>>
      BY <2>4, <3>1 DEF Deliver
    <3>2. ASSUME NEW n \in 1..CDC_TXRX_EPSIZE, n <= Len(rest),
                 bank' = SubSeq(rest, 1, n), rest' = SubSeq(rest, n + 1, Len(rest))
          PROVE  bank' \in Seq(Characters) /\ rest' \in Seq(Characters) /\ Len(bank') <= CDC_TXRX_EPSIZE
      <4>1. rest \in Seq(Characters) /\ Len(rest) \in Nat /\ CDC_TXRX_EPSIZE \in Nat
        BY LenProperties
      <4>2. bank' \in Seq(Characters) /\ rest' \in Seq(Characters)
        BY <3>2, <4>1
      <4>3. Len(bank') = n
        BY <3>2, <4>1
      <4> QED BY <4>1, <4>2, <4>3
    <3> QED BY <2>4, <3>1, <3>2 DEF Deliver
  <2> QED BY <2>1, <2>2, <2>3, <2>4
<1> QED BY <1>1, <1>2 DEF IInv, Typed, TypeOK, PushedBack, scan, handler

LEMMA InitIInv == Init => IInv
<1> SUFFICES ASSUME Init PROVE IInv
  OBVIOUS
<1>1. Len(Format) \in Nat
  BY FormatLength DEF Init
<1> QED BY <1>1 DEF Init, IInv, Typed, TypeOK, PushedBack

LEMMA NextIInv == ASSUME IInv, [Next]_vars PROVE IInv'
<1>1. CASE UNCHANGED vars
  <2>1. Len(Format)' = Len(Format)
    BY <1>1 DEF vars, scan, handler, Format, ArgFormat
  <2> QED BY <1>1, <2>1 DEF vars, scan, handler, endpoint, host, IInv, Typed, TypeOK, PushedBack
<1> QED BY <1>1, ScanStep, ProgramStep, HostStep DEF Next, Program

(* The types and what is pushed back, of every session.                    *)
THEOREM Invariance == Spec => []IInv
BY InitIInv, NextIInv, PTL DEF Spec

(* The types of the interpreter's state: an fscanf stays within its        *)
(* format, set_passes counts down to zero, and a bank with characters in   *)
(* it is never given back.                                                 *)
THEOREM TypeCorrect == Spec => []TypeOK
<1>1. IInv => TypeOK
  BY DEF IInv, Typed
<1> QED BY <1>1, Invariance, PTL

-----------------------------------------------------------------------------
(* A step of a wedged interpreter. *)
LEMMA WedgedStep ==
  ASSUME IInv, Wedged, [Next]_vars
  PROVE  Wedged' /\ executed' \in {executed, <<>>}
<1>1. CASE UNCHANGED vars
  BY <1>1 DEF vars, scan, history, Wedged
<1>2. CASE Scan
  <2>1. call = "main" /\ conv = <<>> /\ at = 1 /\ UNCHANGED <<call, executed>>
    BY <1>2, MainFormat DEF Scan, Wedged, IInv, PushedBack
  <2>2. Literal("I", Next1) /\ Next1 = ungot /\ ungot # "I"
    BY <1>2, <2>1, MainFormat DEF Scan, Wedged, Next1
  <2>3. ungot' = ungot /\ conv' = conv
    BY <2>2 DEF Literal, Return, Proceed, Keep, IInv, PushedBack
  <2> QED BY <2>1, <2>3 DEF Wedged
<1>3. CASE Listen
  BY <1>3 DEF Listen, Call, Wedged, history
<1>4. CASE Dispatch
  <2>1. Len(conv) = 0
    BY <1>4 DEF Dispatch, Returned, Wedged
  <2>2. c' = "nothing"
    BY <1>4, <2>1 DEF Dispatch
  <2>3. Call("none") /\ UNCHANGED <<executed, ungot>>
    BY <1>4, <2>2 DEF Dispatch, Plain, COMMANDS, Numbers, Triples
  <2> QED BY <2>3 DEF Call, Wedged
<1>5. CASE Plug \/ Unplug \/ Write \/ Deliver
  BY <1>5 DEF Plug, Unplug, Write, Deliver, scan, history, Wedged
<1>6. ~(Arguments \/ Count \/ Record)
  BY DEF Arguments, Count, Record, Returned, Wedged
<1> QED BY <1>1, <1>2, <1>3, <1>4, <1>5, <1>6 DEF Next, Program

(* Once a character that cannot begin a command has been pushed back, the  *)
(* main loop reads it again for ever: no message and no new session of any *)
(* host brings the interpreter back.                                       *)
THEOREM WedgedStays == Spec => WedgedForGood
<1>1. IInv /\ [Next]_vars => [Wedged => Wedged' /\ executed' \in {executed, <<>>}]_vars
  BY WedgedStep
<1> QED BY <1>1, Invariance, PTL DEF Spec, WedgedForGood

-----------------------------------------------------------------------------
(* Induction: a set of numbers that is not empty has a least one. *)

LEMMA Least ==
  ASSUME NEW T \in SUBSET Nat, T # {}
  PROVE  \E x \in T : \A y \in T : x <= y
<1> DEFINE Less == {ss \in Nat \X Nat : ss[1] < ss[2]}
<1>1. IsWellFoundedOn(Less, Nat)
  BY NatLessThanWellFounded DEF OpToRel
<1> HIDE DEF Less
<1>2. PICK x \in T : \A y \in T : <<y, x>> \notin Less
  BY <1>1, WFMin
<1>3. \A y \in T : ~(y < x)
  BY <1>2 DEF Less
<1> QED BY <1>3

-----------------------------------------------------------------------------
(* What a message spells *)

Readings == [field : Nat, nums : Seq(Nat), open : BOOLEAN]

(* The next character, if there is one, is none of these. *)
Ended(m, k, chars) == k = Len(m.text) \/ m.text[k + 1] \notin chars

LEMMA Apart == /\ Digits \cap Space = {} /\ EOF \notin Digits \cup Space
               /\ "I" \notin Digits \cup Space /\ "%d" \notin Digits \cup Space
BY DEF Digits, Space

LEMMA ValueType == \A ch \in Digits : Value(ch) \in Nat
BY DEF Digits, Value

LEMMA ReadingTyped ==
  ASSUME NEW n \in Nat, NEW numbers \in Seq(Nat)
  PROVE  Reading(n, numbers, TRUE) \in Readings /\ Reading(n, numbers, FALSE) \in Readings
BY DEF Reading, Readings

(* A step of the reading is typed. *)
LEMMA ExtendsTyped ==
  ASSUME NEW m, NEW r \in Readings, NEW ch, NEW s, Extends(m, r, ch, s),
         r.open => r.nums # <<>>
  PROVE  s \in Readings /\ (s.open => s.nums # <<>>)
<1>1. r.field \in Nat /\ r.nums \in Seq(Nat) /\ r.open \in BOOLEAN
  BY DEF Readings
<1>2. CASE Continues(r, ch, s)
  <2> DEFINE n == Len(r.nums)
  <2>1. n \in Nat /\ n # 0 /\ n \in DOMAIN r.nums /\ r.nums[n] \in Nat /\ Value(ch) \in Nat
    BY <1>1, <1>2, ValueType DEF Continues
  <2>2. r.nums[n] * 10 + Value(ch) \in Nat
    BY <2>1
  <2> HIDE DEF n
  <2>3. [r.nums EXCEPT ![n] = @ * 10 + Value(ch)] \in Seq(Nat) \ {<<>>}
    BY <1>1, <2>1, <2>2
  <2>4. s = Reading(r.field, [r.nums EXCEPT ![n] = @ * 10 + Value(ch)], TRUE)
    BY <1>2 DEF Continues, n
  <2>5. s.nums # <<>>
    BY <2>3, <2>4 DEF Reading
  <2> QED BY <1>1, <2>3, <2>4, <2>5, ReadingTyped
<1>3. CASE Begins(m, r, ch, s)
  <2>1. Value(ch) \in Nat /\ s = Reading(r.field + 1, Append(r.nums, Value(ch)), TRUE)
    BY <1>3, ValueType DEF Begins
  <2>2. Append(r.nums, Value(ch)) \in Seq(Nat) /\ Append(r.nums, Value(ch)) # <<>>
    <3> DEFINE v == Value(ch)
    <3>1. v \in Nat
      BY <2>1
    <3> HIDE DEF v
    <3>2. Append(r.nums, v) \in Seq(Nat) /\ Len(Append(r.nums, v)) = Len(r.nums) + 1
      BY <1>1, <3>1
    <3>3. Append(r.nums, v) # <<>>
      <4>1. Len(r.nums) + 1 # 0
        BY <1>1, LenProperties
      <4> QED BY <3>2, <4>1
    <3> QED BY <3>2, <3>3 DEF v
  <2>3. s.nums # <<>>
    BY <2>1, <2>2 DEF Reading
  <2>4. r.field + 1 \in Nat
    BY <1>1
  <2> QED BY <2>1, <2>2, <2>3, <2>4, ReadingTyped
<1>4. CASE Pauses(m, r, ch, s) \/ Names(m, r, ch, s)
  <2>1. s = Reading(r.field, r.nums, FALSE) \/ s = Reading(r.field + 1, r.nums, FALSE)
    BY <1>4 DEF Pauses, Names
  <2>2. s.open = FALSE
    BY <2>1 DEF Reading
  <2>3. r.field + 1 \in Nat
    BY <1>1
  <2> QED BY <1>1, <2>1, <2>2, <2>3, ReadingTyped
<1> QED BY <1>2, <1>3, <1>4 DEF Extends

(* How many fields a message has. *)
LEMMA FieldsBound ==
  ASSUME NEW m, Spells(m)
  PROVE  /\ Fields(m) \in Nat
         /\ m.cmd \in Plain => Fields(m) = 4
         /\ m.cmd \notin Plain => Fields(m) >= 5
         /\ m.cmd = "u" => m.args[1] \in Nat /\ Fields(m) = 5 + 4 * m.args[1]
         /\ m.cmd \notin Plain \cup {"u"} => Fields(m) = 4 + Len(ArgFormat(m.cmd))
<1>1. "u" \notin Plain
  BY DEF Plain
<1>2. CASE m.cmd \in Plain
  BY <1>1, <1>2 DEF Fields
<1>3. CASE m.cmd = "u"
  <2>1. m.args[1] \in Nat
    BY <1>3 DEF Spells
  <2> QED BY <1>1, <1>3, <2>1 DEF Fields
<1>4. CASE m.cmd \notin Plain \cup {"u"}
  <2>1. Len(ArgFormat(m.cmd)) \in Nat /\ Len(ArgFormat(m.cmd)) >= 1
    BY DEF ArgFormat
  <2> QED BY <1>4, <2>1 DEF Fields
<1> QED BY <1>2, <1>3, <1>4

LEMMA TextIs ==
  ASSUME NEW m \in Messages
  PROVE  m.text \in Seq(Characters) /\ Len(m.text) \in Nat
BY MessagesAssumption

(* A number that has ended stays what it is: the first number of a message *)
(* is the first of its arguments as soon as the next character is not a    *)
(* digit.                                                                  *)
LEMMA FirstStays ==
  ASSUME NEW m \in Messages, Spells(m), NEW k \in 0..Len(m.text),
         m.reading[k] \in Readings, m.reading[k].nums # <<>>,
         m.reading[k].open => Ended(m, k, Digits)
  PROVE  m.args[1] = m.reading[k].nums[1]
<1> DEFINE x == m.reading[k].nums[1]
           Holds(j) == LET r == m.reading[j]
                       IN  /\ r \in Readings /\ r.nums # <<>> /\ r.nums[1] = x
                           /\ j = k \/ Len(r.nums) > 1 \/ ~r.open
           Bad == {j \in k..Len(m.text) : ~Holds(j)}
<1>0. Len(m.text) \in Nat
  BY TextIs
<1>1. Bad = {}
  <2> SUFFICES ASSUME Bad # {} PROVE FALSE
    OBVIOUS
  <2>1. PICK j \in Bad : \A y \in Bad : j <= y
    <3>1. Bad \in SUBSET Nat
      BY <1>0
    <3> HIDE DEF Bad
    <3> QED BY <3>1, Least
  <2>2. j # k
    <3>1. Holds(k)
      OBVIOUS
    <3> QED BY <3>1
  <2>3. j \in 1..Len(m.text) /\ j - 1 \in k..Len(m.text) /\ j - 1 \notin Bad
    BY <1>0, <2>1, <2>2
  <2>4. Holds(j - 1)
    BY <2>3
  <2> DEFINE r == m.reading[j - 1]
             s == m.reading[j]
             ch == m.text[j]
  <2>5. /\ r \in Readings /\ r.nums \in Seq(Nat) /\ r.nums # <<>> /\ r.nums[1] = x
        /\ Len(r.nums) \in Nat /\ Len(r.nums) >= 1
        /\ j - 1 = k \/ Len(r.nums) > 1 \/ ~r.open
    <3>1. r \in Readings /\ r.nums # <<>> /\ r.nums[1] = x /\ (j - 1 = k \/ Len(r.nums) > 1 \/ ~r.open)
      BY <2>4
    <3>2. r.nums \in Seq(Nat)
      BY <3>1 DEF Readings
    <3> HIDE DEF r
    <3> QED BY <3>1, <3>2, EmptySeq, LenProperties
  <2>6. Extends(m, r, ch, s)
    BY <2>3 DEF Spells
  <2>7. s \in Readings
    BY <2>5, <2>6, ExtendsTyped
  <2>8. s.nums # <<>> /\ s.nums[1] = x /\ (Len(s.nums) > 1 \/ ~s.open)
    <3> HIDE DEF r, s, ch, x
    <3>1. CASE Continues(r, ch, s)
      <4>1. ~(j - 1 = k)
        BY <1>0, <2>3, <3>1, Apart DEF Continues, Ended, r, ch
      <4>2. Len(r.nums) > 1
        BY <2>5, <3>1, <4>1 DEF Continues
      <4>3. s.nums = [r.nums EXCEPT ![Len(r.nums)] = @ * 10 + Value(ch)]
        BY <3>1 DEF Continues, Reading
      <4>4. Len(s.nums) = Len(r.nums) /\ s.nums[1] = r.nums[1]
        BY <2>5, <4>2, <4>3
      <4> QED BY <2>5, <4>2, <4>4
    <3>2. CASE Begins(m, r, ch, s)
      <4>1. s.nums = Append(r.nums, Value(ch)) /\ Value(ch) \in Nat
        BY <3>2, ValueType DEF Begins, Reading
      <4>2. Len(s.nums) = Len(r.nums) + 1 /\ s.nums[1] = r.nums[1]
        BY <2>5, <4>1
      <4> QED BY <2>5, <4>2
    <3>3. CASE Pauses(m, r, ch, s) \/ Names(m, r, ch, s)
      <4>1. s.nums = r.nums /\ s.open = FALSE
        BY <3>3 DEF Pauses, Names, Reading
      <4> QED BY <2>5, <4>1
    <3> QED BY <2>6, <3>1, <3>2, <3>3 DEF Extends
  <2>9. Holds(j)
    BY <2>7, <2>8
  <2> QED BY <2>1, <2>9
<1>2. Holds(Len(m.text))
  <2>1. Len(m.text) \in k..Len(m.text)
    BY <1>0
  <2> QED BY <1>1, <2>1
<1>3. m.reading[Len(m.text)].nums = m.args
  BY DEF Spells
<1> QED BY <1>2, <1>3

-----------------------------------------------------------------------------
(* The interpreter inside a message m, of which it has read k characters   *)
(* (one that it pushed back it has not read)                               *)

(* Inside the I, S, S of the main loop's format, *)
Greets(m, k) ==
  /\ call = "main" /\ conv = <<>> /\ k \in 1..3 /\ at = k + 1 /\ ungot = Nothing
  /\ m.reading[k] = Reading(k, <<>>, FALSE)

(* or after the letter of the command. *)
Lettered(m, k) ==
  /\ call = "main" /\ conv = <<m.cmd>> /\ m.reading[k] = Reading(4, <<>>, FALSE)
  /\ at = 5 \/ (at = 6 /\ Ended(m, k, Space))

(* In the handler of its command *)
Handles(m) ==
  /\ call \in {"args", "count", "record"} /\ c = m.cmd /\ m.cmd \notin Plain
  /\ call = "args" <=> m.cmd # "u"
  /\ args \in Seq(Nat) /\ conv \in Seq(Nat)
  /\ call # "record" => args = <<>>
  /\ call # "args" => Len(conv) = at \div 2
  /\ call = "record" => todo \in 1..m.args[1]

(* the running format stands for the fields that follow this one. *)
Base(m) == IF call = "record" THEN Fields(m) - 4 * todo ELSE 4

(* Counted is set_passes after the count and the spaces that follow it.    *)
Counted == call = "count" /\ at = 3

(* Between two fields it has all the numbers, and the last one has ended,  *)
Between(m, k) ==
  LET r == m.reading[k]
  IN  /\ num = Unread /\ r.nums = args \o conv
      /\ r.open => Ended(m, k, Digits)
      /\ r.field = IF Counted THEN 5 ELSE Base(m) + at - 1
      /\ Counted \/ (at = 1 /\ Format[1] # "%d") => Ended(m, k, Space)

(* and inside a number it has the others, and what this one is so far. *)
Inside(m, k) ==
  LET r == m.reading[k]
  IN  /\ num \in Nat /\ r.open /\ r.nums = Append(args \o conv, num)
      /\ r.field = Base(m) + at /\ at \in 1..Len(Format) /\ Format[at] = "%d"

Argues(m, k) ==
  Handles(m) /\ m.reading[k] \in Readings /\ (Between(m, k) \/ Inside(m, k))

InMessage(m, k) == Greets(m, k) \/ Lettered(m, k) \/ Argues(m, k)

(* The next character of the stream: the message's, or what ends it. *)
Sees(m, k) == IF k < Len(m.text) THEN Next1 = m.text[k + 1] ELSE Next1 \in {EOF, "I"}

(* A step of fscanf reads the character, or leaves it. *)
Advances(m, k) ==
  ungot' = Nothing /\ Next1 # EOF /\ k < Len(m.text) /\ InMessage(m, k + 1)'

Stays(m, k) == ungot' = (IF Next1 = EOF THEN Nothing ELSE Next1) /\ InMessage(m, k)'

(* The directives of a handler's format are the fields of the message. *)
LEMMA Aligned ==
  ASSUME NEW m, Spells(m), Handles(m), at \in 1..Len(Format), ~(call = "count" /\ at = 2)
  PROVE  /\ Base(m) \in Nat /\ Base(m) >= (IF call = "record" THEN 5 ELSE 4)
         /\ Base(m) + at <= Fields(m)
         /\ Format[at] = Field(m, Base(m) + at)
<1> DEFINE comma == ","
<1> HIDE DEF comma
<1>1. m.cmd = "u" => m.args[1] \in Nat /\ Fields(m) = 5 + 4 * m.args[1]
  BY FieldsBound
<1>2. CASE call = "args"
  <2>1. Format = ArgFormat(m.cmd) /\ m.cmd # "u" /\ Fields(m) = 4 + Len(ArgFormat(m.cmd))
    BY <1>2, FieldsBound DEF Format, Handles
  <2>2. Base(m) = 4 /\ Len(Format) \in Nat
    BY <1>2, FormatLength DEF Base
  <2>3. Field(m, 4 + at) = ArgFormat(m.cmd)[(4 + at) - 4]
    BY <2>1, <2>2 DEF Field
  <2>4. (4 + at) - 4 = at
    BY <2>2
  <2> QED BY <1>2, <2>1, <2>2, <2>3, <2>4
<1>3. CASE call = "count"
  <2>1. Format = <<"%d", "\n">> /\ m.cmd = "u" /\ Base(m) = 4
    BY <1>3 DEF Format, Handles, Base
  <2>2. at = 1
    BY <1>3, <2>1
  <2>3. Format[1] = "%d" /\ Field(m, 5) = "%d"
    BY <2>1 DEF Field
  <2> QED BY <1>1, <1>3, <2>1, <2>2, <2>3
<1>4. CASE call = "record"
  <2>1. Format = <<"%d", comma, "%d", comma>> /\ m.cmd = "u" /\ todo \in 1..m.args[1]
    BY <1>4 DEF Format, Handles, comma
  <2>2. Base(m) = 5 + 4 * (m.args[1] - todo) /\ Base(m) \in Nat /\ Base(m) >= 5
    <3>1. Base(m) = Fields(m) - 4 * todo
      BY <1>4 DEF Base
    <3> HIDE DEF Base
    <3> QED BY <1>1, <2>1, <3>1
  <2>3. at \in 1..4
    BY <2>1
  <2> HIDE DEF Base
  <2>4. CASE at \in {1, 3}
    <3>1. (Base(m) + at) % 2 = 0 /\ Base(m) + at > 4
      BY <2>1, <2>2, <2>4, <1>1
    <3>2. Field(m, Base(m) + at) = "%d"
      BY <2>1, <2>2, <2>3, <3>1 DEF Field
    <3>3. Format[at] = "%d"
      BY <2>1, <2>4
    <3> QED BY <1>1, <2>1, <2>2, <2>3, <3>2, <3>3
  <2>5. CASE at \in {2, 4}
    <3>1. (Base(m) + at) % 2 = 1 /\ Base(m) + at > 5
      BY <2>1, <2>2, <2>5, <1>1
    <3>2. Field(m, Base(m) + at) = comma
      <4> DEFINE i == Base(m) + at
      <4>1. ~(i <= 4) /\ ~(i = 5) /\ ~(i % 2 = 0)
        BY <2>2, <2>3, <3>1
      <4> HIDE DEF i
      <4>2. Field(m, i) = comma
        BY <2>1, <4>1, Zenon DEF Field, comma
      <4> QED BY <4>2 DEF i
    <3>3. Format[at] = comma
      BY <2>1, <2>5
    <3> QED BY <1>1, <2>1, <2>2, <2>3, <3>2, <3>3
  <2> QED BY <2>3, <2>4, <2>5
<1> QED BY <1>2, <1>3, <1>4 DEF Handles

LEMMA NoSpaceInFormats ==
  call \in {"args", "record"} => \A i \in 1..Len(Format) : Format[i] # "\n"
<1> HIDE SizeAssumption
<1> DEFINE comma == ","
<1>0. comma # "\n"
  BY Zenon
<1> HIDE DEF comma
<1>1. \A i \in 1..Len(ArgFormat(c)) : ArgFormat(c)[i] # "\n"
  <2>1. CASE c \in Numbers
    <3>1. ArgFormat(c) = <<"%d">>
      BY <2>1 DEF ArgFormat, Numbers, Triples
    <3> QED BY <3>1
  <2>2. CASE c \notin Numbers /\ c \in Triples
    <3>1. ArgFormat(c) = <<"%d", comma, "%d", comma, "%d">>
      BY <2>2 DEF ArgFormat, comma
    <3> QED BY <1>0, <3>1
  <2>3. CASE c \notin Numbers /\ c \notin Triples
    <3>1. ArgFormat(c) = <<"Y", "%d", "M", "%d", "D", "%d", "H", "%d", "M", "%d", "S", "%d">>
      BY <2>3 DEF ArgFormat
    <3> QED BY <3>1
  <2> QED BY <2>1, <2>2, <2>3
<1>2. CASE call = "args"
  <2>1. Format = ArgFormat(c)
    BY <1>2 DEF Format
  <2> QED BY <1>1, <2>1
<1>3. CASE call = "record"
  <2>1. Format = <<"%d", comma, "%d", comma>>
    BY <1>3 DEF Format, comma
  <2> QED BY <1>0, <2>1
<1> QED BY <1>2, <1>3

(* Each character of a message extends its reading. *)
LEMMA NextReading ==
  ASSUME NEW m \in Messages, Spells(m), NEW k \in 0..Len(m.text), k < Len(m.text)
  PROVE  /\ k + 1 \in 0..Len(m.text)
         /\ Extends(m, m.reading[k], m.text[k + 1], m.reading[k + 1])
         /\ m.text[k + 1] # EOF
<1>1. m.text \in Seq(Characters) /\ Len(m.text) \in Nat
  BY TextIs
<1>2. k + 1 \in 1..Len(m.text) /\ (k + 1) - 1 = k
  BY <1>1
<1>3. m.text[k + 1] \in Characters
  BY <1>1, <1>2, ElementOfSeq
<1>4. Extends(m, m.reading[(k + 1) - 1], m.text[k + 1], m.reading[k + 1])
  BY <1>2 DEF Spells
<1> QED BY <1>2, <1>3, <1>4 DEF Characters

(* All of it is typed. *)
LEMMA ReadingsTyped ==
  ASSUME NEW m \in Messages, Spells(m)
  PROVE  \A k \in 0..Len(m.text) :
            m.reading[k] \in Readings /\ (m.reading[k].open => m.reading[k].nums # <<>>)
<1> DEFINE Typed1(k) == m.reading[k] \in Readings /\ (m.reading[k].open => m.reading[k].nums # <<>>)
           Bad == {k \in 0..Len(m.text) : ~Typed1(k)}
<1>0. Len(m.text) \in Nat
  BY TextIs
<1> SUFFICES ASSUME Bad # {} PROVE FALSE
  OBVIOUS
<1>1. PICK k \in Bad : \A y \in Bad : k <= y
  <2>1. Bad \in SUBSET Nat
    BY <1>0
  <2> HIDE DEF Bad
  <2> QED BY <2>1, Least
<1>2. k # 0
  <2>1. m.reading[0] = Reading(0, <<>>, FALSE)
    BY DEF Spells
  <2>2. Typed1(0)
    BY <2>1 DEF Reading, Readings
  <2> QED BY <2>2
<1>3. k - 1 \in 0..Len(m.text) /\ k - 1 \notin Bad /\ k - 1 < Len(m.text) /\ (k - 1) + 1 = k
  BY <1>0, <1>1, <1>2
<1>4. Typed1(k - 1)
  BY <1>3
<1>5. Extends(m, m.reading[k - 1], m.text[k], m.reading[k])
  BY <1>3, NextReading
<1>6. Typed1(k)
  BY <1>4, <1>5, ExtendsTyped
<1> QED BY <1>1, <1>6

(* The reading has not come to the last field: there is more of the text. *)
LEMMA MoreText ==
  ASSUME NEW m \in Messages, Spells(m), NEW k \in 0..Len(m.text),
         m.reading[k].field < Fields(m)
  PROVE  k < Len(m.text)
<1>1. Len(m.text) \in Nat /\ Fields(m) \in Nat
  BY TextIs, FieldsBound
<1>2. k # Len(m.text)
  BY <1>1 DEF Spells
<1> QED BY <1>1, <1>2

-----------------------------------------------------------------------------
(* A step of fscanf inside a message *)

LEMMA ScanKeeps ==
  ASSUME Scan, NEW m
  PROVE  UNCHANGED <<call, c, args, todo>> /\ Format' = Format /\ Base(m)' = Base(m)
BY DEF Scan, handler, Format, ArgFormat, Base

LEMMA ScanReads ==
  ASSUME Scan, IInv
  PROVE  /\ at \in 1..Len(Format) /\ Len(Format) \in Nat
         /\ Format[at] = "\n" => White(Next1)
         /\ Format[at] = "%c" => Character(Next1)
         /\ Format[at] = "%d" => Number(Next1)
         /\ Format[at] \notin {"\n", "%c", "%d"} => Literal(Format[at], Next1)
<1>1. at \in 1..Len(Format) /\ Len(Format) \in Nat
  BY FormatLength DEF IInv, Typed, TypeOK, Scan
<1> QED BY <1>1 DEF Scan

LEMMA ScanGreets ==
  ASSUME IInv, NEW m \in Messages, Spells(m), NEW k \in 1..Len(m.text),
         Scan, Sees(m, k), Greets(m, k)
  PROVE  Advances(m, k)
<1> DEFINE ch == m.text[k + 1]
           r == m.reading[k]
           s == m.reading[k + 1]
<1>0. /\ call = "main" /\ conv = <<>> /\ k \in 1..3 /\ at = k + 1
      /\ r = Reading(k, <<>>, FALSE)
      /\ r.field = k /\ r.nums = <<>> /\ r.open = FALSE
  BY DEF Greets, Reading
<1>11. k \in Int /\ (k = 1 \/ k = 2 \/ k = 3) /\ r.field = k
  <2>1. k \in 1..3
    BY DEF Greets
  <2>2. r.field = k
    BY DEF Greets, Reading
  <2> HIDE DEF r
  <2> QED BY <2>1, <2>2
<1>1. Fields(m) \in Nat /\ Fields(m) >= 4
  BY FieldsBound
<1>2. k \in 0..Len(m.text) /\ k < Len(m.text)
  <2>1. k \in 0..Len(m.text)
    BY TextIs
  <2>2. r.field = k /\ k <= 3 /\ k \in Nat
    BY <1>11
  <2> HIDE DEF r
  <2>3. r.field < Fields(m)
    BY <1>1, <2>2
  <2> QED BY <2>1, <2>3, MoreText DEF r
<1>3. Extends(m, r, ch, s) /\ ch # EOF /\ Next1 = ch
  BY <1>2, NextReading DEF Sees
<1> HIDE DEF r, s, ch
<1>4. Field(m, k + 1) = <<"I", "S", "S", m.cmd>>[k + 1]
  <2>1. k + 1 <= 4
    BY <1>11
  <2> QED BY <2>1, Zenon DEF Field
<1>5. Field(m, k + 1) # "%d"
  <2>1. m.cmd # "%d"
    BY DEF Spells, COMMANDS, Plain, Numbers, Triples
  <2> QED BY <1>0, <1>4, <2>1
<1>6. ~Expects(m, r, "%d")
  BY <1>0, <1>5 DEF Expects
<1>7. Names(m, r, ch, s)
  <2>1. ~Continues(r, ch, s)
    BY <1>0 DEF Continues
  <2>2. ~Begins(m, r, ch, s)
    BY <1>6 DEF Begins
  <2>3. ~Pauses(m, r, ch, s)
    <3>1. r.field # 4 /\ r.field # 5
      BY <1>11
    <3> QED BY <1>6, <3>1 DEF Pauses
  <2> QED BY <1>3, <2>1, <2>2, <2>3 DEF Extends
<1>8. ch = Field(m, k + 1) /\ s = Reading(k + 1, <<>>, FALSE)
  BY <1>0, <1>7 DEF Names, Expects
<1>9. CASE k \in {1, 2}
  <2>1. ch = "S"
    BY <1>4, <1>8, <1>9
  <2>2. Format[at] = "S"
    BY <1>0, <1>9, MainFormat
  <2>3. Literal("S", ch)
    BY <1>3, <2>2, ScanReads
  <2>4. at' = k + 2 /\ conv' = <<>> /\ ungot' = Nothing /\ call' = "main"
    BY <1>0, <2>1, <2>3, ScanKeeps DEF Literal, Proceed
  <2>5. Greets(m, k + 1)'
    BY <1>8, <1>9, <2>4 DEF Greets, s
  <2> QED BY <1>2, <1>3, <2>4, <2>5 DEF Advances, InMessage
<1>10. CASE k = 3
  <2>1. ch = m.cmd
    BY <1>4, <1>8, <1>10
  <2>2. Format[at] = "%c"
    BY <1>0, <1>10, MainFormat
  <2>3. Character(ch)
    BY <1>3, <2>2, ScanReads
  <2>4. at' = 5 /\ conv' = <<m.cmd>> /\ ungot' = Nothing /\ call' = "main"
    BY <1>0, <1>3, <1>10, <2>1, <2>3, ScanKeeps DEF Character, Proceed
  <2>5. Lettered(m, k + 1)'
    BY <1>8, <1>10, <2>4 DEF Lettered, s
  <2> QED BY <1>2, <1>3, <2>4, <2>5 DEF Advances, InMessage
<1> QED BY <1>0, <1>9, <1>10

LEMMA ScanLettered ==
  ASSUME IInv, NEW m \in Messages, Spells(m), NEW k \in 1..Len(m.text),
         Scan, Sees(m, k), Lettered(m, k)
  PROVE  Advances(m, k) \/ Stays(m, k)
<1> DEFINE ch == m.text[k + 1]
           r == m.reading[k]
           s == m.reading[k + 1]
<1>0. call = "main" /\ Format[5] = "\n" /\ at = 5
  BY MainFormat, ScanReads DEF Lettered
<1>1. /\ conv = <<m.cmd>>
      /\ r = Reading(4, <<>>, FALSE) /\ r.field = 4 /\ r.nums = <<>> /\ r.open = FALSE
  BY DEF Lettered, Reading
<1>2. White(Next1)
  BY <1>0, ScanReads
<1>3. k \in 0..Len(m.text) /\ Len(m.text) \in Nat
  BY TextIs
<1>4. CASE Next1 \in Space
  <2>1. k < Len(m.text)
    BY <1>3, <1>4, Apart DEF Sees
  <2>2. Extends(m, r, ch, s) /\ Next1 = ch /\ Next1 # EOF
    BY <1>3, <2>1, NextReading DEF Sees
  <2> HIDE DEF r, s, ch
  <2>3. ch \in Space /\ ch \notin Digits
    BY <1>4, <2>2, Apart
  <2>4. Pauses(m, r, ch, s)
    BY <2>2, <2>3 DEF Extends, Continues, Begins, Names
  <2>5. s = Reading(4, <<>>, FALSE)
    BY <1>1, <2>4 DEF Pauses
  <2>6. UNCHANGED <<at, conv, call>> /\ ungot' = Nothing
    BY <1>2, <1>4, ScanKeeps DEF White
  <2>7. Lettered(m, k + 1)'
    BY <1>0, <1>1, <2>5, <2>6 DEF Lettered, s
  <2> QED BY <2>1, <2>2, <2>6, <2>7 DEF Advances, InMessage
<1>5. CASE Next1 \notin Space
  <2>1. Ended(m, k, Space)
    BY <1>3, <1>5 DEF Sees, Ended
  <2>2. at' = 6 /\ UNCHANGED <<conv, call>> /\ ungot' = (IF Next1 = EOF THEN Nothing ELSE Next1)
    BY <1>0, <1>2, <1>5, ScanKeeps DEF White, Proceed, Keep
  <2>3. Lettered(m, k)'
    BY <1>0, <1>1, <2>1, <2>2 DEF Lettered, Ended
  <2> QED BY <2>2, <2>3 DEF Stays, InMessage
<1> QED BY <1>4, <1>5

(* The last element of a sequence. *)
LEMMA LastChanges ==
  ASSUME NEW q \in Seq(Nat), NEW x \in Nat, NEW y \in Nat, NEW w, w = Append(q, x),
         NEW a, a = [w EXCEPT ![Len(w)] = y]
  PROVE  a = Append(q, y)
<1> DEFINE b == Append(q, y)
           n == Len(q) + 1
<1>1. n \in Nat /\ Len(q) \in Nat
  OBVIOUS
<1>2. w \in Seq(Nat) /\ Len(w) = n /\ n \in DOMAIN w /\ \A i \in 1..Len(q) : w[i] = q[i]
  BY AppendProperties
<1>3. a \in Seq(Nat) /\ Len(a) = n /\ a[n] = y /\ \A i \in 1..Len(q) : a[i] = q[i]
  <2>1. a = [w EXCEPT ![n] = y]
    BY <1>2
  <2>2. \A i \in 1..Len(q) : i # n /\ i \in DOMAIN w
    BY <1>1, <1>2
  <2>3. a \in Seq(Nat) /\ Len(a) = n
    BY <1>1, <1>2, <2>1
  <2> HIDE DEF n
  <2>4. a[n] = y
    BY <1>2, <2>1
  <2>5. \A i \in 1..Len(q) : a[i] = q[i]
    BY <1>2, <2>1, <2>2
  <2> QED BY <2>3, <2>4, <2>5
<1>4. b \in Seq(Nat) /\ Len(b) = n /\ b[n] = y /\ \A i \in 1..Len(q) : b[i] = q[i]
  BY <1>1, AppendProperties
<1> HIDE DEF b
<1>5. \A i \in 1..n : i = n \/ i \in 1..Len(q)
  BY <1>1
<1>6. a = b
  BY <1>3, <1>4, <1>5, SeqEqual
<1> QED BY <1>6 DEF b

LEMMA LastMoves ==
  ASSUME NEW p \in Seq(Nat), NEW q \in Seq(Nat), NEW x \in Nat
  PROVE  Append(p \o q, x) = p \o Append(q, x)
<1> DEFINE a == Append(p \o q, x)
           b == p \o Append(q, x)
           n == Len(p) + Len(q) + 1
<1>1. a \in Seq(Nat) /\ Len(a) = n
  BY AppendProperties, ConcatProperties
<1>2. b \in Seq(Nat) /\ Len(b) = n
  BY AppendProperties, ConcatProperties
<1>3. \A i \in 1..n : a[i] = b[i]
  OBVIOUS
<1> HIDE DEF a, b
<1>4. a = b
  BY <1>1, <1>2, <1>3, SeqEqual
<1> QED BY <1>4 DEF a, b

(* set_passes, and the end of the line after its count, *)
LEMMA ScanCountLine ==
  ASSUME IInv, NEW m \in Messages, Spells(m), NEW k \in 1..Len(m.text),
         Scan, Sees(m, k), Argues(m, k), call = "count", at = 2
  PROVE  Advances(m, k) \/ Stays(m, k)
<1> DEFINE ch == m.text[k + 1]
           r == m.reading[k]
           s == m.reading[k + 1]
<1>0. Format = <<"%d", "\n">> /\ Base(m) = 4 /\ Base(m)' = 4 /\ UNCHANGED <<call, c, args, todo>>
  BY ScanKeeps DEF Format, Base
<1>1. White(Next1)
  BY <1>0, ScanReads
<1>2. /\ Handles(m) /\ r \in Readings /\ num = Unread /\ r.nums = args \o conv
      /\ r.open => Ended(m, k, Digits)
      /\ r.field = 5
  BY <1>0 DEF Argues, Between, Inside, Counted
<1>3. k \in 0..Len(m.text) /\ Len(m.text) \in Nat /\ m.cmd = "u"
  BY <1>2, TextIs DEF Handles
<1>4. CASE Next1 \in Space
  <2>1. k < Len(m.text)
    BY <1>3, <1>4, Apart DEF Sees
  <2>2. Extends(m, r, ch, s) /\ Next1 = ch /\ Next1 # EOF
    BY <1>3, <2>1, NextReading DEF Sees
  <2> HIDE DEF r, s, ch
  <2>3. ch \in Space /\ ch \notin Digits
    BY <1>4, <2>2, Apart
  <2>4. Pauses(m, r, ch, s)
    BY <2>2, <2>3 DEF Extends, Continues, Begins, Names
  <2>5. s.field = 5 /\ s.nums = args \o conv /\ s.open = FALSE
    BY <1>2, <2>4 DEF Pauses, Reading
  <2>6. UNCHANGED <<at, conv, num>> /\ ungot' = Nothing
    BY <1>1, <1>4 DEF White
  <2>7. s \in Readings
    BY <1>3, <2>1, NextReading, ReadingsTyped DEF s
  <2>8. Handles(m)'
    BY <1>0, <1>2, <2>6 DEF Handles
  <2>9. Between(m, k + 1)'
    BY <1>0, <1>2, <2>5, <2>6 DEF Between, Counted, s
  <2> QED BY <2>1, <2>2, <2>6, <2>7, <2>8, <2>9 DEF Advances, InMessage, Argues, s
<1>5. CASE Next1 \notin Space
  <2>1. Ended(m, k, Space)
    BY <1>3, <1>5 DEF Sees, Ended
  <2>2. at' = 3 /\ UNCHANGED conv /\ num' = Unread /\ ungot' = (IF Next1 = EOF THEN Nothing ELSE Next1)
    BY <1>1, <1>5 DEF White, Proceed, Keep
  <2>3. Handles(m)'
    BY <1>0, <1>2, <2>2 DEF Handles
  <2>4. Between(m, k)'
    BY <1>0, <1>2, <2>1, <2>2 DEF Between, Counted, Ended
  <2> QED BY <1>2, <2>2, <2>3, <2>4 DEF Stays, InMessage, Argues
<1> QED BY <1>4, <1>5

(* and every other directive of a handler: it stands for a field. *)
LEMMA ArguesFacts ==
  ASSUME IInv, NEW m \in Messages, Spells(m), NEW k \in 1..Len(m.text),
         Scan, Argues(m, k), ~(call = "count" /\ at = 2)
  PROVE  /\ at \in 1..Len(Format) /\ Len(Format) \in Nat /\ at \in Nat
         /\ Base(m) \in Nat /\ Base(m) >= (IF call = "record" THEN 5 ELSE 4)
         /\ Base(m) + at <= Fields(m) /\ Fields(m) \in Nat
         /\ Format[at] = Field(m, Base(m) + at)
         /\ Format[at] # "\n" /\ Format[at] # "%c"
         /\ ~Counted /\ Len(m.text) \in Nat /\ k \in 0..Len(m.text)
         /\ call = "count" => at = 1 /\ Format[at] = "%d"
         /\ call = "record" => /\ at \in {1, 3} => Format[at] = "%d"
                               /\ at \in {2, 4} => Format[at] # "%d"
                               /\ Len(Format) = 4
<1>1. Handles(m) /\ call \in {"args", "count", "record"}
  BY DEF Argues, Handles
<1>2. at \in 1..Len(Format) /\ Len(Format) \in Nat /\ at \in Nat
  BY ScanReads
<1>3. Format[at] # "%c"
  BY <1>1, <1>2, HandlersReadNumbers
<1>4. CASE call = "count"
  <2>1. Format = <<"%d", "\n">>
    BY <1>4 DEF Format
  <2>2. at = 1 /\ Format[at] = "%d"
    BY <1>2, <1>4, <2>1
  <2> QED BY <1>1, <1>2, <1>4, <2>2, Aligned, TextIs, FieldsBound DEF Counted
<1>5. CASE call # "count"
  <2>1. Format[at] # "\n"
    BY <1>1, <1>2, <1>5, NoSpaceInFormats
  <2>2. call = "record" => /\ at \in {1, 3} => Format[at] = "%d"
                           /\ at \in {2, 4} => Format[at] # "%d"
                           /\ Len(Format) = 4
    <3> DEFINE comma == ","
    <3>1. comma # "%d"
      BY Zenon
    <3> HIDE DEF comma
    <3>2. call = "record" => Format = <<"%d", comma, "%d", comma>>
      BY DEF Format, comma
    <3> QED BY <3>1, <3>2
  <2> QED BY <1>1, <1>2, <1>3, <1>5, <2>1, <2>2, Aligned, TextIs, FieldsBound DEF Counted
<1> QED BY <1>4, <1>5

(* The same directive again. *)
LEMMA HandlesSame ==
  ASSUME NEW m, Handles(m), Scan, UNCHANGED <<at, conv>>
  PROVE  Handles(m)'
<1>1. UNCHANGED <<call, c, args, todo>>
  BY ScanKeeps
<1> QED BY <1>1 DEF Handles

(* A number begins, *)
LEMMA ScanBegins ==
  ASSUME IInv, NEW m \in Messages, Spells(m), NEW k \in 1..Len(m.text),
         Scan, Sees(m, k), Argues(m, k), ~(call = "count" /\ at = 2),
         Format[at] = "%d", Between(m, k)
  PROVE  Advances(m, k)
<1> DEFINE ch == m.text[k + 1]
           r == m.reading[k]
           s == m.reading[k + 1]
<1>0. /\ at \in 1..Len(Format) /\ Base(m) \in Nat /\ at \in Nat
      /\ Base(m) + at <= Fields(m) /\ Fields(m) \in Nat
      /\ Field(m, Base(m) + at) = "%d" /\ ~Counted /\ k \in 0..Len(m.text)
  BY ArguesFacts
<1>1. Format' = Format /\ Base(m)' = Base(m) /\ UNCHANGED <<call, args>>
  BY ScanKeeps
<1>2. /\ num = Unread /\ r.nums = args \o conv /\ (r.open => Ended(m, k, Digits))
      /\ r.field = Base(m) + at - 1
  BY <1>0 DEF Between
<1>3. Number(Next1) /\ Handles(m)
  BY ScanReads DEF Argues
<1> HIDE DEF r
<1>4. r.field < Fields(m) /\ r.field + 1 = Base(m) + at
  BY <1>0, <1>2
<1>5. k < Len(m.text)
  BY <1>0, <1>4, MoreText DEF r
<1>6. Extends(m, r, ch, s) /\ Next1 = ch /\ ch # EOF /\ s \in Readings
  BY <1>0, <1>5, NextReading, ReadingsTyped DEF Sees, r
<1>7. r.open => ch \notin Digits
  BY <1>2, <1>5 DEF Ended
<1>8. r.nums \in Seq(Nat) /\ args \o conv \in Seq(Nat)
  BY <1>0, <1>2, ReadingsTyped DEF r, Readings
<1> HIDE DEF s, ch
<1>9. CASE Begins(m, r, ch, s)
  <2>1. ch \in Digits /\ s.field = Base(m) + at /\ s.nums = Append(args \o conv, Value(ch)) /\ s.open = TRUE
    BY <1>2, <1>4, <1>9 DEF Begins, Reading
  <2>2. Value(ch) \in Nat
    BY <2>1, ValueType
  <2>3. num' = Value(ch) /\ UNCHANGED <<at, conv>> /\ ungot' = Nothing
    BY <1>2, <1>3, <1>6, <2>1, <2>2 DEF Number
  <2>4. Inside(m, k + 1)'
    BY <1>0, <1>1, <2>1, <2>2, <2>3 DEF Inside, s
  <2>5. Handles(m)'
    BY <1>3, <2>3, HandlesSame
  <2> QED BY <1>5, <1>6, <2>3, <2>4, <2>5 DEF Advances, InMessage, Argues, s
<1>10. CASE Pauses(m, r, ch, s)
  <2>1. ch \in Space /\ ch \notin Digits /\ s.field = r.field /\ s.nums = args \o conv /\ s.open = FALSE
    BY <1>2, <1>10, Apart DEF Pauses, Reading
  <2>2. UNCHANGED <<at, conv, num>> /\ ungot' = Nothing
    BY <1>2, <1>3, <1>6, <2>1 DEF Number
  <2>3. Between(m, k + 1)'
    BY <1>0, <1>1, <1>2, <2>1, <2>2 DEF Between, Counted, s
  <2>4. Handles(m)'
    BY <1>3, <2>2, HandlesSame
  <2> QED BY <1>5, <1>6, <2>2, <2>3, <2>4 DEF Advances, InMessage, Argues, s
<1>11. ~Continues(r, ch, s)
  BY <1>7 DEF Continues
<1>12. ~Names(m, r, ch, s)
  BY <1>0, <1>4 DEF Names, Expects
<1> QED BY <1>6, <1>9, <1>10, <1>11, <1>12 DEF Extends

(* fits the variable that it is read into, *)
LEMMA NumberStored ==
  ASSUME IInv, NEW m \in Messages, Spells(m), NEW k \in 1..Len(m.text),
         num \in Nat, args \o conv \in Seq(Nat), Handles(m),
         m.reading[k].open, m.reading[k].nums = Append(args \o conv, num),
         m.reading[k].field = Base(m) + at,
         call = "count" => at = 1, call = "record" => at \in {1, 3}
  PROVE  Stored(num) = num
<1> DEFINE w == m.reading[k].nums
           f == m.reading[k].field
<1>1. Fits(m, f, w[Len(w)])
  BY DEF Spells
<1>2. w[Len(w)] = num
  BY AppendProperties
<1> HIDE DEF w
<1>3. Fits(m, f, num) /\ f = Base(m) + at
  BY <1>1, <1>2
<1> HIDE DEF f
<1>0. \A x \in Nat : x < 65536 => x % 65536 = x
  OBVIOUS
<1>4. CASE call = "args"
  <2>1. num < 32768
    BY <1>3, <1>4 DEF Fits, Handles
  <2>2. num % 65536 = num
    BY <1>0, <2>1
  <2> QED BY <1>4, <2>2 DEF Stored
<1>5. CASE call = "count"
  <2>1. f = 5
    BY <1>3, <1>5 DEF Base
  <2>2. num < 32768
    BY <1>3, <2>1 DEF Fits
  <2>3. num % 65536 = num
    BY <1>0, <2>2
  <2> QED BY <1>5, <2>3 DEF Stored
<1>6. CASE call = "record"
  <2>1. m.cmd = "u" /\ m.args[1] \in Nat /\ todo \in 1..m.args[1] /\ Fields(m) = 5 + 4 * m.args[1]
    BY <1>6, FieldsBound DEF Handles
  <2>2. f = 5 + 4 * (m.args[1] - todo) + at /\ m.args[1] - todo \in Nat
    <3> DEFINE a == m.args[1]
    <3>1. a \in Nat /\ todo \in 1..a /\ Fields(m) = 5 + 4 * a /\ at \in {1, 3}
      BY <1>6, <2>1
    <3>2. f = Fields(m) - 4 * todo + at
      BY <1>3, <1>6 DEF Base
    <3> HIDE DEF a
    <3>3. f = 5 + 4 * (a - todo) + at /\ a - todo \in Nat
      BY <3>1, <3>2
    <3> QED BY <3>3 DEF a
  <2> DEFINE i == m.args[1] - todo
  <2> HIDE DEF i
  <2>3. CASE at = 1
    <3>1. f = 4 * i + 6 /\ i \in Nat
      BY <2>2, <2>3 DEF i
    <3>2. f % 4 = 2 /\ f # 5
      BY <3>1
    <3>3. num \div 65536 < 65536
      BY <1>3, <2>1, <3>2 DEF Fits
    <3>4. (num \div 65536) % 65536 = num \div 65536
      <4>1. num \div 65536 \in Nat
        OBVIOUS
      <4> QED BY <1>0, <3>3, <4>1
    <3>5. (num \div 65536) * 65536 + (num % 65536) = num
      OBVIOUS
    <3> QED BY <1>6, <2>3, <3>4, <3>5 DEF Stored
  <2>4. CASE at = 3
    <3>1. f = 4 * i + 8 /\ i \in Nat
      BY <2>2, <2>4 DEF i
    <3>2. f % 4 = 0 /\ f # 5
      BY <3>1
    <3>3. num < 65536
      BY <1>3, <2>1, <3>2 DEF Fits
    <3>4. num % 65536 = num
      BY <1>0, <3>3
    <3> QED BY <1>6, <2>4, <3>4 DEF Stored
  <2> QED BY <1>6, <2>3, <2>4
<1> QED BY <1>4, <1>5, <1>6 DEF Handles

(* and goes on or ends, *)
LEMMA ScanInside ==
  ASSUME IInv, NEW m \in Messages, Spells(m), NEW k \in 1..Len(m.text),
         Scan, Sees(m, k), Argues(m, k), ~(call = "count" /\ at = 2), Inside(m, k)
  PROVE  Advances(m, k) \/ Stays(m, k)
<1> DEFINE ch == m.text[k + 1]
           r == m.reading[k]
           s == m.reading[k + 1]
           before == args \o conv
<1>0. /\ at \in 1..Len(Format) /\ Base(m) \in Nat /\ at \in Nat /\ Format[at] = "%d"
      /\ ~Counted /\ k \in 0..Len(m.text) /\ Len(m.text) \in Nat
      /\ call = "count" => at = 1
      /\ call = "record" => at \in {1, 3}
  <2>1. Format[at] = "%d"
    BY DEF Inside
  <2>2. at \in 1..4 => at \in {1, 2, 3, 4}
    OBVIOUS
  <2> QED BY <2>1, <2>2, ArguesFacts
<1>1. Format' = Format /\ Base(m)' = Base(m) /\ UNCHANGED <<call, c, args, todo>>
  BY ScanKeeps
<1>2. num \in Nat /\ r.open /\ r.nums = Append(before, num) /\ r.field = Base(m) + at /\ r \in Readings
  BY DEF Inside, Argues
<1>3. Number(Next1) /\ Handles(m) /\ args \in Seq(Nat) /\ conv \in Seq(Nat)
  BY <1>0, ScanReads DEF Argues, Handles
<1>4. before \in Seq(Nat) /\ Len(before) \in Nat
  BY <1>3
<1> HIDE DEF r, s, ch
<1>5. CASE Next1 \in Digits
  <2>1. k < Len(m.text)
    BY <1>0, <1>5, Apart DEF Sees
  <2>2. Extends(m, r, ch, s) /\ Next1 = ch /\ ch # EOF /\ s \in Readings
    BY <1>0, <2>1, NextReading, ReadingsTyped DEF Sees, r, s, ch
  <2>3. Continues(r, ch, s)
    BY <1>2, <1>5, <2>2, Apart DEF Extends, Begins, Pauses, Names
  <2>4. Value(ch) \in Nat /\ num * 10 + Value(ch) \in Nat
    <3>1. Value(ch) \in Nat
      BY <1>5, <2>2, ValueType
    <3> QED BY <1>2, <3>1
  <2>5. num' = num * 10 + Value(ch) /\ UNCHANGED <<at, conv>> /\ ungot' = Nothing
    BY <1>2, <1>3, <1>5, <2>2 DEF Number
  <2>6. s.field = r.field /\ s.open = TRUE /\ s.nums = [r.nums EXCEPT ![Len(r.nums)] = @ * 10 + Value(ch)]
    BY <2>3 DEF Continues, Reading
  <2>7. s.nums = Append(before, num * 10 + Value(ch))
    <3> DEFINE y == num * 10 + Value(ch)
               w == r.nums
    <3>1. w = Append(before, num) /\ Len(w) \in DOMAIN w /\ w[Len(w)] = num
      BY <1>2, <1>4, AppendProperties
    <3>2. s.nums = [w EXCEPT ![Len(w)] = w[Len(w)] * 10 + Value(ch)]
      BY <2>6
    <3>3. s.nums = [w EXCEPT ![Len(w)] = y] /\ y \in Nat
      BY <2>4, <3>1, <3>2
    <3> HIDE DEF w, before, y
    <3> DEFINE a == s.nums
    <3>4. before \in Seq(Nat) /\ num \in Nat /\ y \in Nat /\ w = Append(before, num)
      BY <1>2, <1>4, <3>1, <3>3 DEF before
    <3>5. a = [w EXCEPT ![Len(w)] = y]
      BY <3>3
    <3> HIDE DEF a
    <3>6. a = Append(before, y)
      BY <3>4, <3>5, LastChanges
    <3> QED BY <3>6 DEF y, a
  <2>8. Inside(m, k + 1)'
    BY <1>0, <1>1, <1>2, <2>4, <2>5, <2>6, <2>7 DEF Inside, s
  <2>9. Handles(m)'
    BY <1>3, <2>5, HandlesSame
  <2> QED BY <2>1, <2>2, <2>5, <2>8, <2>9 DEF Advances, InMessage, Argues, s
<1>6. CASE Next1 \notin Digits
  <2>1. Ended(m, k, Digits)
    BY <1>0, <1>6 DEF Sees, Ended
  <2>2. /\ at' = at + 1 /\ conv' = Append(conv, num) /\ num' = Unread
        /\ ungot' = (IF Next1 = EOF THEN Nothing ELSE Next1)
    <3>1. Stored(num) = num
      BY <1>0, <1>2, <1>3, <1>4, NumberStored DEF r, before
    <3> QED BY <1>2, <1>3, <1>6, <3>1 DEF Number, Proceed, Keep
  <2>3. r.nums = args \o conv'
    BY <1>2, <1>3, <2>2, LastMoves
  <2>4. Handles(m)'
    <3>1. conv' \in Seq(Nat) /\ Len(conv') = Len(conv) + 1
      BY <1>2, <1>3, <2>2
    <3>2. call # "args" => Len(conv) = at \div 2 /\ at \in {1, 3}
      BY <1>0, <1>3 DEF Handles
    <3>3. call # "args" => Len(conv') = at' \div 2
      <4>1. at = 1 => at \div 2 = 0 /\ at' \div 2 = 1
        BY <2>2
      <4>2. at = 3 => at \div 2 = 1 /\ at' \div 2 = 2
        BY <2>2
      <4> QED BY <3>1, <3>2, <4>1, <4>2
    <3> QED BY <1>1, <1>3, <3>1, <3>3 DEF Handles
  <2>5. Between(m, k)'
    <3>1. ~Counted' /\ at' # 1 /\ r.field = Base(m)' + at' - 1
      BY <1>0, <1>1, <1>2, <2>2 DEF Counted
    <3> QED BY <2>1, <2>2, <2>3, <3>1, <1>1 DEF Between, Ended, r
  <2> QED BY <1>2, <2>2, <2>4, <2>5 DEF Stays, InMessage, Argues, r
<1> QED BY <1>5, <1>6

(* and the other fields are letters. *)
LEMMA ScanLiteral ==
  ASSUME IInv, NEW m \in Messages, Spells(m), NEW k \in 1..Len(m.text),
         Scan, Sees(m, k), Argues(m, k), ~(call = "count" /\ at = 2),
         Format[at] # "%d", Between(m, k)
  PROVE  Advances(m, k)
<1> DEFINE ch == m.text[k + 1]
           r == m.reading[k]
           s == m.reading[k + 1]
           d == Format[at]
<1>0. /\ at \in 1..Len(Format) /\ Base(m) \in Nat /\ at \in Nat /\ Len(Format) \in Nat
      /\ Base(m) >= (IF call = "record" THEN 5 ELSE 4)
      /\ Base(m) + at <= Fields(m) /\ Fields(m) \in Nat
      /\ Field(m, Base(m) + at) = d /\ ~Counted /\ k \in 0..Len(m.text)
      /\ d # "\n" /\ d # "%c" /\ d # "%d"
      /\ call # "count"
      /\ call = "record" => at \notin {1, 3} /\ Len(Format) = 4
  BY ArguesFacts
<1>1. Format' = Format /\ Base(m)' = Base(m) /\ UNCHANGED <<call, c, args, todo>>
  BY ScanKeeps
<1>2. /\ num = Unread /\ r.nums = args \o conv /\ (r.open => Ended(m, k, Digits))
      /\ r.field = Base(m) + at - 1
      /\ at = 1 => Ended(m, k, Space)
  BY <1>0 DEF Between
<1>3. Literal(d, Next1) /\ Handles(m)
  BY <1>0, ScanReads DEF Argues
<1> HIDE DEF r, d
<1>4. r.field < Fields(m) /\ r.field + 1 = Base(m) + at
  BY <1>0, <1>2
<1>5. k < Len(m.text)
  BY <1>0, <1>4, MoreText DEF r
<1>6. Extends(m, r, ch, s) /\ Next1 = ch /\ ch # EOF /\ s \in Readings
  BY <1>0, <1>5, NextReading, ReadingsTyped DEF Sees, r
<1>7. (r.open => ch \notin Digits) /\ (at = 1 => ch \notin Space)
  BY <1>2, <1>5 DEF Ended
<1> HIDE DEF s, ch
<1>8. ~Expects(m, r, "%d")
  BY <1>0, <1>4 DEF Expects
<1>9. ~Pauses(m, r, ch, s)
  <2>1. r.field = 4 => at = 1
    BY <1>0, <1>2
  <2>2. ~(m.cmd = "u" /\ r.field = 5)
    <3>1. m.cmd = "u" => call = "record"
      BY <1>0, <1>3 DEF Handles
    <3>2. call = "record" => at >= 2 /\ Base(m) >= 5
      BY <1>0
    <3> QED BY <1>0, <1>2, <3>1, <3>2
  <2> QED BY <1>7, <1>8, <2>1, <2>2 DEF Pauses
<1>10. Names(m, r, ch, s)
  BY <1>6, <1>7, <1>8, <1>9 DEF Extends, Continues, Begins
<1>11. ch = d /\ s.field = Base(m) + at /\ s.nums = args \o conv /\ s.open = FALSE
  BY <1>0, <1>2, <1>4, <1>10 DEF Names, Expects, Reading
<1>12. at' = at + 1 /\ UNCHANGED conv /\ num' = Unread /\ ungot' = Nothing
  BY <1>3, <1>6, <1>11 DEF Literal, Proceed
<1>13. Handles(m)'
  <2>1. call = "record" => at \in {2, 4} /\ Len(conv) = at \div 2
    <3>1. call = "record" => at \in 1..4 /\ at # 1 /\ at # 3
      BY <1>0
    <3> QED BY <1>3, <3>1 DEF Handles
  <2>2. call = "record" => Len(conv) = at' \div 2
    <3>1. at = 2 => at \div 2 = 1 /\ at' \div 2 = 1
      BY <1>12
    <3>2. at = 4 => at \div 2 = 2 /\ at' \div 2 = 2
      BY <1>12
    <3> QED BY <2>1, <3>1, <3>2
  <2> QED BY <1>0, <1>1, <1>3, <1>12, <2>2 DEF Handles
<1>14. Between(m, k + 1)'
  <2>1. ~Counted' /\ at' # 1 /\ s.field = Base(m)' + at' - 1
    BY <1>0, <1>1, <1>11, <1>12 DEF Counted
  <2> QED BY <1>1, <1>11, <1>12, <2>1 DEF Between, s
<1> QED BY <1>5, <1>6, <1>12, <1>13, <1>14 DEF Advances, InMessage, Argues, s

LEMMA ScanInMessage ==
  ASSUME IInv, NEW m \in Messages, Spells(m), NEW k \in 1..Len(m.text),
         Scan, Sees(m, k), InMessage(m, k)
  PROVE  Advances(m, k) \/ Stays(m, k)
<1>1. CASE Argues(m, k)
  <2>1. CASE call = "count" /\ at = 2
    BY <1>1, <2>1, ScanCountLine
  <2>2. CASE ~(call = "count" /\ at = 2)
    BY <1>1, <2>2, ScanBegins, ScanInside, ScanLiteral DEF Argues, Inside
  <2> QED BY <2>1, <2>2
<1> QED BY <1>1, ScanGreets, ScanLettered DEF InMessage

-----------------------------------------------------------------------------
(* The main loop and the handlers inside a message *)

(* Nothing can follow the last field of a message. *)
LEMMA Complete ==
  ASSUME NEW m \in Messages, Spells(m), NEW k \in 0..Len(m.text),
         m.reading[k].field = Fields(m),
         m.reading[k].open => Ended(m, k, Digits),
         Fields(m) = 4 \/ (m.cmd = "u" /\ Fields(m) = 5) => Ended(m, k, Space)
  PROVE  k = Len(m.text) /\ m.reading[k].nums = m.args
<1> DEFINE ch == m.text[k + 1]
           r == m.reading[k]
           s == m.reading[k + 1]
<1>1. Len(m.text) \in Nat /\ Fields(m) \in Nat
  BY TextIs, FieldsBound
<1>2. k = Len(m.text)
  <2> SUFFICES ASSUME k < Len(m.text) PROVE FALSE
    BY <1>1
  <2>1. Extends(m, r, ch, s)
    BY NextReading
  <2>2. r.open => ch \notin Digits
    BY <1>1 DEF Ended
  <2>3. r.field = 4 \/ (m.cmd = "u" /\ r.field = 5) => ch \notin Space
    BY <1>1 DEF Ended
  <2>4. r.field = Fields(m)
    OBVIOUS
  <2> HIDE DEF r, s, ch
  <2>5. \A d : ~Expects(m, r, d)
    BY <1>1, <2>4 DEF Expects
  <2>6. ~Begins(m, r, ch, s) /\ ~Names(m, r, ch, s)
    BY <2>5 DEF Begins, Names
  <2>7. ~Continues(r, ch, s)
    BY <2>2 DEF Continues
  <2>8. ~Pauses(m, r, ch, s)
    BY <2>3, <2>5 DEF Pauses
  <2> QED BY <2>1, <2>6, <2>7, <2>8 DEF Extends
<1> QED BY <1>2 DEF Spells

(* The command of the message is run, when all of it has been read. *)
Finishes(m, k) ==
  /\ k = Len(m.text) /\ call' = "none" /\ ungot' = ungot
  /\ executed' = Append(executed, [cmd |-> m.cmd, args |-> m.args])

(* Or it is still being read. *)
Goes(m, k) == ungot' = ungot /\ executed' = executed /\ InMessage(m, k)'

LEMMA DispatchInMessage ==
  ASSUME IInv, NEW m \in Messages, Spells(m), NEW k \in 1..Len(m.text),
         InMessage(m, k), Dispatch
  PROVE  Finishes(m, k) \/ Goes(m, k)
<1>1. call = "main" /\ at > 5
  BY MainFormat DEF Dispatch, Returned
<1>2. /\ conv = <<m.cmd>> /\ m.reading[k] = Reading(4, <<>>, FALSE) /\ Ended(m, k, Space)
  <2>1. ~Greets(m, k)
    <3> SUFFICES ASSUME Greets(m, k) PROVE FALSE
      OBVIOUS
    <3>1. k \in 1..3 /\ at = k + 1
      BY DEF Greets
    <3> QED BY <1>1, <3>1
  <2>2. ~Argues(m, k)
    BY <1>1 DEF Argues, Handles
  <2>3. Lettered(m, k)
    BY <2>1, <2>2 DEF InMessage
  <2>4. Ended(m, k, Space)
    BY <1>1, <2>3 DEF Lettered
  <2> QED BY <2>3, <2>4 DEF Lettered
<1>3. m.reading[k].field = 4 /\ m.reading[k].nums = <<>> /\ m.reading[k].open = FALSE
  BY <1>2 DEF Reading
<1>4. k \in 0..Len(m.text) /\ m.reading[k] \in Readings
  BY TextIs, ReadingsTyped
<1>5. c' = m.cmd /\ args' = <<>> /\ ungot' = ungot /\ todo' = todo
  BY <1>2 DEF Dispatch
<1>6. m.cmd \in COMMANDS
  BY DEF Spells
<1>7. CASE m.cmd \in Plain
  <2>1. Run(m.cmd, <<>>)
    BY <1>5, <1>7 DEF Dispatch, Plain
  <2>2. Fields(m) = 4
    BY <1>7, FieldsBound
  <2>3. k = Len(m.text) /\ m.args = <<>>
    BY <1>2, <1>3, <1>4, <2>2, Complete
  <2> QED BY <1>5, <2>1, <2>3 DEF Run, Call, Finishes
<1>8. CASE m.cmd \notin Plain
  <2>1. /\ Call(IF m.cmd = "u" THEN "count" ELSE "args") /\ executed' = executed
    <3>1. m.cmd = "u" => Call("count") /\ executed' = executed
      BY <1>5, <1>8 DEF Dispatch, COMMANDS
    <3>2. m.cmd # "u" => Call("args") /\ executed' = executed
      BY <1>5, <1>6, <1>8 DEF Dispatch
    <3> QED BY <3>1, <3>2
  <2>2. /\ call' = (IF m.cmd = "u" THEN "count" ELSE "args")
        /\ at' = 1 /\ conv' = <<>> /\ num' = Unread
    BY <2>1 DEF Call
  <2>3. Handles(m)'
    BY <1>5, <1>8, <2>2 DEF Handles
  <2>4. Base(m)' = 4 /\ ~Counted'
    BY <2>2 DEF Base, Counted
  <2>5. args' \o conv' = <<>>
    BY <1>5, <2>2
  <2>6. Between(m, k)'
    <3>1. m.reading[k].field = Base(m)' + at' - 1
      BY <1>3, <2>2, <2>4
    <3>2. m.reading[k].nums = args' \o conv' /\ m.reading[k].open = FALSE
      BY <1>3, <2>5
    <3>3. num' = Unread /\ Ended(m, k, Space)
      BY <1>2, <2>2
    <3> QED BY <2>4, <3>1, <3>2, <3>3 DEF Between, Ended
  <2> QED BY <1>4, <1>5, <2>1, <2>3, <2>6 DEF Goes, InMessage, Argues
<1> QED BY <1>7, <1>8

LEMMA ArgumentsInMessage ==
  ASSUME IInv, NEW m \in Messages, Spells(m), NEW k \in 1..Len(m.text),
         InMessage(m, k), Arguments
  PROVE  Finishes(m, k)
<1>1. call = "args" /\ at > Len(Format) /\ Len(Format) \in Nat /\ at \in 1..Len(Format) + 1
  BY FormatLength DEF Arguments, Returned, IInv, Typed, TypeOK
<1>2. Handles(m) /\ (Between(m, k) \/ Inside(m, k))
  BY <1>1 DEF InMessage, Greets, Lettered, Argues
<1>3. Between(m, k) /\ at = Len(Format) + 1
  BY <1>1, <1>2 DEF Inside
<1>4. c = m.cmd /\ m.cmd \notin Plain \cup {"u"} /\ args = <<>> /\ conv \in Seq(Nat)
  BY <1>1, <1>2 DEF Handles
<1>5. Fields(m) = 4 + Len(Format) /\ Fields(m) \in Nat /\ Fields(m) >= 5
  BY <1>1, <1>4, FieldsBound DEF Format
<1>6. m.reading[k].field = Fields(m)
  BY <1>1, <1>3, <1>5 DEF Between, Counted, Base
<1>7. m.reading[k].nums = conv
  BY <1>3, <1>4 DEF Between
<1>8. k \in 0..Len(m.text)
  BY TextIs
<1>9. k = Len(m.text) /\ m.args = conv
  <2>1. m.reading[k].open => Ended(m, k, Digits)
    BY <1>3 DEF Between
  <2>2. ~(Fields(m) = 4 \/ (m.cmd = "u" /\ Fields(m) = 5))
    BY <1>4, <1>5
  <2> QED BY <1>6, <1>7, <1>8, <2>1, <2>2, Complete
<1>10. Len(conv) = ArgCount(c)
  BY <1>4, <1>9 DEF Spells
<1> QED BY <1>4, <1>9, <1>10 DEF Arguments, Run, Call, Finishes

LEMMA CountInMessage ==
  ASSUME IInv, NEW m \in Messages, Spells(m), NEW k \in 1..Len(m.text),
         InMessage(m, k), Count
  PROVE  Finishes(m, k) \/ Goes(m, k)
<1>1. call = "count" /\ Format = <<"%d", "\n">> /\ at = 3
  <2>1. call = "count" /\ Format = <<"%d", "\n">>
    BY DEF Count, Returned, Format
  <2> QED BY <2>1 DEF Count, Returned, IInv, Typed, TypeOK
<1>2. Handles(m) /\ (Between(m, k) \/ Inside(m, k)) /\ m.reading[k] \in Readings
  BY <1>1 DEF InMessage, Greets, Lettered, Argues
<1>3. /\ m.reading[k].nums = args \o conv /\ m.reading[k].field = 5
      /\ m.reading[k].open => Ended(m, k, Digits)
      /\ Ended(m, k, Space)
  BY <1>1, <1>2 DEF Inside, Between, Counted
<1>4. c = m.cmd /\ m.cmd = "u" /\ m.cmd \notin Plain /\ args = <<>> /\ conv \in Seq(Nat) /\ Len(conv) = 1
  <2>1. 3 \div 2 = 1
    OBVIOUS
  <2> QED BY <1>1, <1>2, <2>1 DEF Handles
<1>5. m.reading[k].nums = conv /\ conv # <<>> /\ conv[1] \in Nat
  <2>1. conv # <<>> /\ conv[1] \in Nat
    BY <1>4
  <2>2. <<>> \o conv = conv
    BY <1>4, ConcatEmptySeq
  <2> QED BY <1>3, <1>4, <2>1, <2>2
<1>6. k \in 0..Len(m.text)
  BY TextIs
<1>7. m.args[1] = conv[1] /\ Fields(m) = 5 + 4 * conv[1]
  BY <1>2, <1>3, <1>4, <1>5, <1>6, FirstStays, FieldsBound
<1>8. args' = conv /\ todo' = conv[1] /\ UNCHANGED <<ungot, c>>
  <2>1. conv[1] < 32768
    BY <1>4, <1>5, <1>7 DEF Spells
  <2> QED BY <1>5, <2>1 DEF Count
<1>9. CASE conv[1] = 0
  <2>1. Run(c, conv)
    BY <1>5, <1>8, <1>9 DEF Count
  <2>2. k = Len(m.text) /\ m.args = conv
    BY <1>3, <1>5, <1>6, <1>7, <1>9, Complete
  <2> QED BY <1>4, <1>8, <2>1, <2>2 DEF Run, Call, Finishes
<1>10. CASE conv[1] # 0
  <2>1. call' = "record" /\ at' = 1 /\ conv' = <<>> /\ num' = Unread /\ executed' = executed
    BY <1>5, <1>8, <1>10 DEF Count, Call
  <2>2. Handles(m)'
    <3>1. 1 \div 2 = 0 /\ conv[1] \in 1..m.args[1]
      BY <1>5, <1>7, <1>10
    <3> QED BY <1>4, <1>8, <2>1, <3>1 DEF Handles
  <2>3. Base(m)' = 5
    <3>1. Base(m)' = Fields(m) - 4 * conv[1]
      BY <1>8, <2>1 DEF Base
    <3> QED BY <1>5, <1>7, <3>1
  <2>4. (args \o conv)' = conv
    BY <1>4, <1>8, <2>1
  <2>5. ~Counted' /\ Format'[1] = "%d"
    BY <2>1 DEF Counted, Format
  <2>6. Between(m, k)'
    BY <1>3, <1>5, <2>1, <2>3, <2>4, <2>5 DEF Between, Ended
  <2> QED BY <1>2, <1>8, <2>1, <2>2, <2>6 DEF Goes, InMessage, Argues
<1> QED BY <1>9, <1>10

LEMMA RecordInMessage ==
  ASSUME IInv, NEW m \in Messages, Spells(m), NEW k \in 1..Len(m.text),
         InMessage(m, k), Record
  PROVE  Finishes(m, k) \/ Goes(m, k)
<1> DEFINE comma == ","
<1> HIDE DEF comma
<1>1. call = "record" /\ Format = <<"%d", comma, "%d", comma>> /\ at = 5
  <2>1. call = "record" /\ Format = <<"%d", comma, "%d", comma>>
    BY DEF Record, Returned, Format, comma
  <2> QED BY <2>1 DEF Record, Returned, IInv, Typed, TypeOK
<1>2. Handles(m) /\ (Between(m, k) \/ Inside(m, k)) /\ m.reading[k] \in Readings
  BY <1>1 DEF InMessage, Greets, Lettered, Argues
<1>3. /\ m.reading[k].nums = args \o conv /\ m.reading[k].field = Base(m) + 4
      /\ m.reading[k].open => Ended(m, k, Digits)
  <2>1. Between(m, k) /\ ~Counted
    BY <1>1, <1>2 DEF Inside, Counted
  <2>2. m.reading[k].field = Base(m) + 5 - 1
    BY <1>1, <2>1 DEF Between
  <2>3. Base(m) \in Int
    BY <1>1, <1>2, FieldsBound DEF Base, Handles
  <2> QED BY <2>1, <2>2, <2>3 DEF Between
<1>4. /\ c = m.cmd /\ m.cmd = "u" /\ m.cmd \notin Plain /\ args \in Seq(Nat) /\ conv \in Seq(Nat)
      /\ Len(conv) = 2 /\ todo \in 1..m.args[1]
  <2>1. 5 \div 2 = 2
    OBVIOUS
  <2> QED BY <1>1, <1>2, <2>1 DEF Handles
<1>5. m.args[1] \in Nat /\ Fields(m) = 5 + 4 * m.args[1] /\ Base(m) = Fields(m) - 4 * todo
  BY <1>1, <1>4, FieldsBound DEF Base
<1>6. k \in 0..Len(m.text)
  BY TextIs
<1>7. args' = args \o conv /\ todo' = todo - 1 /\ UNCHANGED <<ungot, c>> /\ args \o conv \in Seq(Nat)
  <2>1. args # <<>>
    BY <1>1 DEF IInv, Typed
  <2>2. args \o conv \in Seq(Nat) /\ args \o conv # <<>> /\ (args \o conv)[1] = args[1]
    BY <1>4, <2>1
  <2>3. args[1] = m.args[1] /\ m.args[1] \in 0..255
    <3>1. m.args[1] < 256
      BY <1>4 DEF Spells
    <3>2. m.args[1] = m.reading[k].nums[1]
      BY <1>2, <1>3, <1>6, <2>2, FirstStays
    <3>3. m.reading[k].nums[1] = args[1]
      BY <1>3, <2>2
    <3>4. \A x \in Nat : x < 256 => x \in 0..255
      OBVIOUS
    <3>5. m.args[1] \in 0..255
      BY <1>5, <3>1, <3>4
    <3> QED BY <3>2, <3>3, <3>5, Zenon
  <2>4. args' = args \o conv /\ todo' = args[1] - ((args[1] - todo + 1) % 256) /\ UNCHANGED <<ungot, c>>
    BY <1>4 DEF Record
  <2>5. args[1] - todo + 1 \in 1..255
    <3> DEFINE a == args[1]
    <3>1. a \in 0..255 /\ todo \in 1..a
      BY <1>4, <2>3
    <3> HIDE DEF a
    <3>2. a - todo + 1 \in 1..255
      BY <3>1
    <3> QED BY <3>2 DEF a
  <2>6. (args[1] - todo + 1) % 256 = args[1] - todo + 1
    <3>1. \A x \in 1..255 : x % 256 = x
      OBVIOUS
    <3> QED BY <2>5, <3>1
  <2> QED BY <1>4, <1>5, <2>2, <2>3, <2>4, <2>6
<1>8. CASE todo = 1
  <2>1. Run(c, args \o conv)
    <3>1. todo' = 0
      BY <1>7, <1>8
    <3> QED BY <1>7, <3>1 DEF Record
  <2>2. m.reading[k].field = Fields(m) /\ Fields(m) > 5
    <3>1. m.args[1] >= 1
      BY <1>4, <1>5
    <3> QED BY <1>3, <1>5, <1>8, <3>1
  <2>3. ~(Fields(m) = 4 \/ (m.cmd = "u" /\ Fields(m) = 5))
    BY <1>5, <2>2
  <2>4. k = Len(m.text) /\ m.args = args \o conv
    BY <1>3, <1>6, <2>2, <2>3, Complete
  <2> QED BY <1>4, <1>7, <2>1, <2>4 DEF Run, Call, Finishes
<1>9. CASE todo # 1
  <2>1. call' = "record" /\ at' = 1 /\ conv' = <<>> /\ num' = Unread /\ executed' = executed
    <3>1. todo' # 0
      BY <1>4, <1>7, <1>9
    <3> QED BY <3>1 DEF Record, Call
  <2>2. Handles(m)'
    <3>1. 1 \div 2 = 0 /\ todo - 1 \in 1..m.args[1]
      BY <1>4, <1>5, <1>9
    <3> QED BY <1>4, <1>7, <2>1, <3>1 DEF Handles
  <2>3. Base(m)' = Base(m) + 4 /\ Base(m) \in Int
    <3>1. Base(m)' = Fields(m) - 4 * (todo - 1)
      BY <1>7, <2>1 DEF Base
    <3> QED BY <1>4, <1>5, <3>1
  <2>4. (args \o conv)' = args \o conv
    BY <1>7, <2>1
  <2>5. ~Counted' /\ Format'[1] = "%d"
    <3>1. Format' = <<"%d", comma, "%d", comma>>
      BY <2>1 DEF Format, comma
    <3> QED BY <2>1, <3>1 DEF Counted
  <2>6. Between(m, k)'
    BY <1>3, <2>1, <2>3, <2>4, <2>5 DEF Between, Ended
  <2> QED BY <1>2, <1>7, <2>1, <2>2, <2>6 DEF Goes, InMessage, Argues
<1> QED BY <1>8, <1>9

-----------------------------------------------------------------------------
(* A session: the messages ms that were written, all their characters T in *)
(* a row, and where in it each message begins, and where the next would.   *)

Sayings == {[cmd |-> m.cmd, args |-> m.args] : m \in Messages}

Session(ms, T, start) ==
  /\ ms \in Seq(Messages) /\ Len(ms) = Len(sent)
  /\ T \in Seq(Characters)
  /\ start \in Seq(Nat) /\ Len(start) = Len(sent) + 1
  /\ start[1] = 0 /\ start[Len(sent) + 1] = Len(T)
  /\ \A i, j \in 1..Len(sent) + 1 : i < j => start[i] < start[j]
  /\ \A i \in 1..Len(sent) :
       /\ Spells(ms[i]) /\ sent[i] = [cmd |-> ms[i].cmd, args |-> ms[i].args]
       /\ start[i + 1] = start[i] + Len(ms[i].text)
       /\ \A q \in 1..Len(ms[i].text) : T[start[i] + q] = ms[i].text[q]
  /\ sent # <<>> => msg = ms[Len(sent)].text
  /\ sent = <<>> => msg = <<>>

(* The characters taken from the bank; what follows them is in the bank    *)
(* and with the host, and what was pushed back is the last of them.        *)
Taken(T) == Len(T) - Len(rest) - Len(bank)

Stream(T) ==
  /\ Taken(T) \in Nat
  /\ \A i \in 1..Len(bank) : bank[i] = T[Taken(T) + i]
  /\ \A i \in 1..Len(rest) : rest[i] = T[(Taken(T) + Len(bank)) + i]
  /\ ungot # Nothing => Taken(T) >= 1 /\ ungot = T[Taken(T)]

(* The characters that have been read. *)
Here(T) == IF ungot = Nothing THEN Taken(T) ELSE Taken(T) - 1

(* The commands that were run are the first that were sent, *)
Ran ==
  /\ sent \in Seq(Sayings) /\ executed \in Seq(Sayings)
  /\ Len(executed) <= Len(sent)
  /\ \A i \in 1..Len(executed) : executed[i] = sent[i]

Turn == Len(executed) + 1

(* and the interpreter is before the first character of the next message e, *)
Idle(T, start, e) ==
  /\ e = Turn /\ Here(T) = start[e]
  /\ call = "none" \/ (call = "main" /\ conv = <<>> /\ at \in {1, 6})

(* or has read k characters of it. *)
Busy(ms, T, start, e, k) ==
  /\ e = Turn /\ e <= Len(sent) /\ k \in 1..Len(ms[e].text) /\ Here(T) = start[e] + k
  /\ InMessage(ms[e], k)

Synced(ms, T, start, e, k) ==
  /\ Ran /\ Session(ms, T, start) /\ Stream(T)
  /\ Idle(T, start, e) \/ Busy(ms, T, start, e, k)

InSync == \E ms, T, start, e, k : Synced(ms, T, start, e, k)

SyncInv == ~Excused => InSync

(* Every message begins with the first letter of the main loop's format. *)
LEMMA BeginsWithI ==
  ASSUME NEW m \in Messages, Spells(m)
  PROVE  /\ Len(m.text) \in Nat /\ Len(m.text) >= 1
         /\ m.text[1] = "I" /\ m.reading[1] = Reading(1, <<>>, FALSE)
<1> DEFINE r == m.reading[0]
           ch == m.text[1]
           s == m.reading[1]
<1>1. Len(m.text) \in Nat /\ Len(m.text) >= 1
  BY MessagesAssumption, EmptySeq, LenProperties
<1>2. r = Reading(0, <<>>, FALSE)
  BY DEF Spells
<1>3. r.field = 0 /\ r.nums = <<>> /\ r.open = FALSE
  BY <1>2 DEF Reading
<1>4. Extends(m, r, ch, s)
  <2>1. 0 \in 0..Len(m.text) /\ 0 < Len(m.text) /\ 0 + 1 = 1
    BY <1>1
  <2> QED BY <2>1, NextReading
<1> HIDE DEF r, ch, s
<1>5. r.field + 1 = 1 /\ Field(m, 1) = "I"
  BY <1>3 DEF Field
<1>6. Names(m, r, ch, s)
  <2>1. ~Expects(m, r, "%d")
    BY <1>5 DEF Expects
  <2>2. ~Continues(r, ch, s) /\ ~Begins(m, r, ch, s)
    BY <1>3, <2>1 DEF Continues, Begins
  <2>3. ~Pauses(m, r, ch, s)
    <3>1. r.field = 0
      BY <1>3
    <3>2. r.field # 4 /\ r.field # 5
      BY <3>1
    <3> QED BY <2>1, <3>2 DEF Pauses
  <2> QED BY <1>4, <2>2, <2>3 DEF Extends
<1>7. ch = "I" /\ s = Reading(1, <<>>, FALSE)
  BY <1>3, <1>5, <1>6 DEF Names, Expects
<1> QED BY <1>1, <1>7 DEF ch, s

(* The state of a session. *)
LEMMA SessionFacts ==
  ASSUME NEW ms, NEW T, NEW start, Session(ms, T, start), Ran, IInv, Stream(T)
  PROVE  /\ Len(sent) \in Nat /\ Len(executed) \in Nat /\ Turn \in 1..Len(sent) + 1
         /\ Len(T) \in Nat /\ Len(rest) \in Nat /\ Len(bank) \in Nat
         /\ Taken(T) \in Nat /\ Here(T) \in Nat
         /\ \A i \in 1..Len(sent) : ms[i] \in Messages
         /\ \A i \in 1..Len(sent) + 1 : start[i] \in Nat /\ start[i] <= Len(T)
<1>1. Len(sent) \in Nat /\ Len(executed) \in Nat /\ Len(executed) <= Len(sent)
  BY DEF Ran
<1>2. Len(T) \in Nat /\ Len(rest) \in Nat /\ Len(bank) \in Nat
  BY DEF Session, IInv, Typed
<1>3. Taken(T) \in Nat /\ Here(T) \in Nat
  <2>1. Taken(T) \in Nat /\ (ungot # Nothing => Taken(T) >= 1)
    BY DEF Stream
  <2> HIDE DEF Taken
  <2> QED BY <2>1 DEF Here
<1>4. \A i \in 1..Len(sent) : ms[i] \in Messages
  BY DEF Session
<1>5. \A i \in 1..Len(sent) + 1 : start[i] \in Nat /\ start[i] <= Len(T)
  <2> SUFFICES ASSUME NEW i \in 1..Len(sent) + 1 PROVE start[i] \in Nat /\ start[i] <= Len(T)
    OBVIOUS
  <2>1. start[i] \in Nat
    BY DEF Session
  <2>2. CASE i = Len(sent) + 1
    BY <1>2, <2>1, <2>2 DEF Session
  <2>3. CASE i # Len(sent) + 1
    <3>1. i < Len(sent) + 1 /\ Len(sent) + 1 \in 1..Len(sent) + 1
      BY <1>1, <2>3
    <3>2. start[i] < start[Len(sent) + 1] /\ start[Len(sent) + 1] = Len(T)
      BY <3>1 DEF Session
    <3> QED BY <1>2, <2>1, <3>2
  <2> QED BY <2>2, <2>3
<1> QED BY <1>1, <1>2, <1>3, <1>4, <1>5 DEF Turn

(* Where a message begins and there are characters, the first is an I. *)
LEMMA FirstOfNext ==
  ASSUME NEW ms, NEW T, NEW start, Session(ms, T, start), Ran, IInv, Stream(T),
         NEW j \in 1..Len(sent) + 1, start[j] < Len(T)
  PROVE  j \in 1..Len(sent) /\ T[start[j] + 1] = "I"
<1>1. Len(sent) \in Nat /\ Len(T) \in Nat
  BY SessionFacts
<1>2. j \in 1..Len(sent)
  <2>1. j # Len(sent) + 1
    BY <1>1 DEF Session
  <2> QED BY <1>1, <2>1
<1>3. ms[j] \in Messages /\ Spells(ms[j]) /\ \A q \in 1..Len(ms[j].text) : T[start[j] + q] = ms[j].text[q]
  BY <1>2, SessionFacts DEF Session
<1>4. 1 \in 1..Len(ms[j].text) /\ ms[j].text[1] = "I"
  <2>1. Len(ms[j].text) \in Nat /\ Len(ms[j].text) >= 1 /\ ms[j].text[1] = "I"
    BY <1>3, BeginsWithI
  <2> QED BY <2>1
<1> QED BY <1>2, <1>3, <1>4

(* The next character is the next of the session; or it has not come, and  *)
(* then a message ends here, unless an fscanf starves.                     *)
LEMMA GetcReads ==
  ASSUME IInv, NEW T \in Seq(Characters), Stream(T), Getc, UNCHANGED <<rest, msg>>, ~starved'
  PROVE  /\ Next1 # EOF => /\ Here(T) < Len(T) /\ Next1 = T[Here(T) + 1] /\ Next1 # Nothing
                           /\ ungot' = Nothing => Stream(T)' /\ Here(T)' = Here(T) + 1
                           /\ ungot' = Next1 => Stream(T)' /\ Here(T)' = Here(T)
         /\ Next1 = EOF => /\ ungot = Nothing /\ bank = <<>> /\ (rest = <<>> \/ rest = msg)
                           /\ ungot' = Nothing => Stream(T)' /\ Here(T)' = Here(T)
<1>1. /\ Len(T) \in Nat /\ Len(rest) \in Nat /\ Len(bank) \in Nat
      /\ bank \in Seq(Characters) /\ rest \in Seq(Characters) /\ ungot # EOF
      /\ Taken(T) \in Nat /\ Taken(T) = Len(T) - Len(rest) - Len(bank)
      /\ ungot # Nothing => Taken(T) >= 1 /\ ungot = T[Taken(T)]
  BY DEF IInv, Typed, PushedBack, Stream, Taken
<1>2. \A i \in 1..Len(T) : T[i] # Nothing /\ T[i] # EOF
  <2>1. \A i \in 1..Len(T) : T[i] \in Characters
    BY ElementOfSeq
  <2> QED BY <2>1 DEF Characters
<1>3. CASE ungot # Nothing
  <2>1. Next1 = ungot /\ UNCHANGED bank
    BY <1>3 DEF Next1, Getc, endpoint
  <2>2. Taken(T)' = Taken(T)
    BY <2>1 DEF Taken
  <2>3. Here(T) = Taken(T) - 1 /\ Here(T) + 1 = Taken(T) /\ Here(T) < Len(T)
    <3>1. Here(T) = Taken(T) - 1
      BY <1>3 DEF Here
    <3> HIDE DEF Taken, Here
    <3> QED BY <1>1, <3>1
  <2>4. ungot' = Nothing \/ ungot' = Next1 => Stream(T)'
    <3> HIDE DEF Taken
    <3> QED BY <1>1, <1>3, <2>1, <2>2 DEF Stream
  <2>5. ungot' = Nothing => Here(T)' = Here(T) + 1
    <3> HIDE DEF Taken
    <3> QED BY <2>2, <2>3 DEF Here
  <2>6. ungot' = Next1 => Here(T)' = Here(T)
    <3> HIDE DEF Taken
    <3> QED BY <1>3, <2>1, <2>2, <2>3 DEF Here
  <2> QED BY <1>1, <1>3, <2>1, <2>3, <2>4, <2>5, <2>6
<1>4. CASE ungot = Nothing /\ Readable
  <2>1. Next1 = Head(bank) /\ bank' = Tail(bank) /\ bank # <<>>
    BY <1>4 DEF Next1, Getc, ReceiveByte, Readable
  <2>2. /\ Len(bank) >= 1 /\ Len(bank') = Len(bank) - 1 /\ Head(bank) = bank[1]
        /\ \A i \in 1..Len(bank') : bank'[i] = bank[i + 1]
    BY <1>1, <2>1, EmptySeq, HeadTailProperties
  <2>3. Taken(T)' = Taken(T) + 1 /\ Here(T) = Taken(T) /\ Taken(T) + 1 <= Len(T)
    <3>1. Taken(T)' = Len(T) - Len(rest) - Len(bank')
      BY DEF Taken
    <3>2. Here(T) = Taken(T)
      BY <1>4 DEF Here
    <3> HIDE DEF Taken, Here
    <3> QED BY <1>1, <2>2, <3>1, <3>2
  <2>4. Next1 = T[Taken(T) + 1] /\ Next1 # Nothing /\ Next1 # EOF
    <3>1. bank[1] = T[Taken(T) + 1]
      BY <1>1, <2>2 DEF Stream
    <3>2. Taken(T) + 1 \in 1..Len(T)
      BY <1>1, <2>3
    <3> QED BY <1>2, <2>1, <2>2, <3>1, <3>2
  <2>5. ungot' = Nothing \/ ungot' = Next1 => Stream(T)'
    <3>1. \A i \in 1..Len(bank') : bank'[i] = T[Taken(T)' + i]
      <4> SUFFICES ASSUME NEW i \in 1..Len(bank') PROVE bank'[i] = T[Taken(T)' + i]
        OBVIOUS
      <4>1. i + 1 \in 1..Len(bank) /\ Taken(T)' + i = Taken(T) + (i + 1)
        BY <1>1, <2>2, <2>3
      <4>2. bank[i + 1] = T[Taken(T) + (i + 1)]
        BY <4>1 DEF Stream
      <4> QED BY <2>2, <4>1, <4>2
    <3>2. \A i \in 1..Len(rest') : rest'[i] = T[(Taken(T)' + Len(bank')) + i]
      <4>1. Taken(T)' + Len(bank') = Taken(T) + Len(bank)
        BY <1>1, <2>2, <2>3
      <4> QED BY <4>1 DEF Stream
    <3> HIDE DEF Taken
    <3> QED BY <1>1, <2>3, <2>4, <3>1, <3>2 DEF Stream
  <2>6. ungot' = Nothing => Here(T)' = Taken(T) + 1
    BY <2>3 DEF Here
  <2>7. ungot' = Next1 => Here(T)' = Taken(T)
    <3>1. ungot' = Next1 => Here(T)' = Taken(T)' - 1
      BY <2>4 DEF Here
    <3> HIDE DEF Taken, Here
    <3> QED BY <1>1, <2>3, <3>1
  <2>8. Taken(T) < Len(T)
    BY <1>1, <2>3
  <2> QED BY <2>3, <2>4, <2>5, <2>6, <2>7, <2>8
<1>5. CASE ungot = Nothing /\ ~Readable
  <2>1. Next1 = EOF /\ bank' = bank /\ ~Split
    BY <1>5 DEF Next1, Getc, ReceiveByte
  <2>2. bank = <<>> /\ (rest = <<>> \/ rest = msg)
    BY <2>1 DEF Split
  <2>3. Taken(T)' = Taken(T)
    BY <2>1 DEF Taken
  <2>4. ungot' = Nothing => Stream(T)' /\ Here(T)' = Here(T)
    <3> HIDE DEF Taken
    <3> QED BY <1>5, <2>1, <2>3 DEF Stream, Here
  <2> QED BY <1>5, <2>1, <2>2, <2>4
<1> QED BY <1>3, <1>4, <1>5

-----------------------------------------------------------------------------
(* The interpreter stays in step *)

(* The message that it is in. *)
LEMMA BusyFacts ==
  ASSUME IInv, NEW ms, NEW T, NEW start, NEW e, NEW k,
         Ran, Session(ms, T, start), Stream(T), Busy(ms, T, start, e, k)
  PROVE  /\ Len(sent) \in Nat /\ e \in 1..Len(sent) /\ e + 1 \in 1..Len(sent) + 1
         /\ ms[e] \in Messages /\ Spells(ms[e]) /\ Len(ms[e].text) \in Nat
         /\ k \in 1..Len(ms[e].text) /\ k \in Nat
         /\ start[e] \in Nat /\ start[e + 1] \in Nat
         /\ start[e + 1] = start[e] + Len(ms[e].text)
         /\ sent[e] = [cmd |-> ms[e].cmd, args |-> ms[e].args]
<1>1. Len(sent) \in Nat /\ e \in 1..Len(sent) + 1 /\ e <= Len(sent)
  BY SessionFacts DEF Busy
<1>2. e \in 1..Len(sent) /\ e + 1 \in 1..Len(sent) + 1
  BY <1>1
<1>3. ms[e] \in Messages /\ start[e] \in Nat /\ start[e + 1] \in Nat
  BY <1>1, <1>2, SessionFacts
<1>4. /\ Spells(ms[e]) /\ start[e + 1] = start[e] + Len(ms[e].text)
      /\ sent[e] = [cmd |-> ms[e].cmd, args |-> ms[e].args]
  BY <1>2 DEF Session
<1>5. Len(ms[e].text) \in Nat
  BY <1>3, TextIs
<1>6. k \in 1..Len(ms[e].text) /\ k \in Nat
  BY <1>5 DEF Busy
<1> QED BY <1>1, <1>2, <1>3, <1>4, <1>5, <1>6

(* What it sees there. *)
LEMMA BusySees ==
  ASSUME IInv, NEW ms, NEW T, NEW start, NEW e, NEW k,
         Ran, Session(ms, T, start), Stream(T), Busy(ms, T, start, e, k),
         Getc, UNCHANGED <<rest, msg>>, ~starved'
  PROVE  Sees(ms[e], k)
<1>0. /\ Len(sent) \in Nat /\ e \in 1..Len(sent) /\ e + 1 \in 1..Len(sent) + 1
      /\ Len(ms[e].text) \in Nat /\ k \in 1..Len(ms[e].text)
      /\ start[e] \in Nat /\ start[e + 1] \in Nat
      /\ start[e + 1] = start[e] + Len(ms[e].text)
  <2>1. /\ Len(sent) \in Nat /\ e \in 1..Len(sent) /\ e + 1 \in 1..Len(sent) + 1
        /\ Len(ms[e].text) \in Nat /\ k \in 1..Len(ms[e].text)
        /\ start[e] \in Nat /\ start[e + 1] \in Nat
    BY BusyFacts
  <2>2. start[e + 1] = start[e] + Len(ms[e].text)
    BY <2>1 DEF Session
  <2> QED BY <2>1, <2>2
<1> DEFINE m == ms[e]
           n == Len(m.text)
<1>1. /\ Len(sent) \in Nat /\ e \in 1..Len(sent) /\ e + 1 \in 1..Len(sent) + 1
      /\ start[e] \in Nat /\ start[e + 1] \in Nat /\ start[e + 1] = start[e] + n
      /\ n \in Nat /\ k \in Nat /\ 1 <= k /\ k <= n
  <2>1. n \in Nat /\ k \in 1..n
    BY <1>0
  <2> HIDE DEF n
  <2>2. k \in Nat /\ 1 <= k /\ k <= n
    BY <2>1
  <2>3. /\ Len(sent) \in Nat /\ e \in 1..Len(sent) /\ e + 1 \in 1..Len(sent) + 1
        /\ start[e] \in Nat /\ start[e + 1] \in Nat /\ start[e + 1] = start[e] + n
    BY <1>0 DEF n
  <2> QED BY <2>1, <2>2, <2>3
<1>2. \A q \in 1..n : T[start[e] + q] = m.text[q]
  BY <1>1 DEF Session
<1>3. T \in Seq(Characters) /\ Len(T) \in Nat /\ Len(rest) \in Nat /\ Here(T) = start[e] + k
  BY SessionFacts DEF Session, Busy
<1> HIDE DEF m, n
<1>5. CASE Next1 # EOF
  <2>1. Here(T) < Len(T) /\ Next1 = T[Here(T) + 1]
    BY <1>3, <1>5, GetcReads
  <2>2. CASE k < n
    <3>1. k + 1 \in 1..n /\ (start[e] + k) + 1 = start[e] + (k + 1)
      BY <1>1, <2>2
    <3>2. Next1 = m.text[k + 1]
      BY <1>2, <1>3, <2>1, <3>1
    <3> QED BY <2>2, <3>2 DEF Sees, m, n
  <2>3. CASE k = n
    <3>1. Here(T) = start[e + 1]
      BY <1>1, <1>3, <2>3
    <3>2. Next1 = "I"
      BY <1>1, <2>1, <3>1, FirstOfNext
    <3>3. ~(k < n)
      BY <1>1, <2>3
    <3> QED BY <3>2, <3>3 DEF Sees, m, n
  <2> QED BY <1>1, <2>2, <2>3
<1>6. CASE Next1 = EOF
  <2>1. ungot = Nothing /\ bank = <<>> /\ (rest = <<>> \/ rest = msg)
    BY <1>3, <1>6, GetcReads
  <2>2. Here(T) = Len(T) - Len(rest)
    <3>1. Here(T) = Len(T) - Len(rest) - Len(bank) /\ Len(bank) = 0
      BY <2>1 DEF Here, Taken
    <3> HIDE DEF Here
    <3> QED BY <1>3, <3>1
  <2>3. \E j \in 1..Len(sent) + 1 : Here(T) = start[j]
    <3>1. CASE rest = <<>>
      <4>1. Here(T) = start[Len(sent) + 1]
        <5>1. Len(rest) = 0 /\ start[Len(sent) + 1] = Len(T)
          BY <3>1 DEF Session
        <5> QED BY <1>3, <2>2, <5>1
      <4>2. Len(sent) + 1 \in 1..Len(sent) + 1
        BY <1>1
      <4> QED BY <4>1, <4>2
    <3>2. CASE rest = msg
      <4>1. Len(sent) \in 1..Len(sent) /\ sent # <<>> /\ Len(sent) \in 1..Len(sent) + 1
        BY <1>1
      <4>2. /\ msg = ms[Len(sent)].text /\ start[Len(sent) + 1] = Len(T)
            /\ start[Len(sent) + 1] = start[Len(sent)] + Len(ms[Len(sent)].text)
        BY <4>1 DEF Session
      <4>3. start[Len(sent)] \in Nat
        BY <4>1, SessionFacts
      <4>4. Here(T) = start[Len(sent)]
        BY <1>3, <2>2, <3>2, <4>2, <4>3
      <4> QED BY <4>1, <4>4
    <3> QED BY <2>1, <3>1, <3>2
  <2>4. PICK j \in 1..Len(sent) + 1 : Here(T) = start[j]
    BY <2>3
  <2>5. start[j] = start[e] + k /\ j \in Int /\ e \in Int
    BY <1>1, <1>3, <2>4
  <2>6. e < j
    <3> SUFFICES ASSUME j <= e PROVE FALSE
      BY <2>5
    <3>1. j = e \/ start[j] < start[e]
      <4>1. j # e => j < e /\ e \in 1..Len(sent) + 1
        BY <1>1, <2>5
      <4> QED BY <4>1 DEF Session
    <3> QED BY <1>1, <2>5, <3>1
  <2>7. j <= e + 1
    <3> SUFFICES ASSUME e + 1 < j PROVE FALSE
      BY <2>5
    <3>1. start[e + 1] < start[j]
      BY <1>1 DEF Session
    <3> QED BY <1>1, <2>5, <3>1
  <2>8. j = e + 1
    BY <2>5, <2>6, <2>7
  <2>9. ~(k < n)
    BY <1>1, <2>5, <2>8
  <2> QED BY <1>6, <2>9 DEF Sees, m, n
<1> QED BY <1>5, <1>6

(* The session itself is the host's. *)
LEMMA SessionSame ==
  ASSUME NEW ms, NEW T, NEW start, Session(ms, T, start), UNCHANGED <<sent, msg>>
  PROVE  Session(ms, T, start)'
BY DEF Session

LEMMA ScanSync ==
  ASSUME IInv, NEW ms, NEW T, NEW start, NEW e, NEW k, Synced(ms, T, start, e, k),
         Scan, ~starved'
  PROVE  InSync'
<1>1. /\ Ran /\ Session(ms, T, start) /\ Stream(T) /\ T \in Seq(Characters)
      /\ Getc /\ UNCHANGED <<rest, msg, sent, executed, call>>
  BY DEF Synced, Session, Scan, host
<1>2. Ran' /\ Session(ms, T, start)' /\ Turn' = Turn
  BY <1>1, SessionSame DEF Ran, Turn
<1>3. CASE Idle(T, start, e)
  <2>1. e = Turn /\ Here(T) = start[e] /\ call = "main" /\ conv = <<>> /\ at = 1
    <3>1. call = "main"
      BY <1>3 DEF Idle, Scan
    <3>2. at <= 5
      BY <3>1, MainFormat DEF Scan
    <3> QED BY <1>3, <3>1, <3>2 DEF Idle
  <2>2. Literal("I", Next1) /\ Len(Format) = 5
    BY <2>1, MainFormat, ScanReads
  <2>3. CASE Next1 = EOF
    <3>1. Return /\ ungot' = Nothing
      BY <2>2, <2>3 DEF Literal
    <3>2. at' = 6 /\ conv' = <<>>
      BY <2>1, <2>2, <3>1 DEF Return, Proceed
    <3>3. Stream(T)' /\ Here(T)' = Here(T)
      BY <1>1, <2>3, <3>1, GetcReads
    <3>4. Idle(T, start, e)'
      BY <1>1, <1>2, <2>1, <3>2, <3>3 DEF Idle
    <3>5. Synced(ms, T, start, e, k)'
      BY <1>2, <3>3, <3>4 DEF Synced
    <3> QED BY <3>5 DEF InSync
  <2>4. CASE Next1 # EOF
    <3>1. Here(T) < Len(T) /\ Next1 = T[Here(T) + 1]
      BY <1>1, <2>4, GetcReads
    <3>2. Len(sent) \in Nat /\ e \in 1..Len(sent) + 1 /\ e \in 1..Len(sent) /\ Next1 = "I"
      BY <1>1, <2>1, <3>1, SessionFacts, FirstOfNext
    <3>3. at' = 2 /\ conv' = <<>> /\ ungot' = Nothing
      BY <2>1, <2>2, <3>2 DEF Literal, Proceed
    <3>4. Stream(T)' /\ Here(T)' = Here(T) + 1
      BY <1>1, <2>4, <3>3, GetcReads
    <3>5. ms[e] \in Messages /\ Spells(ms[e]) /\ start[e] \in Nat
      BY <1>1, <3>2, SessionFacts DEF Session
    <3>6. Len(ms[e].text) \in Nat /\ Len(ms[e].text) >= 1 /\ ms[e].reading[1] = Reading(1, <<>>, FALSE)
      BY <3>5, BeginsWithI
    <3>7. Greets(ms[e], 1)'
      BY <1>1, <2>1, <3>3, <3>6 DEF Greets
    <3>8. Busy(ms, T, start, e, 1)'
      BY <1>1, <1>2, <2>1, <3>2, <3>4, <3>6, <3>7 DEF Busy, InMessage
    <3>9. Synced(ms, T, start, e, 1)'
      BY <1>2, <3>4, <3>8 DEF Synced
    <3> QED BY <3>9 DEF InSync
  <2> QED BY <2>3, <2>4
<1>4. CASE Busy(ms, T, start, e, k)
  <2> DEFINE m == ms[e]
  <2>1. /\ m \in Messages /\ Spells(m) /\ Len(m.text) \in Nat /\ start[e] \in Nat
        /\ k \in 1..Len(m.text) /\ k \in Nat
    BY <1>1, <1>4, BusyFacts
  <2>2. Sees(m, k) /\ InMessage(m, k) /\ e = Turn /\ e <= Len(sent) /\ Here(T) = start[e] + k
    BY <1>1, <1>4, BusySees DEF Busy
  <2>3. Advances(m, k) \/ Stays(m, k)
    BY <2>1, <2>2, ScanInMessage
  <2>4. CASE Advances(m, k)
    <3>1. ungot' = Nothing /\ Next1 # EOF /\ k < Len(m.text) /\ InMessage(m, k + 1)'
      BY <2>4 DEF Advances
    <3>2. Stream(T)' /\ Here(T)' = Here(T) + 1
      BY <1>1, <3>1, GetcReads
    <3>3. Here(T)' = start[e] + (k + 1) /\ k + 1 \in 1..Len(m.text)
      BY <2>1, <2>2, <3>1, <3>2
    <3>4. Busy(ms, T, start, e, k + 1)'
      BY <1>1, <1>2, <2>2, <3>1, <3>3 DEF Busy
    <3>5. Synced(ms, T, start, e, k + 1)'
      BY <1>2, <3>2, <3>4 DEF Synced
    <3> QED BY <3>5 DEF InSync
  <2>5. CASE Stays(m, k)
    <3>1. ungot' = (IF Next1 = EOF THEN Nothing ELSE Next1) /\ InMessage(m, k)'
      BY <2>5 DEF Stays
    <3>2. Stream(T)' /\ Here(T)' = Here(T)
      BY <1>1, <3>1, GetcReads
    <3>3. Busy(ms, T, start, e, k)'
      BY <1>1, <1>2, <2>1, <2>2, <3>1, <3>2 DEF Busy
    <3>4. Synced(ms, T, start, e, k)'
      BY <1>2, <3>2, <3>3 DEF Synced
    <3> QED BY <3>4 DEF InSync
  <2> QED BY <2>3, <2>4, <2>5
<1> QED BY <1>3, <1>4 DEF Synced

(* The steps that read nothing. *)
LEMMA StreamSame ==
  ASSUME NEW T, Stream(T), UNCHANGED <<rest, bank, ungot>>
  PROVE  Stream(T)' /\ Here(T)' = Here(T)
BY DEF Stream, Here, Taken

LEMMA FinishSync ==
  ASSUME IInv, NEW ms, NEW T, NEW start, NEW e, NEW k, Synced(ms, T, start, e, k),
         Busy(ms, T, start, e, k), Finishes(ms[e], k), UNCHANGED <<endpoint, host>>
  PROVE  InSync'
<1> DEFINE x == [cmd |-> ms[e].cmd, args |-> ms[e].args]
<1>1. Ran /\ Session(ms, T, start) /\ Stream(T) /\ UNCHANGED <<rest, msg, sent, bank, ungot>>
  BY DEF Synced, endpoint, host, Finishes
<1>2. Session(ms, T, start)' /\ Stream(T)' /\ Here(T)' = Here(T)
  BY <1>1, SessionSame, StreamSame
<1>3. executed' = Append(executed, x) /\ call' = "none" /\ k = Len(ms[e].text)
  BY DEF Finishes
<1>4. /\ Len(sent) \in Nat /\ e \in 1..Len(sent) /\ sent[e] = x
      /\ start[e + 1] = start[e] + Len(ms[e].text) /\ ms[e] \in Messages
  BY <1>1, BusyFacts
<1>5. e = Len(executed) + 1 /\ Here(T) = start[e] + k
  BY DEF Busy, Turn
<1>6. x \in Sayings
  BY <1>4 DEF Sayings
<1> HIDE DEF x
<1>7. executed \in Seq(Sayings) /\ Len(executed) \in Nat /\ \A i \in 1..Len(executed) : executed[i] = sent[i]
  BY <1>1 DEF Ran
<1>8. /\ executed' \in Seq(Sayings) /\ Len(executed') = e
      /\ \A i \in 1..Len(executed') : executed'[i] = sent[i]
  <2>1. /\ executed' \in Seq(Sayings) /\ Len(executed') = Len(executed) + 1
        /\ executed'[Len(executed) + 1] = x
        /\ \A i \in 1..Len(executed) : executed'[i] = executed[i]
    BY <1>3, <1>6, <1>7, AppendProperties
  <2>2. \A i \in 1..e : i = e \/ i \in 1..Len(executed)
    BY <1>5, <1>7
  <2> QED BY <1>4, <1>5, <1>7, <2>1, <2>2
<1>9. Ran'
  <2>1. sent' \in Seq(Sayings) /\ e <= Len(sent')
    BY <1>1, <1>4 DEF Ran
  <2> QED BY <1>1, <1>8, <2>1 DEF Ran
<1>10. Idle(T, start, e + 1)'
  BY <1>2, <1>3, <1>4, <1>5, <1>8 DEF Idle, Turn
<1>11. Synced(ms, T, start, e + 1, k)'
  BY <1>2, <1>9, <1>10 DEF Synced
<1> QED BY <1>11 DEF InSync

LEMMA GoSync ==
  ASSUME IInv, NEW ms, NEW T, NEW start, NEW e, NEW k, Synced(ms, T, start, e, k),
         Busy(ms, T, start, e, k), Goes(ms[e], k), UNCHANGED <<endpoint, host>>
  PROVE  InSync'
<1>1. Ran /\ Session(ms, T, start) /\ Stream(T) /\ UNCHANGED <<rest, msg, sent, bank, ungot, executed>>
  BY DEF Synced, endpoint, host, Goes
<1>2. Ran' /\ Session(ms, T, start)' /\ Stream(T)' /\ Here(T)' = Here(T) /\ Turn' = Turn
  BY <1>1, SessionSame, StreamSame DEF Ran, Turn
<1>3. Busy(ms, T, start, e, k)'
  BY <1>1, <1>2 DEF Busy, Goes
<1>4. Synced(ms, T, start, e, k)'
  BY <1>2, <1>3 DEF Synced
<1> QED BY <1>4 DEF InSync

LEMMA IdleSync ==
  ASSUME IInv, NEW ms, NEW T, NEW start, NEW e, NEW k, Synced(ms, T, start, e, k),
         Idle(T, start, e), UNCHANGED <<ungot, executed, bank, rest, msg, sent>>,
         call' = "none" \/ (call' = "main" /\ conv' = <<>> /\ at' \in {1, 6})
  PROVE  InSync'
<1>1. Ran /\ Session(ms, T, start) /\ Stream(T)
  BY DEF Synced
<1>2. Ran' /\ Session(ms, T, start)' /\ Stream(T)' /\ Here(T)' = Here(T) /\ Turn' = Turn
  BY <1>1, SessionSame, StreamSame DEF Ran, Turn
<1>3. Idle(T, start, e)'
  BY <1>2 DEF Idle
<1>4. Synced(ms, T, start, e, k)'
  BY <1>2, <1>3 DEF Synced
<1> QED BY <1>4 DEF InSync

LEMMA ProgramSync ==
  ASSUME IInv, NEW ms, NEW T, NEW start, NEW e, NEW k, Synced(ms, T, start, e, k),
         Listen \/ Dispatch \/ Arguments \/ Count \/ Record
  PROVE  InSync'
<1>1. CASE Idle(T, start, e)
  <2>1. CASE Listen
    BY <1>1, <2>1, IdleSync DEF Listen, Call, endpoint, host, history
  <2>2. CASE Dispatch
    <3>1. conv = <<>> /\ Len(conv) = 0
      BY <1>1, <2>2 DEF Idle, Dispatch, Returned
    <3>2. c' = "nothing"
      BY <2>2, <3>1 DEF Dispatch
    <3>3. Call("none") /\ UNCHANGED executed
      BY <2>2, <3>2 DEF Dispatch, Plain, COMMANDS, Numbers, Triples
    <3> QED BY <1>1, <2>2, <3>3, IdleSync DEF Dispatch, Call, endpoint, host
  <2>3. ~(Arguments \/ Count \/ Record)
    BY <1>1 DEF Idle, Arguments, Count, Record, Returned
  <2> QED BY <2>1, <2>2, <2>3
<1>2. CASE Busy(ms, T, start, e, k)
  <2>1. ms[e] \in Messages /\ Spells(ms[e]) /\ k \in 1..Len(ms[e].text) /\ InMessage(ms[e], k)
    BY <1>2, BusyFacts DEF Synced, Busy
  <2>2. ~Listen
    BY <2>1 DEF Listen, InMessage, Greets, Lettered, Argues, Handles
  <2>3. Finishes(ms[e], k) \/ Goes(ms[e], k)
    BY <2>1, <2>2, DispatchInMessage, ArgumentsInMessage, CountInMessage, RecordInMessage
  <2>4. UNCHANGED <<endpoint, host>>
    BY <2>2 DEF Dispatch, Arguments, Count, Record
  <2> QED BY <1>2, <2>3, <2>4, FinishSync, GoSync
<1> QED BY <1>1, <1>2 DEF Synced

-----------------------------------------------------------------------------
(* The host *)

(* A session begins with nothing sent and nothing read. *)
Fresh ==
  /\ call = "none" /\ ungot = Nothing /\ bank = <<>> /\ msg = <<>> /\ rest = <<>>
  /\ sent = <<>> /\ executed = <<>>

LEMMA NewSession == Fresh => InSync
<1> SUFFICES ASSUME Fresh PROVE InSync
  OBVIOUS
<1> USE DEF Fresh
<1> DEFINE start == <<0>>
<1>1. start \in Seq(Nat) /\ Len(start) = 1 /\ start[1] = 0
  OBVIOUS
<1>2. Len(sent) = 0 /\ Len(executed) = 0 /\ Len(bank) = 0 /\ Len(rest) = 0
  OBVIOUS
<1> HIDE DEF start
<1>3. Ran
  BY <1>2 DEF Ran
<1>4. Session(<<>>, <<>>, start)
  <2>1. <<>> \in Seq(Messages) /\ <<>> \in Seq(Characters) /\ Len(<<>>) = 0
    OBVIOUS
  <2>2. 1..Len(sent) = {} /\ Len(sent) + 1 = 1 /\ \A i, j \in 1..Len(sent) + 1 : ~(i < j)
    BY <1>2
  <2> QED BY <1>1, <1>2, <2>1, <2>2 DEF Session
<1>5. Taken(<<>>) = 0
  <2>1. Taken(<<>>) = Len(<<>>) - Len(rest) - Len(bank) /\ Len(<<>>) = 0
    BY DEF Taken
  <2> HIDE DEF Taken
  <2> QED BY <1>2, <2>1
<1>6. Stream(<<>>) /\ Here(<<>>) = 0
  <2> HIDE DEF Taken
  <2> QED BY <1>2, <1>5 DEF Stream, Here
<1>7. Idle(<<>>, start, 1)
  BY <1>1, <1>2, <1>6 DEF Idle, Turn
<1>8. Synced(<<>>, <<>>, start, 1, 0)
  BY <1>3, <1>4, <1>6, <1>7 DEF Synced
<1> QED BY <1>8 DEF InSync

LEMMA MessageSame ==
  ASSUME NEW m, NEW k, InMessage(m, k), UNCHANGED <<call, at, conv, num, ungot, c, args, todo>>
  PROVE  InMessage(m, k)'
<1>1. Format' = Format /\ Base(m)' = Base(m)
  BY DEF Format, ArgFormat, Base
<1>2. Greets(m, k) => Greets(m, k)'
  BY DEF Greets
<1>3. Lettered(m, k) => Lettered(m, k)'
  BY DEF Lettered, Ended
<1>4. Argues(m, k) => Argues(m, k)'
  BY <1>1 DEF Argues, Handles, Between, Inside, Counted, Ended
<1> QED BY <1>2, <1>3, <1>4 DEF InMessage

LEMMA DeliverSync ==
  ASSUME IInv, NEW ms, NEW T, NEW start, NEW e, NEW k, Synced(ms, T, start, e, k), Deliver
  PROVE  InSync'
<1>1. /\ Ran /\ Session(ms, T, start) /\ Stream(T) /\ (Idle(T, start, e) \/ Busy(ms, T, start, e, k))
      /\ UNCHANGED <<call, at, conv, num, ungot, c, args, todo, msg, sent, executed>>
  BY DEF Synced, Deliver, scan, handler, history
<1>2. bank = <<>> /\ rest \in Seq(Characters) /\ Len(rest) \in Nat /\ Len(bank) = 0 /\ Len(T) \in Nat
  BY DEF Deliver, IInv, Typed, TypeOK, Synced, Session
<1>3. Taken(T) \in Nat /\ Taken(T) = Len(T) - Len(rest)
  <2>1. Taken(T) = Len(T) - Len(rest) - Len(bank)
    BY DEF Taken
  <2>2. Taken(T) \in Nat
    BY <1>1 DEF Stream
  <2> HIDE DEF Taken
  <2> QED BY <1>2, <2>1, <2>2
<1>4. Stream(T)' /\ Taken(T)' = Taken(T)
  <2>1. CASE bank' = <<>> /\ rest' = <<>> /\ rest = <<>>
    <3>1. UNCHANGED <<bank, rest>>
      BY <1>2, <2>1
    <3> QED BY <1>1, <3>1 DEF Stream, Taken
  <2>2. ASSUME NEW n \in 1..CDC_TXRX_EPSIZE, n <= Len(rest),
               bank' = SubSeq(rest, 1, n), rest' = SubSeq(rest, n + 1, Len(rest))
        PROVE  Stream(T)' /\ Taken(T)' = Taken(T)
    <3>0. n \in Nat
      OBVIOUS
    <3>1. Len(bank') = n /\ \A i \in 1..n : bank'[i] = rest[i]
      BY <1>2, <2>2
    <3>2. Len(rest') = Len(rest) - n /\ \A i \in 1..Len(rest) - n : rest'[i] = rest[n + i]
      BY <1>2, <2>2
    <3>3. Taken(T)' = Taken(T)
      <4>1. Taken(T)' = Len(T) - Len(rest') - Len(bank')
        BY DEF Taken
      <4> HIDE DEF Taken
      <4> QED BY <1>2, <1>3, <3>0, <3>1, <3>2, <4>1
    <3>4. \A i \in 1..Len(rest) : rest[i] = T[Taken(T) + i]
      <4>1. Taken(T) + Len(bank) = Taken(T)
        BY <1>2, <1>3
      <4> QED BY <1>1, <4>1 DEF Stream
    <3>5. \A i \in 1..Len(bank') : bank'[i] = T[Taken(T)' + i]
      <4> SUFFICES ASSUME NEW i \in 1..n PROVE bank'[i] = T[Taken(T) + i]
        BY <3>1, <3>3
      <4>1. i \in 1..Len(rest)
        BY <1>2, <2>2, <3>0
      <4> QED BY <3>1, <3>4, <4>1
    <3>6. \A i \in 1..Len(rest') : rest'[i] = T[(Taken(T)' + Len(bank')) + i]
      <4> SUFFICES ASSUME NEW i \in 1..Len(rest) - n PROVE rest'[i] = T[(Taken(T) + n) + i]
        BY <3>1, <3>2, <3>3
      <4>1. n + i \in 1..Len(rest) /\ (Taken(T) + n) + i = Taken(T) + (n + i)
        BY <1>2, <1>3, <2>2, <3>0
      <4>2. rest[n + i] = T[Taken(T) + (n + i)]
        BY <3>4, <4>1
      <4> QED BY <3>2, <4>1, <4>2
    <3>7. ungot' # Nothing => Taken(T)' >= 1 /\ ungot' = T[Taken(T)']
      BY <1>1, <3>3 DEF Stream
    <3>8. Taken(T)' \in Nat
      BY <1>3, <3>3
    <3> QED BY <3>3, <3>5, <3>6, <3>7, <3>8 DEF Stream
  <2> QED BY <2>1, <2>2 DEF Deliver
<1>5. Ran' /\ Session(ms, T, start)' /\ Here(T)' = Here(T) /\ Turn' = Turn
  BY <1>1, <1>4, SessionSame DEF Ran, Turn, Here
<1>6. Idle(T, start, e) => Idle(T, start, e)'
  BY <1>1, <1>5 DEF Idle
<1>7. Busy(ms, T, start, e, k) => Busy(ms, T, start, e, k)'
  <2>1. InMessage(ms[e], k) => InMessage(ms[e], k)'
    BY <1>1, MessageSame
  <2> QED BY <1>1, <1>5, <2>1 DEF Busy
<1>8. Synced(ms, T, start, e, k)'
  BY <1>1, <1>4, <1>5, <1>6, <1>7 DEF Synced
<1> QED BY <1>8 DEF InSync

LEMMA WriteSync ==
  ASSUME IInv, NEW ms, NEW T, NEW start, NEW e, NEW k, Synced(ms, T, start, e, k),
         Write, ~trailing'
  PROVE  InSync'
<1>1. PICK m \in Messages :
        /\ msg' = m.text /\ rest' = m.text
        /\ sent' = Append(sent, [cmd |-> m.cmd, args |-> m.args])
        /\ trailing' = (trailing \/ m.trailing)
  BY DEF Write
<1> DEFINE x == [cmd |-> m.cmd, args |-> m.args]
           n == Len(m.text)
           last == Len(sent)
           ms2 == Append(ms, m)
           T2 == T \o m.text
           start2 == Append(start, Len(T) + n)
<1>2. Spells(m) /\ m.text \in Seq(Characters) /\ n \in Nat /\ n >= 1 /\ x \in Sayings
  <2>1. Spells(m)
    BY <1>1, SpellingAssumption
  <2> QED BY <2>1, BeginsWithI, TextIs DEF Sayings
<1>3. /\ Ran /\ Session(ms, T, start) /\ Stream(T) /\ (Idle(T, start, e) \/ Busy(ms, T, start, e, k))
      /\ UNCHANGED <<call, at, conv, num, ungot, c, args, todo, bank, executed>>
      /\ rest = <<>> /\ sent' = Append(sent, x)
  BY <1>1 DEF Synced, Write, scan, handler, endpoint, history
<1>4. /\ ms \in Seq(Messages) /\ Len(ms) = last /\ T \in Seq(Characters)
      /\ start \in Seq(Nat) /\ Len(start) = last + 1 /\ start[1] = 0 /\ start[last + 1] = Len(T)
      /\ Len(T) \in Nat /\ last \in Nat /\ Len(bank) \in Nat /\ sent \in Seq(Sayings)
      /\ Turn \in 1..last + 1 /\ Len(rest) = 0 /\ Taken(T) \in Nat
      /\ Len(executed) \in Nat /\ Len(executed) <= last
      /\ executed \in Seq(Sayings) /\ \A i \in 1..Len(executed) : executed[i] = sent[i]
  BY <1>3, SessionFacts DEF Session, Ran
<1>5. Len(T) + n \in Nat
  BY <1>2, <1>4
<1> HIDE DEF x, n, last
<1>6. ms2 \in Seq(Messages) /\ Len(ms2) = last + 1 /\ ms2[last + 1] = m /\ \A i \in 1..last : ms2[i] = ms[i]
  BY <1>4, AppendProperties
<1>7. /\ start2 \in Seq(Nat) /\ Len(start2) = last + 2 /\ start2[last + 2] = Len(T) + n
      /\ \A i \in 1..last + 1 : start2[i] = start[i]
  <2>1. /\ start2 \in Seq(Nat) /\ Len(start2) = Len(start) + 1 /\ start2[Len(start) + 1] = Len(T) + n
        /\ \A i \in 1..Len(start) : start2[i] = start[i]
    BY <1>4, <1>5, AppendProperties
  <2>2. Len(start) + 1 = last + 2
    BY <1>4
  <2> QED BY <1>4, <2>1, <2>2
<1>8. /\ T2 \in Seq(Characters) /\ Len(T2) = Len(T) + n
      /\ \A i \in 1..Len(T) : T2[i] = T[i]
      /\ \A q \in 1..n : T2[Len(T) + q] = m.text[q]
  BY <1>2, <1>4, ConcatProperties DEF n
<1>9. /\ sent' \in Seq(Sayings) /\ Len(sent') = last + 1 /\ sent'[last + 1] = x
      /\ \A i \in 1..last : sent'[i] = sent[i]
  BY <1>2, <1>3, <1>4, AppendProperties DEF last
<1> HIDE DEF ms2, start2, T2
<1>10. Ran'
  <2>1. Len(executed') <= Len(sent')
    BY <1>3, <1>4, <1>9
  <2>2. \A i \in 1..Len(executed') : executed'[i] = sent'[i]
    <3>1. \A i \in 1..Len(executed) : i \in 1..last
      BY <1>4
    <3> QED BY <1>3, <1>4, <1>9, <3>1
  <2> QED BY <1>3, <1>4, <1>9, <2>1, <2>2 DEF Ran
<1>11. Session(ms2, T2, start2)'
  <2>1. start2[1] = 0 /\ start2[Len(sent') + 1] = Len(T2) /\ Len(start2) = Len(sent') + 1
    <3>1. 1 \in 1..last + 1 /\ Len(sent') + 1 = last + 2
      BY <1>4, <1>9
    <3> QED BY <1>4, <1>7, <1>8, <3>1
  <2>2. \A i, j \in 1..Len(sent') + 1 : i < j => start2[i] < start2[j]
    <3> SUFFICES ASSUME NEW i \in 1..last + 2, NEW j \in 1..last + 2, i < j
                 PROVE  start2[i] < start2[j]
      <4>1. Len(sent') + 1 = last + 2
        BY <1>4, <1>9
      <4> QED BY <4>1
    <3>1. i \in 1..last + 1 /\ start2[i] = start[i]
      BY <1>4, <1>7
    <3>2. CASE j \in 1..last + 1
      <4>1. start[i] < start[j]
        BY <1>3, <3>1, <3>2 DEF Session, last
      <4> QED BY <1>7, <3>1, <3>2, <4>1
    <3>3. CASE j = last + 2
      <4>1. start[i] \in Nat /\ start[i] <= Len(T)
        BY <1>3, <3>1, SessionFacts DEF last
      <4> QED BY <1>2, <1>4, <1>7, <3>1, <3>3, <4>1
    <3> QED BY <1>4, <3>2, <3>3
  <2>3. ASSUME NEW i \in 1..Len(sent')
        PROVE  /\ Spells(ms2[i]) /\ sent'[i] = [cmd |-> ms2[i].cmd, args |-> ms2[i].args]
               /\ start2[i + 1] = start2[i] + Len(ms2[i].text)
               /\ \A q \in 1..Len(ms2[i].text) : T2[start2[i] + q] = ms2[i].text[q]
    <3>1. CASE i \in 1..last
      <4>1. /\ Spells(ms[i]) /\ sent[i] = [cmd |-> ms[i].cmd, args |-> ms[i].args]
            /\ start[i + 1] = start[i] + Len(ms[i].text)
            /\ \A q \in 1..Len(ms[i].text) : T[start[i] + q] = ms[i].text[q]
        BY <1>3, <3>1 DEF Session, last
      <4>2. i \in 1..last + 1 /\ i + 1 \in 1..last + 1
        <5>1. last \in Nat
          BY <1>4
        <5> QED BY <3>1, <5>1
      <4>3. ms2[i] = ms[i] /\ sent'[i] = sent[i] /\ start2[i] = start[i] /\ start2[i + 1] = start[i + 1]
        BY <1>6, <1>7, <1>9, <3>1, <4>2
      <4>4. start[i] \in Nat /\ start[i + 1] <= Len(T) /\ start[i + 1] \in Nat
        BY <1>3, <4>2, SessionFacts DEF last
      <4>5. Len(ms[i].text) \in Nat
        BY <1>3, <3>1, SessionFacts, TextIs DEF last
      <4>6. ASSUME NEW q \in 1..Len(ms[i].text) PROVE T2[start[i] + q] = ms[i].text[q]
        <5>1. start[i] + q \in 1..Len(T)
          <6>1. start[i + 1] = start[i] + Len(ms[i].text) /\ Len(T) \in Nat
            BY <1>4, <4>1
          <6> QED BY <4>4, <4>5, <6>1
        <5> QED BY <1>8, <4>1, <5>1
      <4> QED BY <4>1, <4>3, <4>6
    <3>2. CASE i = last + 1
      <4>1. ms2[i] = m /\ sent'[i] = x /\ start2[i] = Len(T) /\ start2[i + 1] = Len(T) + n
        <5>1. i + 1 = last + 2 /\ i \in 1..last + 1
          BY <1>4, <3>2
        <5> QED BY <1>4, <1>6, <1>7, <1>9, <3>2, <5>1
      <4> QED BY <1>2, <1>8, <4>1 DEF x, n
    <3> QED BY <1>4, <1>9, <3>1, <3>2
  <2>4. sent' # <<>> /\ msg' = ms2[Len(sent')].text
    <3>1. Len(sent') = last + 1 /\ last + 1 # 0
      BY <1>4, <1>9
    <3> QED BY <1>1, <1>6, <3>1
  <2> QED BY <1>6, <1>7, <1>8, <1>9, <2>1, <2>2, <2>3, <2>4 DEF Session
<1>12. Taken(T2)' = Taken(T)
  <2>1. Taken(T2)' = Len(T2) - n - Len(bank)
    BY <1>1, <1>3 DEF Taken, n
  <2>2. Taken(T) = Len(T) - 0 - Len(bank)
    BY <1>4 DEF Taken
  <2> QED BY <1>2, <1>4, <1>8, <2>1, <2>2
<1>13. Taken(T) = Len(T) - Len(bank)
  BY <1>4 DEF Taken
<1>14. Stream(T2)'
  <2>1. \A i \in 1..Len(bank') : bank'[i] = T2[Taken(T2)' + i]
    <3> SUFFICES ASSUME NEW i \in 1..Len(bank) PROVE bank[i] = T2[Taken(T) + i]
      BY <1>3, <1>12
    <3>1. bank[i] = T[Taken(T) + i]
      BY <1>3 DEF Stream
    <3>2. Taken(T) + i \in 1..Len(T)
      BY <1>4, <1>13
    <3> QED BY <1>8, <3>1, <3>2
  <2>2. \A i \in 1..Len(rest') : rest'[i] = T2[(Taken(T2)' + Len(bank')) + i]
    <3>1. Taken(T2)' + Len(bank') = Len(T) /\ Len(rest') = n
      BY <1>1, <1>3, <1>4, <1>12, <1>13 DEF n
    <3> QED BY <1>1, <1>8, <3>1
  <2>3. ungot' # Nothing => Taken(T2)' >= 1 /\ ungot' = T2[Taken(T2)']
    <3> SUFFICES ASSUME ungot # Nothing PROVE Taken(T) >= 1 /\ ungot = T2[Taken(T)]
      BY <1>3, <1>12
    <3>1. Taken(T) >= 1 /\ ungot = T[Taken(T)]
      BY <1>3 DEF Stream
    <3>2. Taken(T) \in 1..Len(T)
      BY <1>4, <1>13, <3>1
    <3> QED BY <1>8, <3>1, <3>2
  <2>4. Taken(T2)' \in Nat
    BY <1>4, <1>12
  <2> QED BY <2>1, <2>2, <2>3, <2>4 DEF Stream
<1>15. Here(T2)' = Here(T) /\ Turn' = Turn
  BY <1>3, <1>12 DEF Here, Turn
<1>16. CASE Idle(T, start, e)
  <2>1. start2[e] = start[e]
    BY <1>4, <1>7, <1>16 DEF Idle
  <2>2. Idle(T2, start2, e)'
    BY <1>3, <1>15, <1>16, <2>1 DEF Idle
  <2>3. Synced(ms2, T2, start2, e, k)'
    BY <1>10, <1>11, <1>14, <2>2 DEF Synced
  <2> QED BY <2>3 DEF InSync
<1>17. CASE Busy(ms, T, start, e, k)
  <2>1. e \in 1..last /\ e \in 1..last + 1
    <3>1. e \in 1..last
      BY <1>3, <1>17, BusyFacts DEF last
    <3> QED BY <1>4, <3>1
  <2>2. start2[e] = start[e] /\ ms2[e] = ms[e]
    BY <1>6, <1>7, <2>1
  <2>3. InMessage(ms[e], k)'
    BY <1>3, <1>17, MessageSame DEF Busy
  <2>4. Busy(ms2, T2, start2, e, k)'
    <3>1. InMessage(ms2[e], k)'
      BY <2>2, <2>3
    <3>2. e <= Len(sent')
      BY <1>4, <1>9, <2>1
    <3> QED BY <1>15, <1>17, <2>2, <3>1, <3>2 DEF Busy
  <2>5. Synced(ms2, T2, start2, e, k)'
    BY <1>10, <1>11, <1>14, <2>4 DEF Synced
  <2> QED BY <2>5 DEF InSync
<1> QED BY <1>3, <1>16, <1>17

-----------------------------------------------------------------------------
LEMMA InitSync == Init => SyncInv
BY NewSession DEF Init, SyncInv, Fresh

LEMMA NextSync == ASSUME IInv, SyncInv, [Next]_vars PROVE SyncInv'
<1> SUFFICES ASSUME ~Excused' PROVE InSync'
  BY DEF SyncInv
<1>1. ~starved' /\ ~trailing'
  BY DEF Excused
<1>2. CASE Plug
  <2>1. Fresh'
    BY <1>1, <1>2 DEF Plug, scan, Fresh
  <2> QED BY <2>1, NewSession, PTL
<1>3. CASE ~Plug
  <2>1. ~starved /\ ~trailing
    <3>1. CASE UNCHANGED vars
      BY <1>1, <3>1 DEF vars, host, history
    <3>2. CASE Scan
      BY <1>1, <3>2, Zenon DEF Scan, Getc, host
    <3>3. CASE Listen \/ Dispatch \/ Arguments \/ Count \/ Record
      <4>1. UNCHANGED <<starved, trailing>>
        BY <3>3 DEF Listen, Dispatch, Arguments, Count, Record, host, history
      <4> QED BY <1>1, <4>1
    <3>4. CASE Unplug \/ Deliver
      <4>1. UNCHANGED <<starved, trailing>>
        BY <3>4 DEF Unplug, Deliver, history
      <4> QED BY <1>1, <4>1
    <3>5. CASE Write
      <4>1. UNCHANGED starved
        BY <3>5 DEF Write, history
      <4>2. PICK m \in Messages : trailing' = (trailing \/ m.trailing)
        BY <3>5 DEF Write
      <4> QED BY <1>1, <4>1, <4>2, Zenon
    <3> QED BY <1>3, <3>1, <3>2, <3>3, <3>4, <3>5 DEF Next, Program
  <2>2. PICK ms, T, start, e, k : Synced(ms, T, start, e, k)
    BY <2>1 DEF SyncInv, Excused, InSync
  <2>3. CASE UNCHANGED vars \/ Unplug
    <3>1. UNCHANGED <<call, at, conv, num, ungot, c, args, todo, bank, rest, msg, sent, executed>>
      BY <2>3 DEF vars, scan, handler, endpoint, host, history, Unplug
    <3>2. /\ Ran' /\ Session(ms, T, start)' /\ Stream(T)' /\ Here(T)' = Here(T) /\ Turn' = Turn
      BY <2>2, <3>1, SessionSame, StreamSame DEF Synced, Ran, Turn
    <3>3. Idle(T, start, e) => Idle(T, start, e)'
      BY <3>1, <3>2 DEF Idle
    <3>4. Busy(ms, T, start, e, k) => Busy(ms, T, start, e, k)'
      BY <3>1, <3>2, MessageSame DEF Busy
    <3>5. Synced(ms, T, start, e, k)'
      BY <2>2, <3>2, <3>3, <3>4 DEF Synced
    <3> QED BY <3>5 DEF InSync
  <2>4. CASE Scan
    BY <1>1, <2>2, <2>4, ScanSync
  <2>5. CASE Listen \/ Dispatch \/ Arguments \/ Count \/ Record
    BY <2>2, <2>5, ProgramSync
  <2>6. CASE Write
    BY <1>1, <2>2, <2>6, WriteSync
  <2>7. CASE Deliver
    BY <2>2, <2>7, DeliverSync
  <2> QED BY <1>3, <2>3, <2>4, <2>5, <2>6, <2>7 DEF Next, Program
<1> QED BY <1>2, <1>3

(* While it is not starved, the interpreter knows where in the session it  *)
(* is: before the message of the next command, with nothing read of it, or *)
(* inside of it, with the numbers that its characters so far spell.        *)
THEOREM SyncInvariance == Spec => []SyncInv
BY InitSync, NextSync, Invariance, PTL DEF Spec

(* However a host that keeps to the formats queues its messages and cuts   *)
(* them into packets, and whatever numbers they carry that fit the         *)
(* variables they are read into, with at most 255 records in a message: as *)
(* long as no fscanf runs out of data inside a message, the interpreter    *)
(* runs the commands that were sent, in order, with their numbers.         *)
THEOREM InStepKept == Spec => []InStep
<1>1. SyncInv => InStep
  <2> SUFFICES ASSUME Ran
               PROVE  Len(executed) <= Len(sent) /\ executed = SubSeq(sent, 1, Len(executed))
    BY DEF SyncInv, InSync, Synced, InStep
  <2> DEFINE n == Len(executed)
             first == SubSeq(sent, 1, n)
  <2>1. /\ sent \in Seq(Sayings) /\ executed \in Seq(Sayings) /\ n \in Nat /\ Len(sent) \in Nat
        /\ n <= Len(sent) /\ \A i \in 1..n : executed[i] = sent[i]
    BY DEF Ran
  <2>2. first \in Seq(Sayings) /\ Len(first) = n /\ \A i \in 1..n : first[i] = sent[i]
    <3> HIDE DEF n
    <3> QED BY <2>1
  <2> HIDE DEF first
  <2>3. executed = first
    BY <2>1, <2>2, SeqEqual
  <2> QED BY <2>1, <2>3 DEF first
<1> QED BY <1>1, SyncInvariance, PTL

(* And it is not wedged: it takes a late packet inside a message, or a     *)
(* character after the last number of one, to leave in the push-back a     *)
(* character that no command begins with.                                  *)
THEOREM WedgeExcused == Spec => []WedgeNeedsASplit
<1>1. IInv /\ SyncInv => WedgeNeedsASplit
  <2> SUFFICES ASSUME IInv, SyncInv, ~Excused, Wedged PROVE FALSE
    BY DEF WedgeNeedsASplit
  <2>1. PICK ms, T, start, e, k : Synced(ms, T, start, e, k)
    BY DEF SyncInv, InSync
  <2>2. Ran /\ Session(ms, T, start) /\ Stream(T)
    BY <2>1 DEF Synced
  <2>3. CASE Busy(ms, T, start, e, k)
    <3>1. InMessage(ms[e], k)
      BY <2>3 DEF Busy
    <3>2. ~Greets(ms[e], k)
      BY DEF Greets, Wedged
    <3>3. ~Lettered(ms[e], k) /\ ~Argues(ms[e], k)
      <4>1. call \in {"none", "main"} /\ (call = "main" => Len(conv) = 0)
        BY DEF Wedged
      <4>2. Lettered(ms[e], k) => call = "main" /\ Len(conv) = 1
        BY DEF Lettered
      <4> QED BY <4>1, <4>2 DEF Argues, Handles
    <3> QED BY <3>1, <3>2, <3>3 DEF InMessage
  <2>4. CASE Idle(T, start, e)
    <3>1. ungot # Nothing /\ ungot # "I" /\ Taken(T) >= 1 /\ ungot = T[Taken(T)] /\ Taken(T) \in Nat
      BY <2>2 DEF Wedged, Stream
    <3>2. Here(T) = Taken(T) - 1 /\ e \in 1..Len(sent) + 1 /\ Here(T) = start[e]
      BY <2>2, <2>4, <3>1, SessionFacts DEF Here, Idle
    <3>3. Here(T) < Len(T) /\ Here(T) + 1 = Taken(T)
      <4>1. Taken(T) = Len(T) - Len(rest) - Len(bank)
        BY DEF Taken
      <4>2. Len(T) \in Nat /\ Len(rest) \in Nat /\ Len(bank) \in Nat
        BY <2>2, SessionFacts
      <4> HIDE DEF Taken, Here
      <4> QED BY <3>1, <3>2, <4>1, <4>2
    <3>4. T[start[e] + 1] = "I"
      BY <2>2, <3>2, <3>3, FirstOfNext
    <3> QED BY <3>1, <3>2, <3>3, <3>4
  <2> QED BY <2>1, <2>3, <2>4 DEF Synced
<1> QED BY <1>1, Invariance, SyncInvariance, PTL
=============================================================================
