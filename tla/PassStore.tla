------------------------------ MODULE PassStore ------------------------------
(***************************************************************************)
(* What the EEPROM holds for the passes: the table and the colour, the     *)
(* commands set_passes, set_color and dump_mem of commands.c, and power    *)
(* loss at any moment.                                                     *)
(*                                                                         *)
(* The host announces a number of passes and sends them.  The stream does  *)
(* not block, so a record that has not arrived yet fails to parse: its     *)
(* place in the local block keeps what the stack held, and the record may  *)
(* be read into the place of the next.  The EEPROM is written a few bytes  *)
(* at a time: a record is torn until its last byte.                        *)
(***************************************************************************)
EXTENDS Integers, Sequences

CONSTANTS
  Pass,     \* the passes a host may send
  MAXPASS,  \* size of StoredISSPasses and of the local block
  Nums,     \* the numbers of passes a host may announce
  Colors    \* the colours a host may set, as numbers of an int

Int16  == {n \in Int : -(2^15) <= n /\ n < 2^15}   \* an int
Uint16 == 0..(2^16 - 1)

ASSUME MaxAssumption  == MAXPASS \in 1..254
ASSUME NumsAssumption == Nums \subseteq 0..255
ASSUME ColorsAssumption == Colors \subseteq Int16
ASSUME PassAssumption == \A x \in {"erased", "junk", "torn"} : x \notin Pass

Record == Pass \cup {"erased", "junk", "torn"}
Slots  == 0..MAXPASS-1

VARIABLES
  pc,       \* "idle"; "scan", "write", "torn" (inside a record), "count" in
            \* set_passes; "low" and "high" in set_color
  num, i, block,            \* the locals of set_passes
  color,                    \* the local of set_color
  NumOfStoredISSPasses, StoredISSPasses, NonVolatileColor,
  reply,    \* the answer of the last command, and what a dump showed ("set" is
            \* set_passes' and "color set" is set_color's)
  host,     \* history: the table the host is sending,
  last,     \* the table of the last set_passes that parsed whole and ended,
  intact,   \* whether nothing has touched the EEPROM since then,
  whole,    \* and whether every record of this set_passes parsed;
  lastColor, kept  \* the same of set_color: its last colour, still untouched

locals  == <<num, i, block>>
eeprom  == <<NumOfStoredISSPasses, StoredISSPasses>>
history == <<host, last, intact, whole>>
colour  == <<color, NonVolatileColor, lastColor, kept>>
vars    == <<pc, locals, eeprom, reply, history, colour>>

Stack == [k \in Slots |-> "junk"]  \* the block before anything is stored

Reply(kind) == [kind |-> kind, shown |-> <<>>, color |-> 0]

(* A new device: the EEPROM is erased, every byte 0xFF. *)
Init ==
  /\ pc = "idle" /\ num = 0 /\ i = 0 /\ block = Stack
  /\ NumOfStoredISSPasses = 255
  /\ StoredISSPasses = [k \in Slots |-> "erased"]
  /\ reply = Reply("none")
  /\ host = <<>> /\ last = <<>> /\ intact = FALSE /\ whole = FALSE
  /\ color = 0 /\ NonVolatileColor = 2^16 - 1 /\ lastColor = 0 /\ kept = FALSE

-----------------------------------------------------------------------------
(* set_passes *)

(* The number is parsed, or not. *)
ScanNumber ==
  /\ pc = "idle"
  /\ \/ \E n \in Nums : \E table \in [1..n -> Pass] :
          /\ num' = n /\ host' = table
          /\ i' = 0 /\ block' = Stack /\ whole' = TRUE
          /\ pc' = "scan" /\ reply' = Reply("none")
     \/ /\ reply' = Reply("err")
        /\ UNCHANGED <<pc, locals, host, whole>>
  /\ UNCHANGED <<eeprom, last, intact, colour>>

(* block[i] = p, which for an i outside the block hits the stack. *)
Put(p) == block' = [k \in Slots |-> IF k = i THEN p ELSE block[k]]

(* The next record of the table; or the stream ends before or inside of    *)
(* it.  Then nothing is stored, or what there is of its numbers, and the   *)
(* iterations that follow read the rest of it, or a record that was meant  *)
(* for a place before: some pass.                                          *)
ScanRecord ==
  /\ pc = "scan" /\ i < num
  /\ \/ Put(host[i + 1]) /\ whole' = whole
     \/ /\ block' = block \/ \E p \in Pass : Put(p)
        /\ whole' = FALSE
  /\ i' = (i + 1) % 256
  /\ UNCHANGED <<pc, num, eeprom, reply, host, last, intact, colour>>

(* Mutant: the count is stored before the block. *)
ScanEndCountFirst ==
  /\ pc = "scan" /\ i >= num
  /\ pc' = "write"
  /\ i' = 0
  /\ NumOfStoredISSPasses' = num % 256
  /\ UNCHANGED <<num, block, StoredISSPasses, reply, history, colour>>

ScanEnd ==
  /\ pc = "scan" /\ i >= num
  /\ pc' = "write"
  /\ i' = 0
  /\ UNCHANGED <<num, block, eeprom, reply, history, colour>>

(* eeprom_update_block: only bytes that differ are written. *)
WriteFirst ==
  /\ pc = "write" /\ i < num /\ i \in Slots
  /\ \/ /\ StoredISSPasses[i] # block[i]
        /\ StoredISSPasses' = [StoredISSPasses EXCEPT ![i] = "torn"]
        /\ intact' = FALSE
     \/ /\ StoredISSPasses[i] = block[i]
        /\ UNCHANGED <<StoredISSPasses, intact>>
  /\ pc' = "torn"
  /\ UNCHANGED <<locals, NumOfStoredISSPasses, reply, host, last, whole, colour>>

WriteRest ==
  /\ pc = "torn"
  /\ StoredISSPasses' = [StoredISSPasses EXCEPT ![i] = block[i]]
  /\ i' = i + 1
  /\ pc' = "write"
  /\ UNCHANGED <<num, block, NumOfStoredISSPasses, reply, history, colour>>

WriteEnd ==
  /\ pc = "write" /\ (i >= num \/ i \notin Slots)
  /\ pc' = "count"
  /\ UNCHANGED <<locals, eeprom, reply, history, colour>>

WriteCount ==
  /\ pc = "count"
  /\ NumOfStoredISSPasses' = num % 256
  /\ reply' = Reply("set")
  /\ last' = host /\ intact' = whole
  /\ pc' = "idle"
  /\ UNCHANGED <<locals, StoredISSPasses, host, whole, colour>>

-----------------------------------------------------------------------------
(* set_color.  The word is written in two bytes; which goes first is left  *)
(* to the library.                                                         *)

set_color ==
  /\ pc = "idle"
  /\ \/ color' \in Colors /\ pc' = "low" /\ reply' = Reply("none")
     \/ reply' = Reply("err") /\ UNCHANGED <<pc, color>>
  /\ UNCHANGED <<locals, eeprom, history, NonVolatileColor, lastColor, kept>>

(* Mutant: the colour is cut to a byte. *)
WordByte == color % 256

(* (uint16_t)color *)
Word == color % 2^16

HalfWord ==
  /\ pc = "low"
  /\ NonVolatileColor' \in
       { (Word \div 256) * 256 + (NonVolatileColor % 256),
         (NonVolatileColor \div 256) * 256 + (Word % 256) }
  /\ kept' = (kept /\ NonVolatileColor' = NonVolatileColor)
  /\ pc' = "high"
  /\ UNCHANGED <<locals, eeprom, reply, history, color, lastColor>>

WholeWord ==
  /\ pc = "high"
  /\ NonVolatileColor' = Word
  /\ reply' = Reply("color set")
  /\ lastColor' = color /\ kept' = TRUE
  /\ pc' = "idle"
  /\ UNCHANGED <<locals, eeprom, history, color>>

(* (int) color, of a 16 bit int *)
AsInt(word) == IF word >= 2^15 THEN word - 2^16 ELSE word

-----------------------------------------------------------------------------
(* dump_mem *)

(* What is read past the end of the table. *)
At(k) == IF k \in Slots THEN StoredISSPasses[k] ELSE "outside"

(* Mutants: the stored count is trusted; the last record is left out. *)
Unclamped(n) == n

dump_memShort ==
  /\ pc = "idle"
  /\ LET npass == IF NumOfStoredISSPasses > MAXPASS
                  THEN MAXPASS ELSE NumOfStoredISSPasses
     IN  reply' = [kind |-> "dump", shown |-> [k \in 1..npass-1 |-> At(k - 1)],
                   color |-> AsInt(NonVolatileColor)]
  /\ UNCHANGED <<pc, locals, eeprom, history, colour>>

Clamped(n) == IF n > MAXPASS THEN MAXPASS ELSE n

dump_mem ==
  /\ pc = "idle"
  /\ LET npass == Clamped(NumOfStoredISSPasses)
     IN  reply' = [kind |-> "dump", shown |-> [k \in 1..npass |-> At(k - 1)],
                   color |-> AsInt(NonVolatileColor)]
  /\ UNCHANGED <<pc, locals, eeprom, history, colour>>

(* The EEPROM survives, the locals do not. *)
PowerLoss ==
  /\ pc' = "idle" /\ num' = 0 /\ i' = 0 /\ block' = Stack
  /\ reply' = Reply("none")
  /\ host' = <<>> /\ whole' = FALSE /\ color' = 0
  /\ UNCHANGED <<eeprom, last, intact, NonVolatileColor, lastColor, kept>>

Next == \/ ScanNumber \/ ScanRecord \/ ScanEnd
        \/ WriteFirst \/ WriteRest \/ WriteEnd \/ WriteCount
        \/ set_color \/ HalfWord \/ WholeWord \/ dump_mem \/ PowerLoss

Spec == Init /\ [][Next]_vars

-----------------------------------------------------------------------------
TypeOK ==
  /\ pc \in {"idle", "scan", "write", "torn", "count", "low", "high"}
  /\ num \in 0..255 /\ i \in 0..255
  /\ block \in [Slots -> Record]
  /\ NumOfStoredISSPasses \in 0..255
  /\ StoredISSPasses \in [Slots -> Record]
  /\ reply.kind \in {"none", "set", "color set", "err", "dump"}
  /\ reply.shown \in Seq(Record) /\ reply.color \in Int16
  /\ color \in Int16 /\ NonVolatileColor \in Uint16

(* Power may be lost between any two bytes of set_passes.  Whatever it     *)
(* leaves, the stored count covers only records that have been written:    *)
(* the block goes into the EEPROM before the count.                        *)
CountCoversWritten ==
  NumOfStoredISSPasses # 255 =>
    \A k \in Slots : k < NumOfStoredISSPasses => StoredISSPasses[k] # "erased"

(* A dump shows the passes of the last set_passes that parsed whole and    *)
(* answered "set", across any power losses since, until another writes.    *)
DumpIsLastSet ==
  reply.kind = "dump" /\ intact => reply.shown = last

(* A dump shows the colour of the last set_color that answered "set", sign *)
(* and all, through its conversions to an unsigned word and back, across   *)
(* power losses, until another set_color writes.                           *)
DumpShowsColor ==
  reply.kind = "dump" /\ kept => reply.color = lastColor

(* "Writes the incoming pass data to EEPROM storage": after the answer     *)
(* "set" the EEPROM holds the table that the host sent.  It does not hold  *)
(* when a record arrives too late to be parsed.                            *)
SetMeansStored ==
  reply.kind = "set" =>
    /\ NumOfStoredISSPasses = Len(host)
    /\ \A k \in 1..Len(host) : StoredISSPasses[k - 1] = host[k]

(* "Maximum number of passes EEPROM can hold": no command stores more.  It *)
(* does not hold, for set_passes does not compare num with MAXPASS.        *)
StoresAtMostMax ==
  /\ pc = "scan" /\ i < num => i < MAXPASS
  /\ NumOfStoredISSPasses # 255 => NumOfStoredISSPasses <= MAXPASS
==============================================================================
