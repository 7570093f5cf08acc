--------------------------- MODULE PassStoreProofs ---------------------------
(***************************************************************************)
(* Proofs about PassStore, for every size of the table, every number of    *)
(* passes that fits a byte and every sequence of commands and power losses.*)
(***************************************************************************)
EXTENDS PassStore, SequenceTheorems, TLAPS

(* The types, in the parts that the steps touch. *)
TableTypes ==
  /\ pc \in {"idle", "scan", "write", "torn", "count", "low", "high"}
  /\ num \in 0..255 /\ i \in 0..255
  /\ block \in [Slots -> Record]
  /\ NumOfStoredISSPasses \in 0..255
  /\ StoredISSPasses \in [Slots -> Record]

ReplyTypes ==
  /\ reply.kind \in {"none", "set", "color set", "err", "dump"}
  /\ reply.shown \in Seq(Record) /\ reply.color \in Int16

AsWord(c) == c % 2^16
ColorTypes == color \in Int16 /\ NonVolatileColor \in Uint16

(* The records below a bound have been written. *)
WrittenBelow(n) == \A k \in Slots : k < n => StoredISSPasses[k] # "erased"

(* The slots of a table, below a bound, hold the passes of a sequence. *)
Holds(table, n, passes) == \A k \in Slots : k < n => table[k] = passes[k + 1]

(* How far set_passes has come with the block. *)
Progress ==
  /\ host \in Seq(Pass) /\ last \in Seq(Pass)
  /\ pc \in {"scan", "write", "torn", "count"} => Len(host) = num
  /\ \A k \in Slots : block[k] # "erased"
  /\ pc \in {"write", "torn"} => WrittenBelow(i)
  /\ pc = "torn" => i \in Slots
  /\ pc = "count" => WrittenBelow(num)

(* What of the host's table is in the block and in the EEPROM. *)
Stored ==
  /\ intact \in BOOLEAN /\ whole \in BOOLEAN
  /\ pc = "scan" /\ whole => Holds(block, i, host)
  /\ pc \in {"write", "torn", "count"} /\ whole => Holds(block, num, host)
  /\ pc \in {"write", "torn"} => \A k \in Slots : k < i => StoredISSPasses[k] = block[k]
  /\ pc = "count" => \A k \in Slots : k < num => StoredISSPasses[k] = block[k]
  /\ pc = "torn" /\ intact => StoredISSPasses[i] = block[i]
  /\ intact => NumOfStoredISSPasses = Len(last) /\ Holds(StoredISSPasses, Len(last), last)

(* What a dump showed; while a command writes, the answer is another.      *)
Shown ==
  /\ pc # "idle" => reply.kind # "dump"
  /\ reply.kind = "dump" /\ intact =>
       /\ Len(reply.shown) = Clamped(Len(last))
       /\ \A k \in 1..Len(reply.shown) : reply.shown[k] = last[k]

(* The word of the EEPROM is the last colour, until a byte of it changes.  *)
ColorKept ==
  /\ kept \in BOOLEAN /\ lastColor \in Int16
  /\ kept => NonVolatileColor = AsWord(lastColor)

(* Of a host that announces no more passes than there is room for. *)
Fits == Nums \subseteq 0..MAXPASS => Len(host) <= MAXPASS /\ Len(last) <= MAXPASS

IInv == /\ TableTypes /\ ReplyTypes /\ ColorTypes /\ Progress /\ CountCoversWritten
        /\ Stored /\ Shown /\ Fits /\ ColorKept /\ DumpShowsColor

-----------------------------------------------------------------------------
(* The colour goes through an unsigned word and comes back; *)
LEMMA WordAndBack == \A c \in Int16 : AsWord(c) \in Uint16 /\ AsInt(AsWord(c)) = c
BY SMT DEF AsInt, AsWord, Int16, Uint16

LEMMA AsIntType == \A w \in Uint16 : AsInt(w) \in Int16
BY SMT DEF AsInt, Int16, Uint16

LEMMA TwoBytes == \A p \in 0..255, q \in 0..255 : p * 256 + q \in Uint16
BY SMT DEF Uint16

(* a word with a byte of another is a word. *)
LEMMA HalfOfAnother ==
  ASSUME NEW a \in Uint16, NEW b \in Uint16
  PROVE  (a \div 256) * 256 + (b % 256) \in Uint16
<1>1. a \div 256 \in Int /\ a \div 256 >= 0
  BY SMT DEF Uint16
<1>2. a \div 256 <= 255
  BY SMT DEF Uint16
<1>3. b % 256 \in 0..255
  BY SMT DEF Uint16
<1>4. a \div 256 \in 0..255
  BY <1>1, <1>2, SMT
<1> HIDE DEF Uint16
<1> QED BY <1>3, <1>4, TwoBytes

USE DEF Slots, locals, eeprom, history, colour
USE MaxAssumption

LEMMA StackFacts == Stack \in [Slots -> Record] /\ \A k \in Slots : Stack[k] # "erased"
BY DEF Stack, Record

LEMMA ReplyFacts ==
  ASSUME NEW kind
  PROVE  /\ Reply(kind).kind = kind
         /\ Reply(kind).shown \in Seq(Record) /\ Reply(kind).color \in Int16
BY DEF Reply, Int16

(* The two parts of the invariant whose variables a step leaves alone. *)
LEMMA TableKept ==
  ASSUME IInv, UNCHANGED <<pc, locals, eeprom, history>>
  PROVE  TableTypes' /\ Progress' /\ CountCoversWritten' /\ Stored' /\ Fits'
BY DEF IInv, TableTypes, Progress, WrittenBelow, CountCoversWritten, Stored, Holds, Fits

LEMMA ColorUnchanged == ASSUME IInv, UNCHANGED colour PROVE ColorTypes' /\ ColorKept'
BY DEF IInv, ColorTypes, ColorKept

LEMMA ReplyUnchanged == ASSUME IInv, UNCHANGED reply PROVE ReplyTypes'
BY DEF IInv, ReplyTypes

LEMMA NewReply ==
  ASSUME NEW kind \in {"none", "set", "color set", "err"}, reply' = Reply(kind)
  PROVE  ReplyTypes' /\ reply'.kind = kind
BY ReplyFacts DEF ReplyTypes

LEMMA InitIInv == Init => IInv
<1> SUFFICES ASSUME Init PROVE IInv
  OBVIOUS
<1>1. TableTypes
  BY StackFacts DEF Init, TableTypes, Record
<1>4. ReplyTypes /\ ColorTypes
  <2>1. 0 \in Int16 /\ 2^16 - 1 \in Uint16
    BY SMT DEF Int16, Uint16
  <2>2. ColorTypes
    BY <2>1, SMT DEF Init, ColorTypes
  <2>3. reply = Reply("none")
    BY DEF Init
  <2>4. ReplyTypes
    BY <2>3, ReplyFacts DEF ReplyTypes
  <2> QED BY <2>2, <2>4
<1>2. Progress /\ CountCoversWritten /\ Stored /\ Fits
  BY StackFacts DEF Init, Progress, CountCoversWritten, Stored, Fits
<1>3. Shown /\ ColorKept /\ DumpShowsColor
  <2>1. 0 \in Int16
    BY SMT DEF Int16
  <2>2. reply.kind = "none" /\ pc = "idle" /\ kept = FALSE /\ lastColor = 0
    BY ReplyFacts DEF Init
  <2> QED BY <2>1, <2>2 DEF Shown, ColorKept, DumpShowsColor
<1> QED BY <1>1, <1>2, <1>3, <1>4 DEF IInv

LEMMA ScanNumberStep == ASSUME IInv, ScanNumber PROVE IInv'
<1>0. Shown' /\ DumpShowsColor' /\ ReplyTypes'
  <2>1. ReplyTypes' /\ reply'.kind \in {"none", "err"}
    BY NewReply DEF ScanNumber
  <2> QED BY <2>1 DEF Shown, DumpShowsColor
<1>1. CASE \E n \in Nums : \E table \in [1..n -> Pass] :
             /\ num' = n /\ host' = table
             /\ i' = 0 /\ block' = Stack /\ whole' = TRUE
             /\ pc' = "scan" /\ reply' = Reply("none")
  <2>1. PICK n \in Nums : \E table \in [1..n -> Pass] :
             /\ num' = n /\ host' = table
             /\ i' = 0 /\ block' = Stack /\ whole' = TRUE
             /\ pc' = "scan" /\ reply' = Reply("none")
    BY <1>1
  <2>2. n \in 0..255 /\ host' \in [1..n -> Pass]
    BY <2>1, NumsAssumption
  <2>3. host' \in Seq(Pass) /\ Len(host') = n
    BY <2>2
  <2>4. TableTypes'
    BY <2>1, <2>2, StackFacts DEF IInv, TableTypes, ScanNumber
  <2>5. Progress' /\ CountCoversWritten'
    BY <2>1, <2>3, StackFacts DEF IInv, Progress, CountCoversWritten, ScanNumber
  <2>6. Stored'
    BY <2>1 DEF IInv, Stored, Holds, ScanNumber
  <2>7. Fits'
    BY <2>1, <2>3 DEF IInv, Fits, ScanNumber
  <2> QED BY <1>0, <2>4, <2>5, <2>6, <2>7, ColorUnchanged DEF ScanNumber, IInv
<1>2. CASE reply' = Reply("err") /\ UNCHANGED <<pc, locals, host, whole>>
  BY <1>0, <1>2, TableKept, ColorUnchanged DEF ScanNumber, IInv
<1> QED BY <1>1, <1>2 DEF ScanNumber

LEMMA ScanRecordStep == ASSUME IInv, ScanRecord PROVE IInv'
<1>1. i \in 0..255 /\ i < num /\ num \in 0..255 /\ i' = i + 1 /\ i' \in 0..255
  <2>1. i \in 0..255 /\ num \in 0..255
    BY DEF IInv, TableTypes
  <2>2. i < num /\ i' = (i + 1) % 256
    BY DEF ScanRecord
  <2> QED BY <2>1, <2>2
<1>2. Len(host) = num /\ host[i + 1] \in Pass
  BY <1>1 DEF IInv, Progress, ScanRecord
<1>3. block' \in [Slots -> Record] /\ \A k \in Slots : block'[k] # "erased"
  BY <1>2, PassAssumption DEF IInv, TableTypes, Progress, ScanRecord, Put, Record
<1>4. TableTypes'
  BY <1>1, <1>3 DEF IInv, TableTypes, ScanRecord
<1>5. Progress' /\ CountCoversWritten' /\ Fits'
  BY <1>3 DEF IInv, Progress, CountCoversWritten, Fits, ScanRecord
<1>6. Stored'
  <2>1. whole' => Holds(block', i + 1, host)
    <3> SUFFICES ASSUME whole', NEW k \in Slots, k < i + 1 PROVE block'[k] = host[k + 1]
      BY DEF Holds
    <3>1. whole /\ block' = [j \in Slots |-> IF j = i THEN host[i + 1] ELSE block[j]]
      BY DEF ScanRecord, Put, IInv, Stored
    <3>2. k = i \/ k < i
      BY <1>1
    <3> QED BY <3>1, <3>2 DEF IInv, Stored, Holds, ScanRecord
  <2>2. intact' => NumOfStoredISSPasses' = Len(last') /\ Holds(StoredISSPasses', Len(last'), last')
    BY DEF IInv, Stored, Holds, ScanRecord
  <2>3. whole' \in BOOLEAN /\ intact' \in BOOLEAN
    BY DEF IInv, Stored, ScanRecord
  <2> QED BY <1>1, <2>1, <2>2, <2>3 DEF Stored, ScanRecord
<1>7. Shown' /\ DumpShowsColor'
  BY DEF IInv, Shown, DumpShowsColor, ScanRecord
<1> QED BY <1>4, <1>5, <1>6, <1>7, ColorUnchanged, ReplyUnchanged DEF IInv, ScanRecord

LEMMA ScanEndStep == ASSUME IInv, ScanEnd PROVE IInv'
<1>1. TableTypes' /\ Progress' /\ CountCoversWritten' /\ Fits'
  BY DEF IInv, TableTypes, Progress, WrittenBelow, CountCoversWritten, Fits, ScanEnd
<1>2. Stored'
  BY DEF IInv, TableTypes, Stored, Holds, ScanEnd
<1>3. Shown' /\ DumpShowsColor'
  BY DEF IInv, Shown, DumpShowsColor, ScanEnd
<1> QED BY <1>1, <1>2, <1>3, ColorUnchanged, ReplyUnchanged DEF IInv, ScanEnd

LEMMA WriteFirstStep == ASSUME IInv, WriteFirst PROVE IInv'
<1>0. StoredISSPasses \in [Slots -> Record] /\ i \in Slots
  BY DEF IInv, TableTypes, WriteFirst
<1>1. /\ StoredISSPasses' \in [Slots -> Record]
      /\ \A k \in Slots : k # i => StoredISSPasses'[k] = StoredISSPasses[k]
      /\ \A k \in Slots : StoredISSPasses[k] # "erased" => StoredISSPasses'[k] # "erased"
  BY <1>0 DEF WriteFirst, Record
<1>2. TableTypes' /\ Progress' /\ CountCoversWritten' /\ Fits'
  BY <1>0, <1>1 DEF IInv, TableTypes, Progress, WrittenBelow, CountCoversWritten, Fits, WriteFirst
<1>3. Stored'
  <2>1. whole' => Holds(block', num', host')
    BY DEF IInv, Stored, Holds, WriteFirst
  <2>2. \A k \in Slots : k < i' => StoredISSPasses'[k] = block'[k]
    BY <1>0, <1>1 DEF IInv, Stored, WriteFirst
  <2>3. intact' => intact /\ StoredISSPasses' = StoredISSPasses /\ StoredISSPasses[i] = block[i]
    BY DEF WriteFirst
  <2>4. intact' => /\ StoredISSPasses'[i'] = block'[i'] /\ NumOfStoredISSPasses' = Len(last')
                   /\ Holds(StoredISSPasses', Len(last'), last')
    BY <2>3 DEF IInv, Stored, Holds, WriteFirst
  <2>5. whole' \in BOOLEAN /\ intact' \in BOOLEAN
    BY DEF IInv, Stored, WriteFirst
  <2> QED BY <2>1, <2>2, <2>4, <2>5 DEF Stored, WriteFirst
<1>4. Shown' /\ DumpShowsColor'
  BY DEF IInv, Shown, DumpShowsColor, WriteFirst
<1> QED BY <1>2, <1>3, <1>4, ColorUnchanged, ReplyUnchanged DEF IInv, WriteFirst

LEMMA WriteRestStep == ASSUME IInv, WriteRest PROVE IInv'
<1>0. StoredISSPasses \in [Slots -> Record] /\ block \in [Slots -> Record] /\ i \in Slots
  BY DEF IInv, TableTypes, Progress, WriteRest
<1>1. /\ StoredISSPasses' \in [Slots -> Record]
      /\ StoredISSPasses'[i] = block[i]
      /\ \A k \in Slots : k # i => StoredISSPasses'[k] = StoredISSPasses[k]
  BY <1>0 DEF WriteRest
<1>2. i' = i + 1 /\ i' \in 0..255 /\ \A k \in Slots : k < i + 1 => k = i \/ k < i
  BY <1>0 DEF WriteRest
<1>3. TableTypes'
  BY <1>1, <1>2 DEF IInv, TableTypes, WriteRest
<1>4. \A k \in Slots : k < i' => StoredISSPasses'[k] = block'[k]
  BY <1>1, <1>2 DEF IInv, Stored, WriteRest
<1>5. Progress' /\ CountCoversWritten' /\ Fits'
  <2>1. WrittenBelow(i)'
    BY <1>4 DEF IInv, Progress, WrittenBelow, WriteRest
  <2>2. CountCoversWritten'
    BY <1>0, <1>1 DEF IInv, Progress, CountCoversWritten, WriteRest
  <2> QED BY <2>1, <2>2 DEF IInv, Progress, Fits, WriteRest
<1>6. Stored'
  <2>1. whole' => Holds(block', num', host')
    BY DEF IInv, Stored, Holds, WriteRest
  <2>2. intact => \A k \in Slots : StoredISSPasses'[k] = StoredISSPasses[k]
    BY <1>1 DEF IInv, Stored, WriteRest
  <2>3. intact' => /\ NumOfStoredISSPasses' = Len(last')
                   /\ Holds(StoredISSPasses', Len(last'), last')
    BY <2>2 DEF IInv, Stored, Holds, WriteRest
  <2>4. whole' \in BOOLEAN /\ intact' \in BOOLEAN
    BY DEF IInv, Stored, WriteRest
  <2> QED BY <1>4, <2>1, <2>3, <2>4 DEF Stored, WriteRest
<1>7. Shown' /\ DumpShowsColor'
  BY DEF IInv, Shown, DumpShowsColor, WriteRest
<1> QED BY <1>3, <1>5, <1>6, <1>7, ColorUnchanged, ReplyUnchanged DEF IInv, WriteRest

(* The block is whole: up to num, or up to the end of the table. *)
LEMMA WriteEndStep == ASSUME IInv, WriteEnd PROVE IInv'
<1>1. num \in 0..255 /\ i \in 0..255 /\ \A k \in Slots : k < num => k < i
  BY DEF IInv, TableTypes, WriteEnd
<1>2. TableTypes' /\ Progress' /\ CountCoversWritten' /\ Fits'
  BY <1>1 DEF IInv, TableTypes, Progress, WrittenBelow, CountCoversWritten, Fits, WriteEnd
<1>3. Stored'
  BY <1>1 DEF IInv, Stored, Holds, WriteEnd
<1>4. Shown' /\ DumpShowsColor'
  BY DEF IInv, Shown, DumpShowsColor, WriteEnd
<1> QED BY <1>2, <1>3, <1>4, ColorUnchanged, ReplyUnchanged DEF IInv, WriteEnd

LEMMA WriteCountStep == ASSUME IInv, WriteCount PROVE IInv'
<1>0. num \in 0..255 /\ Len(host) = num
  BY DEF IInv, TableTypes, Progress, WriteCount
<1>1. num \in 0..255 /\ NumOfStoredISSPasses' = num /\ Len(host) = num
  BY <1>0 DEF WriteCount
<1>2. TableTypes'
  BY <1>1 DEF IInv, TableTypes, WriteCount
<1>3. Progress' /\ CountCoversWritten' /\ Fits'
  BY <1>1 DEF IInv, Progress, WrittenBelow, CountCoversWritten, Fits, WriteCount
<1>4. Stored'
  <2>1. intact' => NumOfStoredISSPasses' = Len(last') /\ Holds(StoredISSPasses', Len(last'), last')
    BY <1>1 DEF IInv, Stored, Holds, WriteCount
  <2> QED BY <2>1 DEF IInv, Stored, WriteCount
<1>5. Shown' /\ DumpShowsColor' /\ ReplyTypes'
  <2>1. ReplyTypes' /\ reply'.kind = "set"
    BY NewReply DEF WriteCount
  <2> QED BY <2>1 DEF Shown, DumpShowsColor
<1> QED BY <1>2, <1>3, <1>4, <1>5, ColorUnchanged DEF IInv, WriteCount

-----------------------------------------------------------------------------
LEMMA SetColorStep == ASSUME IInv, set_color PROVE IInv'
<1>1. color' \in Int16
  BY ColorsAssumption DEF IInv, ColorTypes, set_color
<1>2. ColorTypes' /\ ColorKept'
  BY <1>1 DEF IInv, ColorTypes, ColorKept, set_color
<1>3. Shown' /\ DumpShowsColor' /\ ReplyTypes'
  <2>1. ReplyTypes' /\ reply'.kind \in {"none", "err"}
    BY NewReply DEF set_color
  <2> QED BY <2>1 DEF Shown, DumpShowsColor
<1>4. TableTypes' /\ Progress' /\ CountCoversWritten' /\ Stored' /\ Fits'
  BY DEF IInv, TableTypes, Progress, WrittenBelow, CountCoversWritten, Stored, Holds, Fits,
         set_color
<1> QED BY <1>2, <1>3, <1>4 DEF IInv

(* A byte of the word, and the whole of it. *)
LEMMA HalfWordStep == ASSUME IInv, HalfWord PROVE IInv'
<1>1. Word \in Uint16 /\ NonVolatileColor \in Uint16
  BY WordAndBack DEF IInv, ColorTypes, Word, AsWord
<1>2. NonVolatileColor' \in Uint16
  BY <1>1, HalfOfAnother DEF HalfWord
<1>3. ColorTypes'
  BY <1>2 DEF IInv, ColorTypes, HalfWord
<1>4. Shown' /\ DumpShowsColor'
  BY DEF IInv, Shown, DumpShowsColor, HalfWord
<1>5. TableTypes' /\ Progress' /\ CountCoversWritten' /\ Stored' /\ Fits'
  <2>1. pc = "low" /\ pc' = "high" /\ UNCHANGED <<locals, eeprom, history>>
    BY DEF HalfWord
  <2> QED BY <2>1 DEF IInv, TableTypes, Progress, WrittenBelow, CountCoversWritten, Stored,
                      Holds, Fits
<1>6. ColorKept'
  <2>1. /\ kept' = (kept /\ NonVolatileColor' = NonVolatileColor)
        /\ lastColor' = lastColor
    BY DEF HalfWord
  <2> QED BY <2>1 DEF IInv, ColorKept
<1> QED BY <1>3, <1>4, <1>5, <1>6, ReplyUnchanged DEF IInv, HalfWord

LEMMA WholeWordStep == ASSUME IInv, WholeWord PROVE IInv'
<1>1. color \in Int16 /\ Word = AsWord(color) /\ Word \in Uint16
  BY WordAndBack DEF IInv, ColorTypes, Word, AsWord
<1>2. ColorTypes' /\ ColorKept'
  BY <1>1 DEF ColorTypes, ColorKept, WholeWord
<1>3. Shown' /\ DumpShowsColor' /\ ReplyTypes'
  <2>1. ReplyTypes' /\ reply'.kind = "color set"
    BY NewReply DEF WholeWord
  <2> QED BY <2>1 DEF Shown, DumpShowsColor
<1>4. TableTypes' /\ Progress' /\ CountCoversWritten' /\ Stored' /\ Fits'
  <2>1. pc = "high" /\ pc' = "idle" /\ UNCHANGED <<locals, eeprom, history>>
    BY DEF WholeWord
  <2> QED BY <2>1 DEF IInv, TableTypes, Progress, WrittenBelow, CountCoversWritten, Stored,
                      Holds, Fits
<1> QED BY <1>2, <1>3, <1>4 DEF IInv

LEMMA DumpStep == ASSUME IInv, dump_mem PROVE IInv'
<1> DEFINE n == Clamped(NumOfStoredISSPasses)
           shown == [k \in 1..n |-> At(k - 1)]
<1>1. n \in 0..MAXPASS /\ NumOfStoredISSPasses \in 0..255 /\ n <= NumOfStoredISSPasses
  BY DEF IInv, TableTypes, Clamped
<1>2. reply' = [kind |-> "dump", shown |-> shown, color |-> AsInt(NonVolatileColor)]
  BY DEF dump_mem
<1>3. \A k \in 1..n : k - 1 \in Slots /\ At(k - 1) = StoredISSPasses[k - 1]
  BY <1>1 DEF At
<1> HIDE DEF n
<1>4. shown \in Seq(Record) /\ Len(shown) = n /\ \A k \in 1..n : shown[k] = StoredISSPasses[k - 1]
  <2>1. \A k \in 1..n : At(k - 1) \in Record
    BY <1>3 DEF IInv, TableTypes
  <2> QED BY <1>1, <1>3, <2>1
<1> HIDE DEF shown
<1>5. AsInt(NonVolatileColor) \in Int16
  BY AsIntType DEF IInv, ColorTypes
<1>6. ReplyTypes'
  BY <1>2, <1>4, <1>5 DEF ReplyTypes
<1>7. Shown'
  <2>1. reply'.kind = "dump" /\ reply'.shown = shown /\ pc' = "idle"
    BY <1>2 DEF dump_mem
  <2>2. intact => n = Clamped(Len(last)) /\ \A k \in 1..n : shown[k] = last[k]
    <3> SUFFICES ASSUME intact PROVE n = Clamped(Len(last)) /\ \A k \in 1..n : shown[k] = last[k]
      OBVIOUS
    <3>1. NumOfStoredISSPasses = Len(last) /\ Holds(StoredISSPasses, Len(last), last)
      BY DEF IInv, Stored
    <3>2. ASSUME NEW k \in 1..n PROVE shown[k] = last[k]
      <4>1. k - 1 \in Slots /\ k - 1 < Len(last) /\ (k - 1) + 1 = k
        BY <1>1, <3>1
      <4>2. StoredISSPasses[k - 1] = last[(k - 1) + 1]
        BY <3>1, <4>1 DEF Holds
      <4> QED BY <1>4, <4>1, <4>2
    <3> QED BY <3>1, <3>2 DEF n
  <2> QED BY <1>4, <2>1, <2>2 DEF Shown, dump_mem
<1>8. DumpShowsColor'
  <2>1. reply'.color = AsInt(NonVolatileColor) /\ kept' = kept /\ lastColor' = lastColor
    BY <1>2 DEF dump_mem
  <2>2. kept => reply'.color = lastColor
    BY <2>1, WordAndBack DEF IInv, ColorKept
  <2> QED BY <2>1, <2>2 DEF DumpShowsColor
<1> QED BY <1>6, <1>7, <1>8, TableKept, ColorUnchanged DEF IInv, dump_mem

LEMMA PowerLossStep == ASSUME IInv, PowerLoss PROVE IInv'
<1>1. TableTypes'
  BY StackFacts DEF IInv, TableTypes, PowerLoss
<1>2. Progress' /\ CountCoversWritten' /\ Fits'
  BY StackFacts DEF IInv, Progress, CountCoversWritten, Fits, PowerLoss
<1>3. Stored'
  BY DEF IInv, Stored, Holds, PowerLoss
<1>4. Shown' /\ DumpShowsColor' /\ ReplyTypes'
  <2>1. ReplyTypes' /\ reply'.kind = "none"
    BY NewReply DEF PowerLoss
  <2> QED BY <2>1 DEF Shown, DumpShowsColor
<1>5. ColorTypes' /\ ColorKept'
  <2>1. 0 \in Int16
    BY DEF Int16
  <2> QED BY <2>1 DEF IInv, ColorTypes, ColorKept, PowerLoss
<1> QED BY <1>1, <1>2, <1>3, <1>4, <1>5 DEF IInv

LEMMA StutterStep == ASSUME IInv, UNCHANGED vars PROVE IInv'
<1>1. Shown' /\ DumpShowsColor'
  BY DEF vars, IInv, Shown, DumpShowsColor
<1> QED BY <1>1, TableKept, ColorUnchanged, ReplyUnchanged DEF vars, IInv

(* The invariant, whatever is announced and sent, and lost on the way. *)
THEOREM StoreInvariant == Spec => []IInv
<1>1. IInv /\ [Next]_vars => IInv'
  BY ScanNumberStep, ScanRecordStep, ScanEndStep, WriteFirstStep, WriteRestStep, WriteEndStep,
     WriteCountStep, SetColorStep, HalfWordStep, WholeWordStep, DumpStep, PowerLossStep,
     StutterStep DEF Next
<1> QED BY InitIInv, <1>1, PTL DEF Spec

(* The indices of set_passes stay in their byte, and the EEPROM holds      *)
(* records and words, whatever a power loss leaves of a write.             *)
THEOREM StoreTypes == Spec => []TypeOK
<1>1. IInv => TypeOK
  BY DEF IInv, TypeOK, TableTypes, ReplyTypes, ColorTypes
<1> QED BY <1>1, StoreInvariant, PTL

(* Whatever moment set_passes loses power at, and however often, the       *)
(* stored count covers only records that have been written.                *)
THEOREM CountCovers == Spec => []CountCoversWritten
<1>1. IInv => CountCoversWritten
  BY DEF IInv
<1> QED BY <1>1, StoreInvariant, PTL

(* The first MAXPASS passes of the last set_passes that parsed whole. *)
DumpIsStartOfLastSet ==
  reply.kind = "dump" /\ intact => reply.shown = SubSeq(last, 1, Clamped(Len(last)))

LEMMA ShownIsStart == IInv => DumpIsStartOfLastSet
<1> SUFFICES ASSUME IInv, reply.kind = "dump", intact
             PROVE  reply.shown = SubSeq(last, 1, Clamped(Len(last)))
  BY DEF DumpIsStartOfLastSet
<1> DEFINE n == Clamped(Len(last))
<1>1. n \in Nat /\ n <= Len(last) /\ last \in Seq(Record)
  BY DEF IInv, Progress, Clamped, Record
<1>2. /\ reply.shown \in Seq(Record) /\ Len(reply.shown) = n
      /\ \A k \in 1..n : reply.shown[k] = last[k]
  BY DEF IInv, ReplyTypes, Shown
<1> HIDE DEF n
<1>3. \A k \in 1..n : last[k] \in Record
  BY <1>1
<1>4. /\ SubSeq(last, 1, n) \in Seq(Record)
      /\ Len(SubSeq(last, 1, n)) = IF 1 <= n THEN n - 1 + 1 ELSE 0
      /\ \A k \in 1..n - 1 + 1 : SubSeq(last, 1, n)[k] = last[1 + k - 1]
  BY <1>1, <1>3, SubSeqProperties
<1>5. /\ Len(SubSeq(last, 1, n)) = n
      /\ \A k \in 1..n : SubSeq(last, 1, n)[k] = reply.shown[k]
  BY <1>1, <1>2, <1>4
<1>6. reply.shown = SubSeq(last, 1, n)
  BY <1>2, <1>4, <1>5, SeqEqual
<1> QED BY <1>6 DEF n

(* However many passes a host announces, what dump_mem shows of them is    *)
(* right: the start of the table, as far as there is room.                 *)
THEOREM DumpsTheStart == Spec => []DumpIsStartOfLastSet
BY ShownIsStart, StoreInvariant, PTL

(* For a host that announces no more passes than there is room for that is *)
(* all of them (set_passes does not compare the number with MAXPASS).      *)
THEOREM DumpsLastSet ==
  ASSUME Nums \subseteq 0..MAXPASS
  PROVE  Spec => []DumpIsLastSet
<1>1. IInv => DumpIsLastSet
  <2> SUFFICES ASSUME IInv, reply.kind = "dump", intact PROVE reply.shown = last
    BY DEF DumpIsLastSet
  <2>1. /\ last \in Seq(Record) /\ Len(last) <= MAXPASS
        /\ Clamped(Len(last)) = Len(last)
    BY DEF IInv, Fits, Progress, Clamped, Record
  <2>2. /\ reply.shown \in Seq(Record) /\ Len(reply.shown) = Len(last)
        /\ \A k \in 1..Len(reply.shown) : reply.shown[k] = last[k]
    BY <2>1 DEF IInv, ReplyTypes, Shown
  <2> QED BY <2>1, <2>2, SeqEqual
<1> QED BY <1>1, StoreInvariant, PTL

(* set_color and dump_mem: the colour comes back, sign and all, from the   *)
(* word that is written in two bytes, across power losses.                 *)
THEOREM DumpsColor == Spec => []DumpShowsColor
<1>1. IInv => DumpShowsColor
  BY DEF IInv
<1> QED BY <1>1, StoreInvariant, PTL
==============================================================================
