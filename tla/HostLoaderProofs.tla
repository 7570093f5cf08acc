-------------------------- MODULE HostLoaderProofs --------------------------
(***************************************************************************)
(* Proofs about HostLoader, for files of any length and content (whose     *)
(* addresses are those of an unsigned int), and for every size of a block  *)
(* and of the code that leaves at least a block of the memory free (Fits): *)
(* of the parts that parse_options knows, those of 8, 16 and 32 K.         *)
(***************************************************************************)
EXTENDS HostLoader, TLAPS

Record == [t : {"data", "ext", "end", "text"}, addr : Nat, bytes : Seq(0..255), ok : BOOLEAN]

Fits == code_size + block_size <= MAX_MEMORY_SIZE

(* A record that sets the base, and b as the base at record n of f. *)
Sets(f, j) == f[j].t = "ext" /\ f[j].ok
IsBase(f, n, b) ==
  \/ b = 0 /\ \A j \in 1..n - 1 : ~Sets(f, j)
  \/ \E j \in 1..n - 1 : Sets(f, j) /\ b = f[j].addr /\ \A m \in j + 1..n - 1 : ~Sets(f, m)

Covers(f, j, a) == f[j].t = "data" /\ a \in Origin(f, j)..Origin(f, j) + Len(f[j].bytes) - 1

(* x is what the records D of f say of a: the last of them that covers it. *)
SaidBy(f, D, a, x) ==
  \/ x = Unset /\ \A j \in D : ~Covers(f, j, a)
  \/ /\ x \in 0..255
     /\ \E j \in D : /\ Covers(f, j, a) /\ x = f[j].bytes[a - Origin(f, j) + 1]
                     /\ \A m \in D : m > j => ~Covers(f, m, a)

GoodRecord(rec) == rec.t # "text" /\ (rec.t = "data" => rec.ok)

(* The records that have been read. *)
Done == IF line <= Len(fp) THEN 1..line - 1 ELSE Records(fp)

Types ==
  /\ pc \in {"idle", "read", "open", "reread", "program", "boot", "done", "dead"}
  /\ file \in Files /\ fp \in Seq(Record) /\ line \in Nat \ {0} /\ extended_addr \in Nat
  /\ addr \in Nat

(* The reader, in a run without an error. *)
Reading ==
  pc \notin {"idle", "dead"} =>
    /\ line <= Len(fp) => /\ IsBase(fp, line, extended_addr)
                          /\ \A j \in 1..line - 1 : fp[j].t # "end"
    /\ \A a \in Memory : SaidBy(fp, Done, a, firmware_image[a])
    /\ \A j \in Done : j \in Nat /\ GoodRecord(fp[j])

Order ==
  /\ pc \in {"open", "program", "boot", "done"} => line > Len(fp)
  /\ pc \in {"read", "open", "reread"} => addr = 0

(* What the flash should hold, and how far it does. *)
Want(a) == IF firmware_image[a] = Unset THEN Blank ELSE firmware_image[a]
Flashed ==
  /\ pc = "program" => \A a \in Code : /\ a < addr => flash[a] = Want(a)
                                       /\ addr > 0 /\ a >= addr => flash[a] = Blank
  /\ pc \in {"boot", "done"} => \A a \in Code : flash[a] = Want(a)

IInv == Types /\ Reading /\ Order /\ Flashed

USE DEF options, reader, world
USE SizesAssumption

-----------------------------------------------------------------------------
(* The largest and the smallest number of a set that has one. *)
LEMMA MaxIs ==
  ASSUME NEW S \in SUBSET Int, NEW m \in S, \A y \in S : m >= y
  PROVE  Max(S) = m
<1>1. \A x \in S : (\A y \in S : x >= y) => x = m
  OBVIOUS
<1> QED BY <1>1 DEF Max

LEMMA MinIs ==
  ASSUME NEW S \in SUBSET Int, NEW m \in S, \A y \in S : m <= y
  PROVE  Min(S) = m
<1>1. \A x \in S : (\A y \in S : x <= y) => x = m
  OBVIOUS
<1> QED BY <1>1 DEF Min

(* extended_addr is the base that Origin looks up. *)
LEMMA OriginIs ==
  ASSUME NEW f, NEW n \in Nat, NEW b, IsBase(f, n, b)
  PROVE  Origin(f, n) = f[n].addr + b
<1> DEFINE bases == {j \in 1..n - 1 : f[j].t = "ext" /\ f[j].ok}
<1>1. CASE b = 0 /\ \A j \in 1..n - 1 : ~Sets(f, j)
  <2>1. bases = {}
    BY <1>1 DEF Sets
  <2> QED BY <1>1, <2>1 DEF Origin
<1>2. ASSUME NEW j \in 1..n - 1, Sets(f, j), b = f[j].addr, \A m \in j + 1..n - 1 : ~Sets(f, m)
      PROVE  Origin(f, n) = f[n].addr + b
  <2>1. bases \in SUBSET Int /\ j \in bases
    BY <1>2 DEF Sets
  <2>2. \A y \in bases : j >= y
    BY <1>2 DEF Sets
  <2>3. Max(bases) = j
    BY <2>1, <2>2, MaxIs
  <2> QED BY <1>2, <2>1, <2>3 DEF Origin
<1> QED BY <1>1, <1>2 DEF IsBase

LEMMA RecordsAll ==
  ASSUME NEW f \in Seq(Record), \A j \in 1..Len(f) : f[j].t # "end"
  PROVE  Records(f) = 1..Len(f)
BY DEF Records

LEMMA RecordsUpTo ==
  ASSUME NEW f \in Seq(Record), NEW n \in 1..Len(f), f[n].t = "end",
         \A j \in 1..n - 1 : f[j].t # "end"
  PROVE  Records(f) = 1..n - 1
<1> DEFINE ends == {j \in DOMAIN f : f[j].t = "end"}
<1>1. ends \in SUBSET Int /\ n \in ends /\ \A y \in ends : n <= y
  OBVIOUS
<1>2. Min(ends) = n
  BY <1>1, MinIs
<1> QED BY <1>1, <1>2 DEF Records

LEMMA ByteIsSet == \A x \in 0..255 : x # Unset
BY DEF Unset

LEMMA ByteOf ==
  ASSUME NEW Bytes, NEW s \in Seq(Bytes), NEW k \in 1..Len(s)
  PROVE  s[k] \in Bytes
OBVIOUS

(* What the records say is what the file says. *)
LEMMA SaidIsSays ==
  ASSUME NEW f \in Seq(Record), Records(f) \subseteq Int, NEW a, NEW x,
         SaidBy(f, Records(f), a, x)
  PROVE  Says(f, a) = IF x = Unset THEN Blank ELSE x
<1>0. Covering(f, a) = {j \in Records(f) : Covers(f, j, a)}
  BY DEF Covering, Covers
<1>1. CASE x = Unset /\ \A j \in Records(f) : ~Covers(f, j, a)
  BY <1>0, <1>1 DEF Says
<1>2. ASSUME x \in 0..255, NEW j \in Records(f), Covers(f, j, a),
             x = f[j].bytes[a - Origin(f, j) + 1],
             \A m \in Records(f) : m > j => ~Covers(f, m, a)
      PROVE  Says(f, a) = IF x = Unset THEN Blank ELSE x
  <2>1. Covering(f, a) \in SUBSET Int /\ j \in Covering(f, a)
    BY <1>0, <1>2
  <2>2. \A y \in Covering(f, a) : j >= y
    BY <1>0, <1>2
  <2>3. Max(Covering(f, a)) = j
    BY <2>1, <2>2, MaxIs
  <2>4. x # Unset /\ Covering(f, a) # {}
    <3>1. x # Unset
      BY <1>2, ByteIsSet
    <3> QED BY <2>1, <3>1
  <2>5. Says(f, a) = f[j].bytes[a - Origin(f, j) + 1]
    BY <2>3, <2>4 DEF Says
  <2> QED BY <1>2, <2>4, <2>5
<1> QED BY <1>1, <1>2 DEF SaidBy

-----------------------------------------------------------------------------
(* A line of the file *)

LEMMA RecordFacts ==
  ASSUME Types, line <= Len(fp)
  PROVE  /\ fp[line] \in Record /\ line \in 1..Len(fp)
         /\ fp[line].addr \in Nat /\ fp[line].bytes \in Seq(0..255)
         /\ fp[line].t \in {"data", "ext", "end", "text"}
<1>1. line \in 1..Len(fp)
  BY DEF Types
<1>2. fp[line] \in Record
  BY <1>1 DEF Types
<1> QED BY <1>1, <1>2 DEF Record

(* One more record is read. *)
LEMMA DoneGrows ==
  ASSUME Types, line <= Len(fp), \A j \in 1..line - 1 : fp[j].t # "end",
         fp[line].t # "end", fp' = fp, line' = line + 1
  PROVE  Done' = Done \cup {line} /\ Done = 1..line - 1
<1>1. line \in Nat \ {0} /\ Len(fp) \in Nat /\ fp \in Seq(Record)
  BY DEF Types
<1>2. Done = 1..line - 1
  BY DEF Done
<1>3. CASE line + 1 <= Len(fp)
  BY <1>1, <1>2, <1>3 DEF Done
<1>4. CASE line = Len(fp)
  <2>1. Records(fp) = 1..Len(fp)
    BY <1>1, <1>4, RecordsAll
  <2>2. Done' = Records(fp)
    BY <1>1, <1>4 DEF Done
  <2> QED BY <1>1, <1>2, <1>4, <2>1, <2>2
<1> QED BY <1>1, <1>3, <1>4

LEMMA DoneEnds ==
  ASSUME Types, line <= Len(fp), \A j \in 1..line - 1 : fp[j].t # "end",
         fp[line].t = "end", fp' = fp, line' = Len(fp) + 1
  PROVE  Done' = Done
<1>1. line \in 1..Len(fp) /\ Len(fp) \in Nat /\ fp \in Seq(Record)
  BY DEF Types
<1>2. Records(fp) = 1..line - 1
  BY <1>1, RecordsUpTo
<1>3. Done' = Records(fp)
  BY <1>1 DEF Done
<1> QED BY <1>2, <1>3 DEF Done

(* A record that is not data leaves what is said; a record of data says    *)
(* what is in it.                                                          *)
LEMMA SaidByMore ==
  ASSUME NEW f, NEW n \in Nat, NEW a, NEW x, SaidBy(f, 1..n - 1, a, x), ~Covers(f, n, a)
  PROVE  SaidBy(f, (1..n - 1) \cup {n}, a, x)
BY DEF SaidBy

LEMMA SaidByLast ==
  ASSUME NEW f, NEW n \in Nat, NEW a, NEW x \in 0..255, Covers(f, n, a),
         x = f[n].bytes[a - Origin(f, n) + 1]
  PROVE  SaidBy(f, (1..n - 1) \cup {n}, a, x)
<1>1. \A m \in (1..n - 1) \cup {n} : ~(m > n)
  OBVIOUS
<1> QED BY <1>1 DEF SaidBy

LEMMA BaseKept ==
  ASSUME NEW f, NEW n \in Nat \ {0}, NEW b, IsBase(f, n, b), ~Sets(f, n)
  PROVE  IsBase(f, n + 1, b)
<1>1. CASE b = 0 /\ \A j \in 1..n - 1 : ~Sets(f, j)
  BY <1>1 DEF IsBase
<1>2. ASSUME NEW j \in 1..n - 1, Sets(f, j), b = f[j].addr, \A m \in j + 1..n - 1 : ~Sets(f, m)
      PROVE  IsBase(f, n + 1, b)
  <2>1. j \in 1..(n + 1) - 1 /\ \A m \in j + 1..(n + 1) - 1 : m \in j + 1..n - 1 \/ m = n
    BY <1>2
  <2>2. \A m \in j + 1..(n + 1) - 1 : ~Sets(f, m)
    BY <1>2, <2>1
  <2> QED BY <1>2, <2>1, <2>2 DEF IsBase
<1> QED BY <1>1, <1>2 DEF IsBase

LEMMA BaseSet ==
  ASSUME NEW f, NEW n \in Nat \ {0}, Sets(f, n)
  PROVE  IsBase(f, n + 1, f[n].addr)
<1>1. n \in 1..(n + 1) - 1 /\ \A m \in n + 1..(n + 1) - 1 : ~Sets(f, m)
  OBVIOUS
<1> QED BY <1>1 DEF IsBase

(* parse_hex_line, for a line that is not an error. *)
LEMMA GoodLine ==
  ASSUME Types, Reading, Order, pc \in {"read", "reread"}, line <= Len(fp), fp' = fp,
         pc' = pc, addr' = addr, file' = file, GoodRecord(fp[line]),
         extended_addr' \in Nat, line' \in Nat \ {0},
         line' <= Len(fp) => IsBase(fp, line', extended_addr')
                               /\ \A j \in 1..line' - 1 : fp[j].t # "end",
         \/ Done' = Done
         \/ Done' = Done \cup {line},
         \A a \in Memory : SaidBy(fp, Done', a, firmware_image'[a])
  PROVE  IInv'
<1>1. Types'
  BY DEF Types
<1>2. \A j \in Done' : j \in Nat /\ GoodRecord(fp[j])
  BY DEF Types, Reading
<1>3. Reading'
  BY <1>2 DEF Reading, Memory
<1>4. Order' /\ Flashed'
  BY DEF Order, Flashed
<1> QED BY <1>1, <1>3, <1>4 DEF IInv

LEMMA DeadEnd ==
  ASSUME Types, pc' = "dead", file' = file, fp' = fp, line' \in Nat \ {0},
         extended_addr' \in Nat, addr' \in Nat
  PROVE  IInv'
BY DEF Types, Reading, Order, Flashed, IInv

LEMMA ParseStep ==
  ASSUME IInv, ParseLine
  PROVE  IInv'
<1> DEFINE rec  == fp[line]
           from == extended_addr + IF rec.t = "data" THEN rec.addr ELSE 0
           len  == CASE rec.t = "data" -> Len(rec.bytes) [] rec.t = "ext" -> 2 [] OTHER -> 0
           span == from..from + len - 1
<1>0. Types /\ Reading /\ Order /\ pc \in {"read", "reread"} /\ line <= Len(fp)
  BY DEF IInv, ParseLine
<1>1. /\ rec \in Record /\ line \in 1..Len(fp) /\ rec.addr \in Nat
      /\ rec.bytes \in Seq(0..255) /\ rec.t \in {"data", "ext", "end", "text"}
  BY <1>0, RecordFacts
<1>2. line \in Nat \ {0} /\ Len(fp) \in Nat /\ extended_addr \in Nat
  BY <1>0 DEF Types
<1>3. addr' = addr /\ file' = file /\ fp' = fp
  BY DEF ParseLine, Parse
<1>4. /\ IsBase(fp, line, extended_addr) /\ \A j \in 1..line - 1 : fp[j].t # "end"
      /\ \A a \in Memory : SaidBy(fp, Done, a, firmware_image[a])
  BY <1>0 DEF Reading
<1>5. CASE rec.t = "text" \/ (from + len) % UINT_SIZE >= MAX_MEMORY_SIZE
  <2>1. pc' = "dead" /\ line' = line /\ extended_addr' = extended_addr
    BY <1>5 DEF ParseLine, Parse
  <2> QED BY <1>0, <1>2, <1>3, <2>1, DeadEnd DEF Types
<1>6. CASE ~(rec.t = "text" \/ (from + len) % UINT_SIZE >= MAX_MEMORY_SIZE)
  <2>1. /\ firmware_image' = [a \in Memory |->
             IF rec.t = "data" /\ a \in span THEN rec.bytes[a - from + 1] ELSE firmware_image[a]]
        /\ extended_addr' = IF rec.t = "ext" /\ rec.ok THEN rec.addr ELSE extended_addr
        /\ pc' = IF rec.t = "data" /\ ~rec.ok THEN "dead" ELSE pc
        /\ line' = IF rec.t = "end" THEN Len(fp) + 1 ELSE line + 1
    BY <1>6 DEF ParseLine, Parse
  <2> HIDE DEF span
  <2>2. extended_addr' \in Nat /\ line' \in Nat \ {0}
    BY <1>1, <1>2, <2>1
  <2>3. CASE rec.t = "data" /\ ~rec.ok
    BY <1>0, <1>3, <2>1, <2>2, <2>3, DeadEnd DEF Types
  <2>4. CASE ~(rec.t = "data" /\ ~rec.ok)
    <3>1. GoodRecord(rec) /\ pc' = pc
      BY <1>6, <2>1, <2>4 DEF GoodRecord
    <3>2. CASE rec.t = "end"
      <4>1. Done' = Done
        BY <1>0, <1>3, <1>4, <2>1, <3>2, DoneEnds
      <4>2. \A a \in Memory : firmware_image'[a] = firmware_image[a]
        BY <2>1, <3>2
      <4>3. ~(line' <= Len(fp))
        BY <1>2, <2>1, <3>2
      <4> QED BY <1>0, <1>3, <1>4, <2>2, <3>1, <4>1, <4>2, <4>3, GoodLine
    <3>3. CASE rec.t \in {"data", "ext"}
      <4>1. line' = line + 1
        BY <2>1, <3>3
      <4>2. Done' = Done \cup {line} /\ Done = 1..line - 1
        BY <1>0, <1>3, <1>4, <3>3, <4>1, DoneGrows
      <4>3. \A j \in 1..line' - 1 : fp[j].t # "end"
        BY <1>2, <1>4, <3>3, <4>1
      <4>4. IsBase(fp, line', extended_addr')
        <5>1. CASE Sets(fp, line)
          BY <1>2, <2>1, <4>1, <5>1, BaseSet DEF Sets
        <5>2. CASE ~Sets(fp, line)
          BY <1>2, <1>4, <2>1, <4>1, <5>2, BaseKept DEF Sets
        <5> QED BY <5>1, <5>2
      <4>5. ASSUME NEW a \in Memory
            PROVE  SaidBy(fp, Done', a, firmware_image'[a])
        <5>0. a \in Int /\ SaidBy(fp, 1..line - 1, a, firmware_image[a])
          BY <1>4, <4>2 DEF Memory
        <5>1. CASE rec.t = "data" /\ a \in span
          <6>1. Origin(fp, line) = from /\ from \in Nat
            <7>1. Origin(fp, line) = rec.addr + extended_addr
              BY <1>2, <1>4, OriginIs
            <7> QED BY <1>1, <1>2, <5>1, <7>1
          <6>2. Covers(fp, line, a)
            BY <5>1, <6>1 DEF Covers, span
          <6>3. a - from + 1 \in 1..Len(rec.bytes)
            <7>1. len = Len(rec.bytes)
              BY <5>1, Zenon
            <7>2. a \in from..from + len - 1
              BY <5>1, Zenon DEF span
            <7> HIDE DEF len, from
            <7> QED BY <1>1, <5>0, <6>1, <7>1, <7>2
          <6>4. rec.bytes[a - from + 1] \in 0..255
            <7> HIDE DEF from, rec
            <7> QED BY <1>1, <6>3, ByteOf
          <6>5. firmware_image'[a] = rec.bytes[a - from + 1]
            BY <2>1, <5>1
          <6> QED BY <1>2, <4>2, <6>1, <6>2, <6>4, <6>5, SaidByLast
        <5>2. CASE ~(rec.t = "data" /\ a \in span)
          <6>1. ~Covers(fp, line, a)
            <7>1. CASE rec.t = "data"
              <8>1. Origin(fp, line) = rec.addr + extended_addr
                BY <1>2, <1>4, OriginIs
              <8>2. Origin(fp, line) = from
                BY <1>1, <1>2, <7>1, <8>1
              <8> QED BY <5>2, <7>1, <8>2 DEF Covers, span
            <7> QED BY <7>1 DEF Covers
          <6>2. firmware_image'[a] = firmware_image[a]
            BY <2>1, <5>2
          <6> QED BY <1>2, <4>2, <5>0, <6>1, <6>2, SaidByMore
        <5> QED BY <5>1, <5>2
      <4> QED BY <1>0, <1>3, <2>2, <3>1, <4>2, <4>3, <4>4, <4>5, GoodLine
    <3> QED BY <1>1, <1>6, <3>2, <3>3
  <2> QED BY <2>3, <2>4
<1> QED BY <1>5, <1>6

-----------------------------------------------------------------------------
(* The other steps *)

(* A read begins with nothing said. *)
LEMMA ReadBegins ==
  ASSUME file \in Files, line' = 1, firmware_image' = Empty, extended_addr' = 0, fp' = file,
         file' = file, pc' \in {"read", "reread"}, addr' = 0
  PROVE  IInv'
<1>1. file \in Seq(Record)
  BY FilesAssumption DEF Record
<1>2. Done' = {}
  <2>1. CASE 1 <= Len(file)
    BY <2>1 DEF Done
  <2>2. CASE ~(1 <= Len(file))
    <3>1. Len(file) = 0
      BY <1>1, <2>2
    <3>2. Records(file) = 1..Len(file)
      <4>1. \A j \in 1..Len(file) : file[j].t # "end"
        BY <3>1
      <4> QED BY <1>1, <4>1, RecordsAll
    <3> QED BY <2>2, <3>1, <3>2 DEF Done
  <2> QED BY <2>1, <2>2
<1>3. \A a \in Memory : SaidBy(fp', Done', a, firmware_image'[a])
  BY <1>2 DEF SaidBy, Empty
<1>4. IsBase(file, 1, 0) /\ \A j \in 1..1 - 1 : file[j].t # "end"
  BY DEF IsBase
<1>5. Types' /\ Order' /\ Flashed'
  BY <1>1 DEF Types, Order, Flashed
<1>6. Reading'
  BY <1>2, <1>3, <1>4 DEF Reading, Memory
<1> QED BY <1>5, <1>6 DEF IInv

LEMMA BeginReadStep ==
  ASSUME IInv, NEW step \in {"read", "reread"}, BeginRead(step), file' = file, addr' = 0
  PROVE  IInv'
<1>1. CASE fp' = file /\ pc' = step
  BY <1>1, ReadBegins DEF IInv, Types, BeginRead
<1>2. CASE fp' = fp /\ pc' = "dead"
  BY <1>2, DeadEnd DEF IInv, Types, BeginRead
<1> QED BY <1>1, <1>2 DEF BeginRead

(* Steps that leave the reader alone. *)
LEMMA ReadingKept ==
  ASSUME Reading, UNCHANGED reader, pc' = pc \/ pc' = "dead" \/ pc \notin {"idle", "dead"}
  PROVE  Reading'
BY DEF Reading, Done, Memory

LEMMA EndReadStep ==
  ASSUME IInv, EndRead
  PROVE  IInv'
<1>1. Reading'
  BY ReadingKept DEF IInv, EndRead
<1>2. Types' /\ Order'
  BY DEF IInv, Types, Order, EndRead
<1>3. Flashed'
  <2>1. addr = 0 /\ addr' = 0 /\ pc' \in {"open", "program"}
    BY DEF IInv, Order, EndRead
  <2>2. \A a \in Code : ~(a < 0)
    BY DEF Code
  <2> QED BY <2>1, <2>2 DEF Flashed
<1> QED BY <1>1, <1>2, <1>3 DEF IInv

LEMMA OpenStep ==
  ASSUME IInv, Open
  PROVE  IInv'
<1>1. CASE waited
  BY <1>1, BeginReadStep DEF IInv, Types, Order, Open
<1>2. CASE ~waited
  <2>1. Reading'
    BY <1>2, ReadingKept DEF IInv, Open
  <2>2. Types' /\ Order'
    BY <1>2 DEF IInv, Types, Order, Open
  <2>3. Flashed'
    <3>1. addr' = 0 /\ pc' = "program"
      BY <1>2 DEF IInv, Order, Open
    <3>2. \A a \in Code : ~(a < 0)
      BY DEF Code
    <3> QED BY <3>1, <3>2 DEF Flashed
  <2> QED BY <2>1, <2>2, <2>3 DEF IInv
<1> QED BY <1>1, <1>2

LEMMA NotFoundStep ==
  ASSUME IInv, NotFound
  PROVE  IInv'
<1>1. pc = "open" /\ pc' \in {"open", "dead"} /\ UNCHANGED <<addr, reader, file, flash>>
  BY DEF NotFound
<1>2. Reading'
  BY <1>1, ReadingKept DEF IInv
<1>3. Types' /\ Order' /\ Flashed'
  BY <1>1 DEF IInv, Types, Order, Flashed
<1> QED BY <1>2, <1>3 DEF IInv

(* A block that is skipped holds nothing of the file. *)
LEMMA SkipStep ==
  ASSUME Fits, IInv, Skip
  PROVE  IInv'
<1>1. Reading'
  BY ReadingKept DEF IInv, Skip
<1>2. Types' /\ Order'
  BY DEF IInv, Types, Order, Skip
<1>3. ASSUME NEW a \in Code
      PROVE  /\ a < addr' => flash[a] = Want(a)
             /\ a >= addr' => flash[a] = Blank
  <2>0. addr \in Nat /\ a \in Int /\ addr > 0 /\ addr < code_size /\ addr' = addr + block_size
    BY DEF IInv, Types, Code, Skip
  <2>1. /\ a < addr => flash[a] = Want(a)
        /\ a >= addr => flash[a] = Blank
    BY <2>0 DEF IInv, Flashed, Skip
  <2>2. CASE a \in Block
    <3>1. firmware_image[a] = Unset
      BY <2>0, <2>2 DEF Skip, Used, Fits
    <3>2. a >= addr /\ ~(a >= addr')
      BY <2>0, <2>2 DEF Block
    <3> QED BY <2>1, <3>1, <3>2 DEF Want
  <2>3. CASE a \notin Block
    <3>1. (a < addr' => a < addr) /\ (a >= addr' => a >= addr)
      BY <2>0, <2>3 DEF Block
    <3> QED BY <2>1, <3>1
  <2> QED BY <2>2, <2>3
<1>4. pc' = "program" /\ UNCHANGED <<flash, firmware_image>>
  BY DEF Skip
<1>5. Flashed'
  BY <1>3, <1>4 DEF Flashed, Want, Code
<1> QED BY <1>1, <1>2, <1>5 DEF IInv

(* The first block erases the rest. *)
LEMMA WriteStep ==
  ASSUME Fits, IInv, WriteBlock
  PROVE  IInv'
<1>0. /\ pc = "program" /\ addr \in Nat /\ addr < code_size /\ UNCHANGED <<reader, file>>
      /\ \/ addr' = addr + block_size /\ pc' = pc /\ flash' = Written
         \/ pc' = "dead" /\ addr' = addr
  BY DEF IInv, Types, WriteBlock
<1>1. Reading'
  BY <1>0, ReadingKept DEF IInv
<1>2. Types' /\ Order'
  BY <1>0 DEF IInv, Types, Order
<1>3. Flashed'
  <2>1. CASE pc' = "dead"
    BY <2>1 DEF Flashed
  <2>2. CASE addr' = addr + block_size /\ pc' = pc /\ flash' = Written
    <3>1. ASSUME NEW a \in Code
          PROVE  /\ a < addr' => flash'[a] = Want(a)
                 /\ a >= addr' => flash'[a] = Blank
      <4>0. a \in Int /\ a >= 0 /\ a < code_size
        BY DEF Code
      <4>1. flash'[a] = IF a \in Block THEN Data(a) ELSE IF addr = 0 THEN Blank ELSE flash[a]
        BY <2>2 DEF Written
      <4>2. CASE a \in Block
        <5>1. ~(addr + block_size >= MAX_MEMORY_SIZE)
          BY <1>0 DEF Fits
        <5>2. flash'[a] = Want(a)
          BY <4>1, <4>2, <5>1 DEF Data, Want
        <5>3. ~(a >= addr')
          BY <1>0, <2>2, <4>2 DEF Block
        <5> QED BY <5>2, <5>3
      <4>3. CASE a \notin Block /\ addr = 0
        <5>1. ~(a < addr')
          BY <1>0, <2>2, <4>0, <4>3 DEF Block
        <5> QED BY <4>1, <4>3, <5>1
      <4>4. CASE a \notin Block /\ addr # 0
        <5>1. /\ a < addr => flash[a] = Want(a)
              /\ a >= addr => flash[a] = Blank
          BY <1>0, <4>4 DEF IInv, Flashed
        <5>2. (a < addr' => a < addr) /\ (a >= addr' => a >= addr)
          BY <1>0, <2>2, <4>0, <4>4 DEF Block
        <5> QED BY <4>1, <4>4, <5>1, <5>2
      <4> QED BY <4>2, <4>3, <4>4
    <3> QED BY <1>0, <2>2, <3>1 DEF Flashed, Want, Code
  <2> QED BY <1>0, <2>1, <2>2
<1> QED BY <1>1, <1>2, <1>3 DEF IInv

LEMMA ProgrammedStep ==
  ASSUME IInv, Programmed
  PROVE  IInv'
<1>1. Reading'
  BY ReadingKept DEF IInv, Programmed
<1>2. Types' /\ Order'
  BY DEF IInv, Types, Order, Programmed
<1>3. \A a \in Code : flash[a] = Want(a)
  <2>1. \A a \in Code : a < addr
    BY DEF IInv, Types, Programmed, Code
  <2> QED BY <2>1 DEF IInv, Flashed, Programmed
<1>4. Flashed'
  BY <1>3 DEF Programmed, Flashed, Want, Code
<1> QED BY <1>1, <1>2, <1>4 DEF IInv

LEMMA BootStep ==
  ASSUME IInv, Boot
  PROVE  IInv'
<1>1. Reading'
  BY ReadingKept DEF IInv, Boot
<1>2. Types' /\ Order'
  BY DEF IInv, Types, Order, Boot
<1>3. Flashed'
  BY DEF IInv, Flashed, Want, Code, Boot
<1> QED BY <1>1, <1>2, <1>3 DEF IInv

(* Whatever the user and the device do. *)
LEMMA WorldStep ==
  ASSUME IInv, file' \in Files, UNCHANGED <<pc, addr, reader, flash>>
  PROVE  IInv'
<1>1. Reading'
  BY ReadingKept DEF IInv
<1>2. Types' /\ Order' /\ Flashed'
  BY DEF IInv, Types, Order, Flashed, Want, Code
<1> QED BY <1>1, <1>2 DEF IInv

(* The invariant of the loader: the image is what the lines read so far    *)
(* say, in the order of the file and above the base in force; the blocks   *)
(* below addr hold the image and those above it are erased.                *)
THEOREM LoaderInvariant ==
  ASSUME Fits
  PROVE  Spec => []IInv
<1>1. Init => IInv
  BY DEF Init, IInv, Types, Reading, Order, Flashed
<1>2. IInv /\ [Next]_vars => IInv'
  <2> SUFFICES ASSUME IInv, [Next]_vars PROVE IInv'
    OBVIOUS
  <2>0. file \in Files
    BY DEF IInv, Types
  <2>1. CASE ParseLine
    BY <2>1, ParseStep
  <2>2. CASE EndRead
    BY <2>2, EndReadStep
  <2>3. CASE Open
    BY <2>3, OpenStep
  <2>4. CASE NotFound
    BY <2>4, NotFoundStep
  <2>5. CASE Skip
    BY <2>5, SkipStep
  <2>6. CASE WriteBlock
    BY <2>6, WriteStep
  <2>7. CASE Programmed
    BY <2>7, ProgrammedStep
  <2>8. CASE Boot
    BY <2>8, BootStep
  <2>9. CASE Start
    BY <2>9, BeginReadStep DEF Start
  <2>10. CASE PressReset \/ Unplug \/ Replug
    BY <2>0, <2>10, WorldStep DEF PressReset, Unplug, Replug
  <2>11. CASE Rebuild
    BY <2>11, WorldStep DEF Rebuild
  <2>12. CASE UNCHANGED vars
    BY <2>0, <2>12, WorldStep DEF vars
  <2> QED BY <2>1, <2>2, <2>3, <2>4, <2>5, <2>6, <2>7, <2>8, <2>9, <2>10, <2>11, <2>12
       DEF Next, Loader
<1> QED BY <1>1, <1>2, PTL DEF Spec

(* hid_bootloader_cli starts the program, and ends without an error, only  *)
(* when the flash holds, in every byte, what the file says: whatever the   *)
(* file is, however large, and whatever failed in the runs before, on a    *)
(* chip whose code leaves a block of MAX_MEMORY_SIZE free (parse_options   *)
(* knows 8, 16 and 32 K; it also knows 64 and 128 K, for which the last    *)
(* block of the memory is written blank).                                  *)
THEOREM FlashHoldsTheFile ==
  ASSUME Fits
  PROVE  Spec => []FlashIsTheFile
<1>1. IInv => FlashIsTheFile
  <2> SUFFICES ASSUME IInv, pc \in {"boot", "done"}
               PROVE  Clean(fp) /\ \A a \in Code : flash[a] = Says(fp, a)
    BY DEF FlashIsTheFile
  <2>1. Done = Records(fp) /\ fp \in Seq(Record)
    <3>1. line > Len(fp) /\ line \in Nat /\ fp \in Seq(Record)
      BY DEF IInv, Order, Types
    <3>2. ~(line <= Len(fp))
      BY <3>1
    <3> QED BY <3>1, <3>2 DEF Done
  <2>2. Records(fp) \subseteq Int /\ \A j \in Records(fp) : GoodRecord(fp[j])
    BY <2>1 DEF IInv, Reading
  <2>3. Clean(fp)
    BY <2>2 DEF Clean, GoodRecord
  <2>4. ASSUME NEW a \in Code
        PROVE  flash[a] = Says(fp, a)
    <3>1. a \in Memory
      BY DEF Code, Memory, Fits
    <3>2. SaidBy(fp, Records(fp), a, firmware_image[a])
      BY <2>1, <3>1 DEF IInv, Reading
    <3>3. Says(fp, a) = Want(a)
      BY <2>1, <2>2, <3>2, SaidIsSays DEF Want
    <3> QED BY <3>3 DEF IInv, Flashed
  <2> QED BY <2>3, <2>4
<1> QED BY <1>1, LoaderInvariant, PTL
=============================================================================
