------------------------------ MODULE RtcProofs ------------------------------
(***************************************************************************)
(* Proofs about Rtc: for every time the chip may stand at and every time   *)
(* that may be asked for, however many seconds pass and bytes are refused. *)
(***************************************************************************)
EXTENDS Rtc, TLAPS

(* The decimal coding *)

(* dec2bcd writes the number the chip takes it for. *)
THEOREM ChipReadsIt == \A n \in 0..99 : IsBcd(dec2bcd(n), n)
BY DEF IsBcd, dec2bcd, uint8_t

(* bcd2dec undoes dec2bcd: what set_time wrote get_time reads. *)
THEOREM RoundTrip == \A n \in 0..99 : bcd2dec(dec2bcd(n)) = n
BY DEF bcd2dec, dec2bcd, uint8_t

(* Adding 0x80 to the seconds (set_time) sets the oscillator's bit exactly *)
(* for seconds below 80; from there on the sum wraps and stops the clock.  *)
THEOREM SecondsKeepST ==
  \A n \in 0..99 : uint8_t(dec2bcd(n) + 128) >= 128 <=> n < 80
BY DEF dec2bcd, uint8_t

LEMMA BcdRange ==
  \A n \in 0..99 : /\ dec2bcd(n) \in 0..153
                   /\ n <= 79 => dec2bcd(n) < 128
                   /\ n <= 39 => dec2bcd(n) < 64
                   /\ n <= 19 => dec2bcd(n) < 32
BY DEF dec2bcd, uint8_t

(* The chip has one byte for a number, and one number for a byte. *)
LEMMA BcdByte == \A n \in 0..99 : Byte(n) = dec2bcd(n)
<1> SUFFICES ASSUME NEW n \in 0..99 PROVE Byte(n) = dec2bcd(n)
  OBVIOUS
<1>1. dec2bcd(n) \in 0..255 /\ IsBcd(dec2bcd(n), n)
  <2>1. dec2bcd(n) \in 0..153
    BY BcdRange
  <2>2. IsBcd(dec2bcd(n), n)
    BY ChipReadsIt
  <2>3. dec2bcd(n) \in 0..255
    BY <2>1
  <2> QED BY <2>2, <2>3
<1>2. \A b \in 0..255 : IsBcd(b, n) => b = dec2bcd(n)
  BY DEF IsBcd, dec2bcd, uint8_t
<1> QED BY <1>1, <1>2 DEF Byte

LEMMA BcdDigits == \A n \in 0..99 : Digits(dec2bcd(n)) = n
<1> SUFFICES ASSUME NEW n \in 0..99 PROVE Digits(dec2bcd(n)) = n
  OBVIOUS
<1>1. IsBcd(dec2bcd(n), n)
  BY ChipReadsIt
<1>2. \A m \in 0..99 : IsBcd(dec2bcd(n), m) => m = n
  BY DEF IsBcd, dec2bcd, uint8_t
<1> QED BY <1>1, <1>2 DEF Digits

-----------------------------------------------------------------------------
(* The chip and its registers *)

USE DEF Fields, Second, Minute, Hour, Day, Month, Year

LEMMA TimeFacts ==
  ASSUME NEW c, IsTime(c)
  PROVE  /\ \A f \in Fields : c[f] \in 0..99
         /\ c[Second] <= 59 /\ c[Minute] <= 59 /\ c[Hour] <= 23
         /\ c[Day] <= 31 /\ c[Month] <= 12
BY DEF IsTime, Highest

(* What get_time reads of a register is the field in it. *)
LEMMA RegisterRead ==
  ASSUME IsTime(clock), ST \in BOOLEAN, NEW f \in Fields
  PROVE  Register(f) \in 0..255 /\ Decode(f, Register(f)) = clock[f]
<1> DEFINE b == dec2bcd(clock[f])
<1>1. clock[f] \in 0..99
  BY TimeFacts
<1>2. Byte(clock[f]) = b
  BY <1>1, BcdByte
<1>3. b \in 0..153 /\ bcd2dec(b) = clock[f]
  BY <1>1, BcdRange, RoundTrip
<1>4. CASE f = Second
  <2>1. b < 128
    BY <1>1, <1>4, BcdRange, TimeFacts
  <2>2. Register(f) \in {b, b + 128}
    BY <1>2, <1>3, <1>4 DEF Register
  <2>3. Decode(f, Register(f)) = bcd2dec(Register(f) % 128)
    BY <1>4 DEF Decode, And7f
  <2>4. Register(f) % 128 = b
    BY <1>3, <2>1, <2>2
  <2> QED BY <1>3, <2>1, <2>2, <2>3, <2>4
<1>5. CASE f = Month
  <2>1. b < 32
    BY <1>1, <1>5, BcdRange, TimeFacts
  <2>2. Register(f) \in {b, b + 32}
    BY <1>2, <1>3, <1>5 DEF Register
  <2>3. Decode(f, Register(f)) = bcd2dec(Register(f) % 32)
    BY <1>5 DEF Decode, And1f
  <2>4. Register(f) % 32 = b
    BY <1>3, <2>1, <2>2
  <2> QED BY <1>3, <2>1, <2>2, <2>3, <2>4
<1>6. CASE f \in {Minute, Hour, Day, Year}
  <2>1. Register(f) = b
    BY <1>2, <1>6 DEF Register
  <2>2. /\ f = Minute => b < 128
        /\ f \in {Hour, Day} => b < 64
    BY <1>1, BcdRange, TimeFacts
  <2>3. Decode(f, b) = bcd2dec(CASE f = Minute -> b % 128 [] f \in {Hour, Day} -> b % 64 [] OTHER -> b)
    BY <1>6 DEF Decode, And7f, And3f
  <2>4. (CASE f = Minute -> b % 128 [] f \in {Hour, Day} -> b % 64 [] OTHER -> b) = b
    BY <1>3, <2>2
  <2> QED BY <1>3, <2>1, <2>3, <2>4
<1> QED BY <1>4, <1>5, <1>6

LEMMA DecodeZero == \A f \in Fields : Decode(f, 0) = 0
BY DEF Decode, bcd2dec, And7f, And3f, And1f, uint8_t

(* What set_time writes is the field in the chip's coding. *)
LEMMA EncodeField ==
  ASSUME IsTime(t), NEW f \in Fields
  PROVE  Encode(f) = dec2bcd(t[f])
<1>1. /\ t[f] \in 0..99
      /\ f \in {Second, Minute} => t[f] < 128
      /\ f \in {Hour, Day} => t[f] < 64
      /\ f = Month => t[f] < 32
  BY TimeFacts
<1> QED BY <1>1 DEF Encode, And7f, And3f, And1f

-----------------------------------------------------------------------------
(* A second *)

LEMMA LaterFields ==
  ASSUME NEW c
  PROVE  /\ Later(c)[Second] = IF c[Second] = 59 THEN 0 ELSE c[Second] + 1
         /\ Later(c)[Minute] = IF c[Second] # 59 THEN c[Minute]
                               ELSE IF c[Minute] = 59 THEN 0 ELSE c[Minute] + 1
         /\ Later(c)[Hour] = IF c[Second] # 59 \/ c[Minute] # 59 THEN c[Hour]
                             ELSE IF c[Hour] = 23 THEN 0 ELSE c[Hour] + 1
         /\ Later(c)[Day] =
              IF c[Second] # 59 \/ c[Minute] # 59 \/ c[Hour] # 23 THEN c[Day]
              ELSE IF c[Day] >= DaysIn(c[Month], c[Year]) THEN 1 ELSE c[Day] + 1
BY DEF Later, Lower, Full

LEMMA LaterDate ==
  ASSUME NEW c, c[Second] # 59 \/ c[Minute] # 59 \/ c[Hour] # 23
  PROVE  \A f \in {Day, Month, Year} : Later(c)[f] = c[f]
BY DEF Later, Lower, Full

LEMMA LaterIsTime ==
  ASSUME NEW c, IsTime(c)
  PROVE  IsTime(Later(c))
<1>1. Later(c) = [f \in Fields |-> Later(c)[f]]
  BY DEF Later
<1>2. DaysIn(c[Month], c[Year]) \in 28..31
  BY DEF DaysIn
<1>3. ASSUME NEW f \in Fields PROVE Later(c)[f] \in 0..Highest(f)
  <2>1. c[f] \in 0..Highest(f)
    BY DEF IsTime, Highest
  <2>2. Later(c)[f] \in {c[f], 0, 1} \/ (~Full(c, f) /\ Later(c)[f] = c[f] + 1)
    BY DEF Later
  <2>3. ~Full(c, f) => c[f] # Highest(f)
    BY <1>2 DEF Full, Highest
  <2>4. Highest(f) \in 12..99
    BY DEF Highest
  <2> QED BY <2>1, <2>2, <2>3, <2>4
<1>4. \A f \in Fields : 0..Highest(f) \subseteq Nat /\ \A x \in 0..Highest(f) : x <= Highest(f)
  BY DEF Highest
<1> QED BY <1>1, <1>3, <1>4 DEF IsTime

(* Midnight always changes the day. *)
LEMMA Midnight ==
  ASSUME NEW c, IsTime(c), Later(c)[Day] = c[Day]
  PROVE  c[Second] # 59 \/ c[Minute] # 59 \/ c[Hour] # 23
<1>1. DaysIn(c[Month], c[Year]) \in 28..31
  BY DEF DaysIn
<1>2. c[Day] \in 0..99
  BY TimeFacts
<1> QED BY <1>1, <1>2, LaterFields

-----------------------------------------------------------------------------
(* The invariant *)

(* The two writes of reset_rtc. *)
BatteryWrite == [reg |-> 3, bytes |-> <<8>>]
SecondsWrite == [reg |-> Second, bytes |-> <<128>>]

(* The two writes of set_time, for the time r. *)
TimeWrite(r) == [reg |-> Second, bytes |-> <<dec2bcd(r[Second]) + 128, dec2bcd(r[Minute]),
                                             dec2bcd(r[Hour])>>]
DateWrite(r) == [reg |-> Day, bytes |-> <<dec2bcd(r[Day]), dec2bcd(r[Month]), dec2bcd(r[Year])>>]

(* The writes that can be on the bus: those of reset_rtc and of set_time.  *)
(* None stops the oscillator.                                              *)
OnTheBus ==
  /\ \/ xfer \in {None, BatteryWrite, SecondsWrite}
     \/ \E r \in Requests : xfer \in {TimeWrite(r), DateWrite(r)}
  /\ ST = TRUE

Types ==
  /\ TypeOK /\ IsTime(goal) /\ clock \in seen /\ spoilt \in BOOLEAN /\ rolled \in BOOLEAN
  /\ pc \in {"time", "date", "dated"} => t \in Requests

(* The fields that get_time has read. *)
Known == [minute |-> {Second}, hour |-> {Second, Minute}, day |-> {Second, Minute, Hour},
          month |-> {Second, Minute, Hour, Day}, year |-> Fields \ {Year}, say |-> Fields]

(* What is read so far is what the chip showed, and of one time from which *)
(* only the seconds have moved on; and while it is read nothing is         *)
(* written.                                                                *)
Reading ==
  /\ pc = "second" => missed = {}
  /\ pc \in DOMAIN Known =>
       /\ xfer = None /\ missed \subseteq Known[pc]
       /\ \A f \in Known[pc] : \E c \in seen : Decode(f, t[f]) = Told(c, f)
       /\ ~rolled => \E c \in seen : /\ \A f \in Fields \ {Second} : c[f] = clock[f]
                                     /\ \A f \in Known[pc] : Decode(f, t[f]) = Told(c, f)

SameTimeOfDay(c, d) == \A f \in {Second, Minute, Hour} : c[f] = d[f]

(* How far set_clock has come: the time of day is on the bus or set, with  *)
(* the date that is still to be written; then the date is on the bus, or   *)
(* all is set.                                                             *)
Setting ==
  /\ pc = "date" =>
       \/ xfer = TimeWrite(t)
       \/ xfer = None /\ (~spoilt => SameTimeOfDay(clock, goal) /\ DateWrite(goal) = DateWrite(t))
  /\ (pc = "dated" \/ (pc = "idle" /\ reply.kind = "set")) /\ ~spoilt =>
       \/ xfer = None /\ clock = goal
       \/ xfer = DateWrite(goal) /\ SameTimeOfDay(clock, goal)

IInv == Types /\ OnTheBus /\ Reading /\ Setting /\ SayTimeHonest

-----------------------------------------------------------------------------
(* What a write does *)

LEMMA LandFields ==
  ASSUME NEW k \in 0..3, Land(k), NEW f \in Fields
  PROVE  clock'[f] = IF f \in xfer.reg..(xfer.reg + k - 1)
                     THEN LET b == xfer.bytes[f - xfer.reg + 1]
                          IN  Digits(IF f = Second THEN b % 128 ELSE b)
                     ELSE clock[f]
BY DEF Land, Written

LEMMA LandST ==
  ASSUME NEW k \in 0..3, Land(k), xfer.reg = 0, Second \in 0..0 + k - 1, xfer.bytes[1] >= 128
  PROVE  ST' = TRUE
<1>1. Second \in DOMAIN Written(xfer, k) /\ Written(xfer, k)[Second] = xfer.bytes[1]
  BY DEF Written
<1>2. ST' = IF Second \in DOMAIN Written(xfer, k) THEN Written(xfer, k)[Second] >= 128 ELSE ST
  BY DEF Land
<1>3. (Written(xfer, k)[Second] >= 128) = TRUE
  BY <1>1
<1> QED BY <1>1, <1>2, <1>3

LEMMA LandTime ==
  ASSUME IsTime(clock), ST = TRUE, NEW k \in 0..3, Land(k),
         NEW r, IsTime(r), xfer = TimeWrite(r)
  PROVE  /\ \A f \in {Second, Minute, Hour} : clock'[f] = IF f < k THEN r[f] ELSE clock[f]
         /\ \A f \in {Day, Month, Year} : clock'[f] = clock[f]
         /\ ST' = TRUE /\ Len(xfer.bytes) = 3
<1>1. r[Second] \in 0..59 /\ \A f \in Fields : r[f] \in 0..99
  BY TimeFacts
<1>2. ASSUME NEW f \in Fields
      PROVE  Digits(dec2bcd(r[f])) = r[f] /\ dec2bcd(r[f]) \in 0..153
  <2>1. r[f] \in 0..99
    BY <1>1
  <2> QED BY <2>1, BcdDigits, BcdRange
<1>3. dec2bcd(r[Second]) < 128
  BY <1>1, BcdRange
<1>4. (dec2bcd(r[Second]) + 128) % 128 = dec2bcd(r[Second])
  BY <1>2, <1>3
<1>5. /\ xfer.reg = 0 /\ Len(xfer.bytes) = 3
      /\ xfer.bytes[1] = dec2bcd(r[Second]) + 128
      /\ xfer.bytes[2] = dec2bcd(r[Minute]) /\ xfer.bytes[3] = dec2bcd(r[Hour])
  BY DEF TimeWrite
<1>6. ASSUME NEW f \in {Second, Minute, Hour}
      PROVE  clock'[f] = IF f < k THEN r[f] ELSE clock[f]
  BY <1>2, <1>4, <1>5, LandFields
<1>7. \A f \in {Day, Month, Year} : clock'[f] = clock[f]
  BY <1>5, LandFields
<1>8. ST' = TRUE
  <2>1. CASE k = 0
    BY <2>1, <1>5 DEF Land, Written
  <2>2. CASE k # 0
    <3>1. xfer.bytes[1] >= 128
      BY <1>2, <1>5
    <3>2. Second \in 0..0 + k - 1
      BY <2>2
    <3> QED BY <1>5, <3>1, <3>2, LandST
  <2> QED BY <2>1, <2>2
<1> QED BY <1>5, <1>6, <1>7, <1>8

LEMMA LandDate ==
  ASSUME IsTime(clock), ST = TRUE, NEW k \in 0..3, Land(k),
         NEW r, IsTime(r), xfer = DateWrite(r)
  PROVE  /\ \A f \in {Second, Minute, Hour} : clock'[f] = clock[f]
         /\ \A f \in {Day, Month, Year} : clock'[f] = IF f - 4 < k THEN r[f] ELSE clock[f]
         /\ ST' = TRUE /\ Len(xfer.bytes) = 3
<1>1. \A f \in Fields : r[f] \in 0..99
  BY TimeFacts
<1>2. \A f \in Fields : Digits(dec2bcd(r[f])) = r[f]
  BY <1>1, BcdDigits
<1>5. /\ xfer.reg = 4 /\ Len(xfer.bytes) = 3
      /\ xfer.bytes[1] = dec2bcd(r[Day])
      /\ xfer.bytes[2] = dec2bcd(r[Month]) /\ xfer.bytes[3] = dec2bcd(r[Year])
  BY DEF DateWrite
<1>6. ASSUME NEW f \in {Day, Month, Year}
      PROVE  clock'[f] = IF f - 4 < k THEN r[f] ELSE clock[f]
  BY <1>2, <1>5, LandFields
<1>7. \A f \in {Second, Minute, Hour} : clock'[f] = clock[f]
  BY <1>5, LandFields
<1>8. ST' = TRUE
  BY <1>5 DEF Land, Written
<1> QED BY <1>5, <1>6, <1>7, <1>8

(* reset_rtc: the battery, and the seconds. *)
LEMMA LandReset ==
  ASSUME IsTime(clock), ST = TRUE, NEW k \in 0..3, Land(k),
         xfer \in {BatteryWrite, SecondsWrite}
  PROVE  /\ \A f \in Fields : clock'[f] = clock[f] \/ clock'[f] = 0
         /\ ST' = TRUE
<1>1. k \in 0..1
  <2>1. Len(xfer.bytes) = 1
    BY DEF BatteryWrite, SecondsWrite
  <2> QED BY <2>1 DEF Land
<1>2. Digits(0) = 0
  <2>1. dec2bcd(0) = 0
    BY DEF dec2bcd, uint8_t
  <2> QED BY <2>1, BcdDigits
<1>3. CASE xfer = BatteryWrite
  <2>1. \A f \in Fields : clock'[f] = clock[f]
    BY <1>1, <1>3, LandFields DEF BatteryWrite
  <2> QED BY <2>1, <1>1, <1>3 DEF BatteryWrite, Land, Written
<1>4. CASE xfer = SecondsWrite
  <2>1. \A f \in Fields : clock'[f] = clock[f] \/ clock'[f] = 0
    BY <1>1, <1>2, <1>4, LandFields DEF SecondsWrite
  <2>2. ASSUME k = 0 PROVE ST' = TRUE
    BY <1>4, <2>2 DEF SecondsWrite, Land, Written
  <2>3. ASSUME k = 1 PROVE ST' = TRUE
    <3>1. xfer.reg = 0 /\ xfer.bytes[1] >= 128 /\ Second \in 0..0 + k - 1
      BY <1>4, <2>3 DEF SecondsWrite
    <3> QED BY <3>1, LandST
  <2>4. k = 0 \/ k = 1
    BY <1>1
  <2> QED BY <2>1, <2>2, <2>3, <2>4
<1> QED BY <1>3, <1>4

LEMMA LandIsTime ==
  ASSUME Types, OnTheBus, NEW k \in 0..3, Land(k)
  PROVE  IsTime(clock') /\ ST' = TRUE
<1>1. IsTime(clock) /\ ST = TRUE /\ xfer # None
  BY DEF Types, TypeOK, OnTheBus, Land
<1>2. \A f \in Fields : clock[f] \in 0..Highest(f) /\ Highest(f) \in Nat
  BY <1>1 DEF IsTime, Highest
<1>3. SUFFICES (\A f \in Fields : clock'[f] \in 0..Highest(f)) /\ ST' = TRUE
  <2>1. clock' = [f \in Fields |-> clock'[f]]
    BY DEF Land
  <2> QED BY <1>2, <2>1 DEF IsTime
<1>4. CASE xfer \in {BatteryWrite, SecondsWrite}
  <2>1. ST' = TRUE /\ \A f \in Fields : clock'[f] = clock[f] \/ clock'[f] = 0
    BY <1>1, <1>4, LandReset
  <2> QED BY <1>2, <2>1
<1>5. ASSUME NEW r \in Requests, xfer \in {TimeWrite(r), DateWrite(r)}
      PROVE  (\A f \in Fields : clock'[f] \in 0..Highest(f)) /\ ST' = TRUE
  <2>1. IsTime(r) /\ \A f \in Fields : r[f] \in 0..Highest(f)
    BY RequestsAssumption DEF IsTime, Highest
  <2>2. CASE xfer = TimeWrite(r)
    BY <1>1, <1>2, <2>1, <2>2, LandTime
  <2>3. CASE xfer = DateWrite(r)
    BY <1>1, <1>2, <2>1, <2>3, LandDate
  <2> QED BY <1>5, <2>2, <2>3
<1> QED BY <1>1, <1>4, <1>5 DEF OnTheBus

-----------------------------------------------------------------------------
(* Every step keeps the invariant. *)

USE DEF program, chip, bounds, history
USE BoundsAssumption

LEMMA KnownFacts ==
  /\ DOMAIN Known = {"minute", "hour", "day", "month", "year", "say"}
  /\ Known["minute"] = {Second} /\ Known["hour"] = {Second, Minute}
  /\ Known["day"] = {Second, Minute, Hour} /\ Known["month"] = {Second, Minute, Hour, Day}
  /\ Known["year"] = Fields \ {Year} /\ Known["say"] = Fields
BY DEF Known

LEMMA InitIInv == Init => IInv
<1> SUFFICES ASSUME Init PROVE IInv
  OBVIOUS
<1>1. Types
  <2>1. t \in [Fields -> 0..255] /\ xfer.reg \in 0..6 /\ xfer.bytes \in Seq(0..255)
    BY DEF Init, NoTime, None
  <2>2. IsTime(clock) /\ IsTime(goal) /\ clock \in seen
    BY ClocksAssumption DEF Init
  <2>3. ST \in BOOLEAN /\ VBATEN \in BOOLEAN /\ spoilt \in BOOLEAN /\ rolled \in BOOLEAN
    BY DEF Init
  <2>4. ticks \in 0..MaxTicks /\ faults \in 0..MaxFaults
    BY DEF Init
  <2>5. /\ pc \in Labels /\ pc \notin {"time", "date", "dated"}
        /\ reply.kind \in {"none", "time", "set", "err"}
    BY DEF Init, Labels
  <2> QED BY <2>1, <2>2, <2>3, <2>4, <2>5 DEF Types, TypeOK
<1>2. OnTheBus
  BY DEF Init, OnTheBus
<1>3. Reading /\ Setting /\ SayTimeHonest
  BY KnownFacts DEF Init, Reading, Setting, SayTimeHonest
<1> QED BY <1>1, <1>2, <1>3 DEF IInv

LEMMA TickStep == ASSUME IInv, Tick PROVE IInv'
<1>0. IsTime(clock) /\ IsTime(goal) /\ IsTime(clock') /\ IsTime(goal')
  BY LaterIsTime DEF IInv, Types, TypeOK, Tick
<1>1. Types'
  BY <1>0 DEF IInv, Types, TypeOK, Tick
<1>2. OnTheBus'
  BY DEF IInv, OnTheBus, Tick, TimeWrite, DateWrite
<1>3. Reading'
  <2>0. /\ UNCHANGED <<pc, t, xfer, missed>> /\ seen \subseteq seen'
    BY DEF Tick
  <2>1. ASSUME pc \in DOMAIN Known, ~rolled'
        PROVE  \E c \in seen' : /\ \A f \in Fields \ {Second} : c[f] = clock'[f]
                                /\ \A f \in Known[pc] : Decode(f, t[f]) = Told(c, f)
    <3>1. ~rolled /\ clock'[Second] # 0 /\ clock' = Later(clock)
      BY <2>1 DEF Tick
    <3>2. \A f \in Fields \ {Second} : clock'[f] = clock[f]
      <4>1. clock[Second] # 59
        BY <3>1, LaterFields
      <4> QED BY <3>1, <4>1, LaterFields, LaterDate
    <3> QED BY <2>0, <2>1, <3>1, <3>2 DEF IInv, Reading
  <2> QED BY <2>0, <2>1 DEF IInv, Reading, Told
<1>4. Setting'
  <2>1. ASSUME ~spoilt', HalfSet, SameTimeOfDay(clock, goal)
        PROVE  SameTimeOfDay(clock', goal') /\ DateWrite(goal') = DateWrite(goal)
    <3>1. clock' = Later(clock) /\ goal' = Later(goal) /\ clock'[Day] = clock[Day]
      BY <2>1 DEF Tick
    <3>2. goal[Second] # 59 \/ goal[Minute] # 59 \/ goal[Hour] # 23
      BY <1>0, <2>1, <3>1, Midnight DEF SameTimeOfDay
    <3>3. DateWrite(goal') = DateWrite(goal)
      BY <3>1, <3>2, LaterDate DEF DateWrite
    <3>4. SameTimeOfDay(clock', goal')
      BY <2>1, <3>1, LaterFields DEF SameTimeOfDay
    <3> QED BY <3>3, <3>4
  <2>2. /\ ~spoilt' => ~spoilt
        /\ UNCHANGED <<pc, t, reply, xfer>> /\ clock' = Later(clock) /\ goal' = Later(goal)
    BY DEF Tick
  <2>3. xfer = DateWrite(goal) => HalfSet
    BY DEF HalfSet, DateWrite
  <2>4. pc = "date" /\ xfer = None => HalfSet
    BY DEF HalfSet
  <2>5. TimeWrite(t)' = TimeWrite(t) /\ DateWrite(t)' = DateWrite(t)
    BY <2>2 DEF TimeWrite, DateWrite
  <2>6. spoilt \in BOOLEAN /\ spoilt' \in BOOLEAN
    BY <1>1 DEF IInv, Types
  <2> QED BY <2>1, <2>2, <2>3, <2>4, <2>5, <2>6 DEF IInv, Setting
<1>5. SayTimeHonest'
  BY DEF IInv, SayTimeHonest, Told, Tick
<1> QED BY <1>1, <1>2, <1>3, <1>4, <1>5 DEF IInv

LEMMA LandStep == ASSUME IInv, NEW k \in 0..3, Land(k) PROVE IInv'
<1>0. IsTime(clock) /\ ST = TRUE /\ IsTime(clock') /\ ST' = TRUE
  BY LandIsTime DEF IInv, Types, TypeOK, OnTheBus
<1>1. Types'
  <2>1. IsTime(goal')
    BY RequestsAssumption DEF IInv, Types, Land
  <2>2. xfer'.reg \in 0..6 /\ xfer'.bytes \in Seq(0..255)
    BY DEF Land, None
  <2>3. VBATEN' \in BOOLEAN /\ spoilt' \in BOOLEAN
    BY DEF IInv, Types, TypeOK, Land
  <2>4. faults' \in 0..MaxFaults /\ clock' \in seen'
    BY DEF IInv, Types, TypeOK, Land
  <2> QED BY <1>0, <2>1, <2>2, <2>3, <2>4 DEF IInv, Types, TypeOK, Land
<1>2. OnTheBus'
  BY <1>0 DEF IInv, OnTheBus, Land
<1>3. Reading'
  BY KnownFacts DEF IInv, Reading, Told, Land
<1>4. Setting'
  <2>1. xfer' = None /\ pc' = pc /\ t' = t /\ reply' = reply
    BY DEF Land
  <2>2. ASSUME pc = "date", ~spoilt'
        PROVE  SameTimeOfDay(clock', goal') /\ DateWrite(goal') = DateWrite(t)
    <3>1. goal' = t /\ xfer = TimeWrite(t) /\ IsTime(t)
      BY <2>2, RequestsAssumption DEF IInv, Types, Setting, Land
    <3>2. k = 3
      <4>1. Len(xfer.bytes) = 3
        BY <3>1 DEF TimeWrite
      <4>2. ~(k < Len(xfer.bytes))
        BY <2>2 DEF Land
      <4> QED BY <4>1, <4>2
    <3>3. SameTimeOfDay(clock', t)
      BY <1>0, <3>1, <3>2, LandTime DEF SameTimeOfDay
    <3> QED BY <3>1, <3>3
  <2>3. ASSUME pc = "dated" \/ (pc = "idle" /\ reply.kind = "set"), ~spoilt'
        PROVE  clock' = goal'
    <3>1. goal' = goal /\ xfer = DateWrite(goal) /\ SameTimeOfDay(clock, goal) /\ IsTime(goal)
      BY <2>3 DEF IInv, Types, Setting, Land
    <3>2. k = 3
      <4>1. Len(xfer.bytes) = 3
        BY <3>1 DEF DateWrite
      <4>2. ~(k < Len(xfer.bytes))
        BY <2>3 DEF Land
      <4> QED BY <4>1, <4>2
    <3>3. \A f \in Fields : clock'[f] = goal[f]
      BY <1>0, <3>1, <3>2, LandDate DEF SameTimeOfDay
    <3> QED BY <1>0, <3>1, <3>3 DEF IsTime
  <2> QED BY <2>1, <2>2, <2>3 DEF Setting, DateWrite
<1>5. SayTimeHonest'
  BY DEF IInv, SayTimeHonest, Told, Land
<1> QED BY <1>1, <1>2, <1>3, <1>4, <1>5 DEF IInv

LEMMA BeginStep == ASSUME IInv, say_time \/ set_clock PROVE IInv'
<1>1. Types'
  <2>1. /\ pc' \in Labels /\ pc' \notin {"time", "date", "dated"}
        /\ reply'.kind \in {"none", "time", "set", "err"} /\ clock' \in seen'
    BY DEF Labels, say_time, set_clock, Begin
  <2>2. rolled' \in BOOLEAN
    BY DEF say_time, set_clock, Begin
  <2>3. UNCHANGED <<t, xfer, clock, ST, VBATEN, ticks, faults, goal, spoilt>>
    BY DEF say_time, set_clock
  <2> QED BY <2>1, <2>2, <2>3 DEF IInv, Types, TypeOK
<1>2. OnTheBus'
  BY DEF IInv, OnTheBus, TimeWrite, DateWrite, say_time, set_clock, Begin
<1>3. Reading' /\ Setting' /\ SayTimeHonest'
  BY KnownFacts DEF Reading, Setting, SayTimeHonest, say_time, set_clock, Begin
<1> QED BY <1>1, <1>2, <1>3 DEF IInv

(* A register that is read, or 0 in its place. *)
LEMMA ReadAddressFacts ==
  ASSUME IInv, NEW f \in Fields, f \notin missed, ReadAddress(f)
  PROVE  /\ t' \in [Fields -> 0..255] /\ faults' \in 0..MaxFaults
         /\ Decode(f, t'[f]) = IF f \in missed' THEN 0 ELSE clock[f]
         /\ \A g \in Fields \ {f} : t'[g] = t[g] /\ (g \in missed' <=> g \in missed)
         /\ missed' \subseteq missed \cup {f}
<1>1. t \in [Fields -> 0..255] /\ faults \in 0..MaxFaults
  BY DEF IInv, Types, TypeOK
<1>2. Register(f) \in 0..255 /\ Decode(f, Register(f)) = clock[f]
  <2>1. IsTime(clock) /\ ST \in BOOLEAN
    BY DEF IInv, Types, TypeOK
  <2> QED BY <2>1, RegisterRead
<1>3. CASE t' = [t EXCEPT ![f] = Register(f)] /\ UNCHANGED <<faults, missed>>
  BY <1>1, <1>2, <1>3
<1>4. CASE /\ t' = [t EXCEPT ![f] = 0] /\ missed' = missed \cup {f}
           /\ faults < MaxFaults /\ faults' = faults + 1
  BY <1>1, <1>4, DecodeZero
<1> QED BY <1>3, <1>4 DEF ReadAddress

LEMMA GetTimeStep == ASSUME IInv, get_time PROVE IInv'
<1> DEFINE f == ReadOrder[pc]
<1>1. \/ pc = "second" /\ f = Second /\ pc' = "minute"
      \/ pc = "minute" /\ f = Minute /\ pc' = "hour"
      \/ pc = "hour" /\ f = Hour /\ pc' = "day"
      \/ pc = "day" /\ f = Day /\ pc' = "month"
      \/ pc = "month" /\ f = Month /\ pc' = "year"
      \/ pc = "year" /\ f = Year /\ pc' = "say"
  BY DEF get_time, ReadOrder, After
<1>2. /\ f \in Fields /\ pc' \in Labels
      /\ pc' \notin {"idle", "second", "date", "dated", "time"} /\ pc' \in DOMAIN Known
      /\ xfer = None
      /\ Known[pc'] = {f} \cup (IF pc = "second" THEN {} ELSE Known[pc])
      /\ f # Second => pc # "second" /\ pc \in DOMAIN Known
      /\ pc # "second" => pc \in DOMAIN Known /\ Known[pc] \subseteq Fields \ {f}
  BY <1>1, KnownFacts DEF get_time, ReadAddress, Labels
<1> HIDE DEF f
<1>0. f \notin missed /\ missed \subseteq (IF pc = "second" THEN {} ELSE Known[pc])
  BY <1>2 DEF IInv, Reading
<1>3. /\ t' \in [Fields -> 0..255] /\ faults' \in 0..MaxFaults
      /\ Decode(f, t'[f]) = IF f \in missed' THEN 0 ELSE clock[f]
      /\ \A g \in Fields \ {f} : t'[g] = t[g] /\ (g \in missed' <=> g \in missed)
      /\ missed' \subseteq missed \cup {f}
  BY <1>0, <1>2, ReadAddressFacts DEF get_time, f
<1>4. UNCHANGED <<reply, xfer, clock, ST, VBATEN, ticks, seen, rolled, goal, spoilt>>
  BY DEF get_time
<1>5. Types'
  BY <1>2, <1>3, <1>4 DEF IInv, Types, TypeOK
<1>6. OnTheBus'
  BY <1>4 DEF IInv, OnTheBus, TimeWrite, DateWrite
<1>7. Reading'
  <2> DEFINE told(c, g) == IF g \in missed' THEN 0 ELSE c[g]
  <2>0. clock \in seen /\ missed' \subseteq Known[pc']
    BY <1>0, <1>2, <1>3 DEF IInv, Types
  <2>1. \A g \in Known[pc'] : \E c \in seen : Decode(g, t'[g]) = told(c, g)
    <3> SUFFICES ASSUME NEW g \in Known[pc']
                 PROVE  \E c \in seen : Decode(g, t'[g]) = told(c, g)
      OBVIOUS
    <3>1. CASE g = f
      BY <1>3, <2>0, <3>1
    <3>2. CASE g # f
      <4>1. pc # "second" /\ g \in Known[pc] /\ g \in Fields \ {f}
        BY <1>2, <3>2
      <4>2. PICK c \in seen : Decode(g, t[g]) = Told(c, g)
        BY <1>2, <4>1 DEF IInv, Reading
      <4> QED BY <1>3, <4>1, <4>2 DEF Told
    <3> QED BY <3>1, <3>2
  <2>2. ASSUME ~rolled
        PROVE  \E c \in seen : /\ \A g \in Fields \ {Second} : c[g] = clock[g]
                               /\ \A g \in Known[pc'] : Decode(g, t'[g]) = told(c, g)
    <3>1. CASE f = Second
      <4>1. Known[pc'] = {Second}
        BY <1>1, <1>2, <3>1, KnownFacts DEF f
      <4> QED BY <1>3, <2>0, <3>1, <4>1
    <3>2. CASE f # Second
      <4>1. PICK c \in seen : /\ \A g \in Fields \ {Second} : c[g] = clock[g]
                              /\ \A g \in Known[pc] : Decode(g, t[g]) = Told(c, g)
        BY <1>2, <2>2, <3>2 DEF IInv, Reading
      <4>2. ASSUME NEW g \in Known[pc'] PROVE Decode(g, t'[g]) = told(c, g)
        <5>1. CASE g = f
          BY <1>2, <1>3, <3>2, <4>1, <5>1
        <5>2. CASE g # f
          <6>1. pc # "second" /\ g \in Known[pc] /\ g \in Fields \ {f}
            BY <1>2, <5>2
          <6> QED BY <1>3, <4>1, <6>1 DEF Told
        <5> QED BY <5>1, <5>2
      <4> QED BY <4>1, <4>2
    <3> QED BY <3>1, <3>2
  <2> QED BY <1>2, <1>4, <2>0, <2>1, <2>2 DEF Reading, Told
<1>8. Setting' /\ SayTimeHonest'
  BY <1>2 DEF Setting, SayTimeHonest
<1> QED BY <1>5, <1>6, <1>7, <1>8 DEF IInv

(* The answer of say_time. *)
LEMMA SayStep == ASSUME IInv, Say PROVE IInv'
<1>1. Types'
  BY DEF IInv, Types, TypeOK, Labels, NoTime, Say
<1>2. OnTheBus'
  BY DEF IInv, OnTheBus, TimeWrite, DateWrite, Say
<1>3. Reading' /\ Setting'
  BY KnownFacts DEF Reading, Setting, Say
<1>4. SayTimeHonest'
  <2>1. /\ \A f \in Fields : \E c \in seen : Decode(f, t[f]) = Told(c, f)
        /\ ~rolled => \E c \in seen : \A f \in Fields : Decode(f, t[f]) = Told(c, f)
    BY KnownFacts DEF IInv, Reading, Say
  <2>2. /\ UNCHANGED <<seen, rolled, missed>>
        /\ \A f \in Fields : reply'.time[f] = Decode(f, t[f])
    BY DEF Say
  <2> QED BY <2>1, <2>2 DEF SayTimeHonest, Told
<1> QED BY <1>1, <1>2, <1>3, <1>4 DEF IInv

LEMMA ResetStep == ASSUME IInv, reset_rtc PROVE IInv'
<1>1. xfer' \in {BatteryWrite, SecondsWrite}
  BY DEF reset_rtc, Post, BatteryWrite, SecondsWrite
<1>2. Types'
  <2>1. xfer'.reg \in 0..6 /\ xfer'.bytes \in Seq(0..255)
    <3>1. CASE xfer' = BatteryWrite
      BY <3>1 DEF BatteryWrite
    <3>2. CASE xfer' = SecondsWrite
      BY <3>2 DEF SecondsWrite
    <3> QED BY <1>1, <3>1, <3>2
  <2> QED BY <2>1 DEF IInv, Types, TypeOK, Labels, reset_rtc
<1>3. OnTheBus'
  BY <1>1 DEF IInv, OnTheBus, reset_rtc
<1>4. Reading' /\ Setting' /\ SayTimeHonest'
  BY KnownFacts DEF Reading, Setting, SayTimeHonest, reset_rtc
<1> QED BY <1>2, <1>3, <1>4 DEF IInv

LEMMA ParseStep == ASSUME IInv, Parse PROVE IInv'
<1>0. \A r \in Requests : r \in [Fields -> 0..255]
  BY RequestsAssumption, TimeFacts DEF IsTime
<1>1. Types'
  <2>1. /\ pc' \in Labels /\ (pc' \in {"time", "date", "dated"} => t' \in Requests)
        /\ t' \in [Fields -> 0..255]
    <3>1. CASE t' \in Requests /\ pc' = "time"
      BY <1>0, <3>1 DEF Labels
    <3>2. CASE t' = t /\ pc' = "idle"
      BY <3>2 DEF IInv, Types, TypeOK, Labels
    <3> QED BY <3>1, <3>2 DEF Parse
  <2>2. reply'.kind \in {"none", "time", "set", "err"}
    BY DEF IInv, Types, TypeOK, Parse
  <2> QED BY <2>1, <2>2 DEF IInv, Types, TypeOK, Parse
<1>2. OnTheBus'
  BY DEF IInv, OnTheBus, TimeWrite, DateWrite, Parse
<1>3. Reading' /\ Setting' /\ SayTimeHonest'
  BY KnownFacts DEF Reading, Setting, SayTimeHonest, Parse
<1> QED BY <1>1, <1>2, <1>3 DEF IInv

LEMMA SetTimeOfDayStep == ASSUME IInv, SetTimeOfDay PROVE IInv'
<1>1. t \in Requests /\ IsTime(t)
  BY RequestsAssumption DEF IInv, Types, SetTimeOfDay
<1>2. t[Second] \in 0..59 /\ \A f \in Fields : t[f] \in 0..99
  BY <1>1, TimeFacts
<1>3. /\ dec2bcd(t[Second]) \in 0..127 /\ dec2bcd(t[Minute]) \in 0..255
      /\ dec2bcd(t[Hour]) \in 0..255
  <2>1. t[Second] \in 0..99 /\ t[Second] <= 79 /\ t[Minute] \in 0..99 /\ t[Hour] \in 0..99
    BY <1>2
  <2>2. dec2bcd(t[Second]) \in 0..153 /\ dec2bcd(t[Second]) < 128
    BY <2>1, BcdRange
  <2>3. dec2bcd(t[Minute]) \in 0..153 /\ dec2bcd(t[Hour]) \in 0..153
    BY <2>1, BcdRange
  <2> QED BY <2>2, <2>3
<1>4. xfer' = TimeWrite(t)
  <2>1. Encode(Second) = dec2bcd(t[Second]) /\ Encode(Minute) = dec2bcd(t[Minute])
        /\ Encode(Hour) = dec2bcd(t[Hour])
    BY <1>1, EncodeField
  <2>2. uint8_t(dec2bcd(t[Second]) + 128) = dec2bcd(t[Second]) + 128
    BY <1>3 DEF uint8_t
  <2> QED BY <2>1, <2>2 DEF SetTimeOfDay, Post, TimeWrite
<1>5. xfer'.reg \in 0..6 /\ xfer'.bytes \in Seq(0..255)
  BY <1>3, <1>4 DEF TimeWrite
<1>6. Types'
  BY <1>5 DEF IInv, Types, TypeOK, Labels, SetTimeOfDay
<1>7. OnTheBus'
  BY <1>1, <1>4 DEF IInv, OnTheBus, SetTimeOfDay, TimeWrite, DateWrite
<1>8. Reading' /\ Setting' /\ SayTimeHonest'
  BY <1>4, KnownFacts DEF Reading, Setting, SayTimeHonest, SetTimeOfDay, TimeWrite
<1> QED BY <1>6, <1>7, <1>8 DEF IInv

LEMMA SetDateStep == ASSUME IInv, SetDate PROVE IInv'
<1>1. t \in Requests /\ IsTime(t)
  BY RequestsAssumption DEF IInv, Types, SetDate
<1>2. \A f \in Fields : t[f] \in 0..99
  BY <1>1, TimeFacts
<1>3. /\ dec2bcd(t[Day]) \in 0..255 /\ dec2bcd(t[Month]) \in 0..255
      /\ dec2bcd(t[Year]) \in 0..255
  <2>1. t[Day] \in 0..99 /\ t[Month] \in 0..99 /\ t[Year] \in 0..99
    BY <1>2
  <2>2. /\ dec2bcd(t[Day]) \in 0..153 /\ dec2bcd(t[Month]) \in 0..153
        /\ dec2bcd(t[Year]) \in 0..153
    BY <2>1, BcdRange
  <2> QED BY <2>2
<1>4. xfer' = DateWrite(t) /\ xfer = None
  <2>1. Encode(Day) = dec2bcd(t[Day]) /\ Encode(Month) = dec2bcd(t[Month])
        /\ Encode(Year) = dec2bcd(t[Year])
    BY <1>1, EncodeField
  <2> QED BY <2>1 DEF SetDate, Post, DateWrite
<1>5. xfer'.reg \in 0..6 /\ xfer'.bytes \in Seq(0..255)
  BY <1>3, <1>4 DEF DateWrite
<1>6. Types'
  BY <1>5 DEF IInv, Types, TypeOK, Labels, SetDate
<1>7. OnTheBus'
  BY <1>1, <1>4 DEF IInv, OnTheBus, SetDate, TimeWrite, DateWrite
<1>8. Setting'
  <2>1. None # TimeWrite(t)
    BY DEF None, TimeWrite
  <2> QED BY <1>4, <2>1 DEF IInv, Setting, SetDate, SameTimeOfDay, DateWrite
<1>9. Reading' /\ SayTimeHonest'
  BY KnownFacts DEF Reading, SayTimeHonest, SetDate
<1> QED BY <1>6, <1>7, <1>8, <1>9 DEF IInv

LEMMA SaySetStep == ASSUME IInv, SaySet PROVE IInv'
<1>1. Types'
  BY DEF IInv, Types, TypeOK, Labels, NoTime, SaySet
<1>2. OnTheBus'
  BY DEF IInv, OnTheBus, TimeWrite, DateWrite, SaySet
<1>3. Reading' /\ Setting' /\ SayTimeHonest'
  BY KnownFacts DEF IInv, Reading, Setting, SameTimeOfDay, DateWrite, SayTimeHonest, SaySet
<1> QED BY <1>1, <1>2, <1>3 DEF IInv

LEMMA StutterStep == ASSUME IInv, UNCHANGED vars PROVE IInv'
BY DEF vars, IInv, Types, TypeOK, OnTheBus, Reading, Setting, SameTimeOfDay, TimeWrite,
       DateWrite, SayTimeHonest, Told

(* The invariant, whatever the commands, the seconds and the faults. *)
THEOREM ClockInvariant == Spec => []IInv
<1>1. IInv /\ [Next]_vars => IInv'
  BY TickStep, LandStep, BeginStep, GetTimeStep, SayStep, ResetStep, ParseStep,
     SetTimeOfDayStep, SetDateStep, SaySetStep, StutterStep DEF Next, Program
<1> QED BY InitIInv, <1>1, PTL DEF Spec

(* The registers, the locals of get_time and set_time and the bytes on the *)
(* bus keep their types: a byte that set_time sends fits in eight bits.    *)
THEOREM ClockTypes == Spec => []TypeOK
<1>1. IInv => TypeOK
  BY DEF IInv, Types
<1> QED BY <1>1, ClockInvariant, PTL

(* get_time reads the registers one by one while the chip counts: say_time *)
(* still answers what the chip showed, of one time unless the seconds      *)
(* rolled over meanwhile, and 0 for exactly what could not be read.        *)
THEOREM TimeToldIsATime == Spec => []SayTimeHonest
<1>1. IInv => SayTimeHonest
  BY DEF IInv
<1> QED BY <1>1, ClockInvariant, PTL

(* set_time writes in two transactions that it does not wait for: once     *)
(* they have landed whole the clock runs and shows the time asked for,     *)
(* unless midnight fell between them.                                      *)
THEOREM ClockIsSet == Spec => []SetClockWorks
<1>1. IInv => SetClockWorks
  <2>1. ASSUME NEW r PROVE DateWrite(r) # None
    BY DEF DateWrite, None
  <2> QED BY <2>1 DEF IInv, Setting, OnTheBus, SetClockWorks
<1> QED BY <1>1, ClockInvariant, PTL
==============================================================================
