------------------------------ MODULE LoopProofs ------------------------------
(***************************************************************************)
(* Proofs about the parts of the main loop of ISS-Notify.c: the lights and *)
(* their white balance (Lights, with the frames of Led), the pass alarm    *)
(* (Alarm) and the rainbow (Rainbow).  The three are independent: each is  *)
(* proved over variables of its own, for every value of its constants.     *)
(***************************************************************************)
EXTENDS Lights, Alarm, Rainbow, WellFoundedInduction, TLAPS

-----------------------------------------------------------------------------
(* The frame of the LEDs *)

Piece == [value : Int, bits : Nat]
Hues  == [Channels -> Uint16]
Bytes == [Channels -> 0..255]

(* What chips that show these lights with this balance hold. *)
Shows(held, lights, wb) ==
  \A k \in 0..1 :
    /\ k \in DOMAIN held
    /\ held[k].command = TLC_WRITE
    /\ held[k].brightness = [c \in Channels |-> wb[c] % 128]
    /\ \A j \in 0..3 : held[k].grey[j] = lights[4 * k + j]

(* f is s, of n pieces, and then t, of m. *)
Joins(f, s, t, n, m) ==
  /\ Len(f) = n + m
  /\ \A i \in 1..n : f[i] = s[i]
  /\ \A i \in n + 1..n + m : f[i] = t[i - n]

LEMMA Cat ==
  ASSUME NEW S, NEW s \in Seq(S), NEW t \in Seq(S), NEW n \in Nat, NEW m \in Nat,
         Len(s) = n, Len(t) = m
  PROVE  s \o t \in Seq(S) /\ Joins(s \o t, s, t, n, m)
BY DEF Joins

LEMMA After ==
  ASSUME NEW f, NEW s, NEW t, Joins(f, s, t, 17, 17), NEW n \in 1..17
  PROVE  f[17 + n] = t[n]
BY SMT DEF Joins

LEMMA Powers == 2^5 = 32 /\ 2^6 = 64 /\ 2^7 = 128
OBVIOUS

Word(w, len) == [value |-> w % 2^len, bits |-> len]

LEMMA WordIs ==
  ASSUME NEW w \in Int, NEW len \in {5, 6, 7, 16}
  PROVE  /\ write_word(w, len) \in Seq(Piece) /\ Len(write_word(w, len)) = 1
         /\ write_word(w, len)[1] = Word(w, len)
<1>1. 2^len \in Nat \ {0}
  <2>1. CASE len = 5
    BY <2>1, Powers
  <2>2. CASE len = 6
    BY <2>2, Powers
  <2>3. CASE len = 7
    BY <2>3, Powers
  <2>4. CASE len = 16
    BY <2>4, Powers
  <2> QED BY <2>1, <2>2, <2>3, <2>4
<1>2. w % 2^len \in Int
  BY <1>1
<1>3. Word(w, len) \in Piece
  BY <1>2 DEF Word, Piece
<1>4. write_word(w, len) = <<Word(w, len)>>
  BY DEF write_word, Word
<1> QED BY <1>3, <1>4

LEMMA HueMod == \A w \in Uint16 : w % 2^16 = w /\ w \in Int
<1>1. \A w \in Uint16 : w \in Int /\ 0 <= w /\ w < 2^16
  BY SMT DEF Uint16
<1>2. ASSUME NEW w \in Int, 0 <= w, w < 2^16
      PROVE  w % 2^16 = w
  BY SMT, <1>2
<1> QED BY SMT, <1>1, <1>2

LEMMA HueWhole == \A w \in Uint16 : Word(w, 16).value = w
BY SMT, Powers, HueMod DEF Word

LEMMA LightIs ==
  ASSUME NEW x \in Hues
  PROVE  /\ Light(x) \in Seq(Piece) /\ Len(Light(x)) = 3
         /\ Light(x)[1] = Word(x.blue, 16)
         /\ Light(x)[2] = Word(x.green, 16)
         /\ Light(x)[3] = Word(x.red, 16)
<1> DEFINE b == write_word(x.blue, 16)
           g == write_word(x.green, 16)
           r == write_word(x.red, 16)
           bg == b \o g
           bgr == bg \o r
<1>0. x.blue \in Int /\ x.green \in Int /\ x.red \in Int
  <2>1. x.blue \in Uint16 /\ x.green \in Uint16 /\ x.red \in Uint16
    BY DEF Hues, Channels
  <2>2. Uint16 \subseteq Int
    BY DEF Uint16
  <2> QED BY <2>1, <2>2
<1>1. /\ b \in Seq(Piece) /\ Len(b) = 1 /\ b[1] = Word(x.blue, 16)
      /\ g \in Seq(Piece) /\ Len(g) = 1 /\ g[1] = Word(x.green, 16)
      /\ r \in Seq(Piece) /\ Len(r) = 1 /\ r[1] = Word(x.red, 16)
  BY <1>0, WordIs
<1>2. Light(x) = bgr
  BY DEF Light
<1> HIDE DEF b, g, r
<1>3. bg \in Seq(Piece) /\ Joins(bg, b, g, 1, 1)
  BY <1>1, Cat
<1> HIDE DEF bg
<1>4. Len(bg) = 2 /\ bg[1] = b[1] /\ bg[2] = g[1]
  BY <1>3 DEF Joins
<1>5. bgr \in Seq(Piece) /\ Joins(bgr, bg, r, 2, 1)
  BY <1>1, <1>3, <1>4, Cat
<1> HIDE DEF bgr
<1>6. Len(bgr) = 3 /\ bgr[1] = bg[1] /\ bgr[2] = bg[2] /\ bgr[3] = r[1]
  BY <1>5 DEF Joins
<1> QED BY <1>1, <1>2, <1>4, <1>5, <1>6

LEMMA HeadIs ==
  ASSUME NEW wb \in Bytes
  PROVE  /\ Head32(wb) \in Seq(Piece) /\ Len(Head32(wb)) = 5
         /\ Head32(wb)[1] = Word(TLC_WRITE, 6)
         /\ Head32(wb)[2] = Word(TLC_TMGRST + TLC_DSPRPT, 5)
         /\ Head32(wb)[3] = Word(wb.blue, 7)
         /\ Head32(wb)[4] = Word(wb.green, 7)
         /\ Head32(wb)[5] = Word(wb.red, 7)
<1> DEFINE p1 == write_word(TLC_WRITE, 6)
           p2 == write_word(TLC_TMGRST + TLC_DSPRPT, 5)
           p3 == write_word(wb.blue, 7)
           p4 == write_word(wb.green, 7)
           p5 == write_word(wb.red, 7)
           s2 == p1 \o p2
           s3 == s2 \o p3
           s4 == s3 \o p4
           s5 == s4 \o p5
<1>0. /\ TLC_WRITE \in Int /\ TLC_TMGRST + TLC_DSPRPT \in Int
      /\ wb.blue \in Int /\ wb.green \in Int /\ wb.red \in Int
  BY DEF Bytes, Channels, TLC_WRITE, TLC_TMGRST, TLC_DSPRPT
<1>1. /\ p1 \in Seq(Piece) /\ Len(p1) = 1 /\ p1[1] = Word(TLC_WRITE, 6)
      /\ p2 \in Seq(Piece) /\ Len(p2) = 1 /\ p2[1] = Word(TLC_TMGRST + TLC_DSPRPT, 5)
  BY <1>0, WordIs
<1>2. /\ p3 \in Seq(Piece) /\ Len(p3) = 1 /\ p3[1] = Word(wb.blue, 7)
      /\ p4 \in Seq(Piece) /\ Len(p4) = 1 /\ p4[1] = Word(wb.green, 7)
      /\ p5 \in Seq(Piece) /\ Len(p5) = 1 /\ p5[1] = Word(wb.red, 7)
  BY <1>0, WordIs
<1>3. Head32(wb) = s5
  BY DEF Head32
<1> HIDE DEF p1, p2, p3, p4, p5
<1>4. s2 \in Seq(Piece) /\ Len(s2) = 2 /\ s2[1] = p1[1] /\ s2[2] = p2[1]
  <2>1. s2 \in Seq(Piece) /\ Joins(s2, p1, p2, 1, 1)
    BY <1>1, Cat
  <2> HIDE DEF s2
  <2> QED BY <2>1 DEF Joins
<1> HIDE DEF s2
<1>5. s3 \in Seq(Piece) /\ Len(s3) = 3 /\ s3[1] = s2[1] /\ s3[2] = s2[2] /\ s3[3] = p3[1]
  <2>1. s3 \in Seq(Piece) /\ Joins(s3, s2, p3, 2, 1)
    BY <1>2, <1>4, Cat
  <2> HIDE DEF s3
  <2> QED BY <2>1 DEF Joins
<1> HIDE DEF s3
<1>6. /\ s4 \in Seq(Piece) /\ Len(s4) = 4
      /\ s4[1] = s3[1] /\ s4[2] = s3[2] /\ s4[3] = s3[3] /\ s4[4] = p4[1]
  <2>1. s4 \in Seq(Piece) /\ Joins(s4, s3, p4, 3, 1)
    BY <1>2, <1>5, Cat
  <2> HIDE DEF s4
  <2> QED BY <2>1 DEF Joins
<1> HIDE DEF s4
<1>7. /\ s5 \in Seq(Piece) /\ Len(s5) = 5
      /\ s5[1] = s4[1] /\ s5[2] = s4[2] /\ s5[3] = s4[3] /\ s5[4] = s4[4] /\ s5[5] = p5[1]
  <2>1. s5 \in Seq(Piece) /\ Joins(s5, s4, p5, 4, 1)
    BY <1>2, <1>6, Cat
  <2> HIDE DEF s5
  <2> QED BY <2>1 DEF Joins
<1> HIDE DEF s5
<1> QED BY <1>1, <1>2, <1>3, <1>4, <1>5, <1>6, <1>7

(* Seventeen pieces, of the widths that a chip cuts its bits into. *)
IsChip(s, lights, wb, i) ==
  /\ s \in Seq(Piece) /\ Len(s) = 17
  /\ s[1] = Word(TLC_WRITE, 6) /\ s[2] = Word(TLC_TMGRST + TLC_DSPRPT, 5)
  /\ s[3] = Word(wb.blue, 7) /\ s[4] = Word(wb.green, 7) /\ s[5] = Word(wb.red, 7)
  /\ \A j \in 0..3 : /\ s[6 + 3 * j] = Word(lights[i + j].blue, 16)
                     /\ s[7 + 3 * j] = Word(lights[i + j].green, 16)
                     /\ s[8 + 3 * j] = Word(lights[i + j].red, 16)

LEMMA ChipIs ==
  ASSUME NEW lights \in [LEDs -> Hues], NEW wb \in Bytes, NEW i \in {0, 4}
  PROVE  IsChip(Chip(lights, wb, i), lights, wb, i)
<1> DEFINE h  == Head32(wb)
           l0 == Light(lights[i])
           l1 == Light(lights[i + 1])
           l2 == Light(lights[i + 2])
           l3 == Light(lights[i + 3])
           s0 == h \o l0
           s1 == s0 \o l1
           s2 == s1 \o l2
           s3 == s2 \o l3
<1>0. /\ lights[i] \in Hues /\ lights[i + 1] \in Hues
      /\ lights[i + 2] \in Hues /\ lights[i + 3] \in Hues
  BY DEF LEDs
<1>1. /\ h \in Seq(Piece) /\ Len(h) = 5
      /\ h[1] = Word(TLC_WRITE, 6) /\ h[2] = Word(TLC_TMGRST + TLC_DSPRPT, 5)
      /\ h[3] = Word(wb.blue, 7) /\ h[4] = Word(wb.green, 7) /\ h[5] = Word(wb.red, 7)
  BY HeadIs
<1>2. /\ l0 \in Seq(Piece) /\ Len(l0) = 3 /\ l0[1] = Word(lights[i].blue, 16)
      /\ l0[2] = Word(lights[i].green, 16) /\ l0[3] = Word(lights[i].red, 16)
  BY <1>0, LightIs
<1>3. /\ l1 \in Seq(Piece) /\ Len(l1) = 3 /\ l1[1] = Word(lights[i + 1].blue, 16)
      /\ l1[2] = Word(lights[i + 1].green, 16) /\ l1[3] = Word(lights[i + 1].red, 16)
  BY <1>0, LightIs
<1>4. /\ l2 \in Seq(Piece) /\ Len(l2) = 3 /\ l2[1] = Word(lights[i + 2].blue, 16)
      /\ l2[2] = Word(lights[i + 2].green, 16) /\ l2[3] = Word(lights[i + 2].red, 16)
  BY <1>0, LightIs
<1>5. /\ l3 \in Seq(Piece) /\ Len(l3) = 3 /\ l3[1] = Word(lights[i + 3].blue, 16)
      /\ l3[2] = Word(lights[i + 3].green, 16) /\ l3[3] = Word(lights[i + 3].red, 16)
  BY <1>0, LightIs
<1>6. Chip(lights, wb, i) = s3
  BY DEF Chip
<1> HIDE DEF h, l0, l1, l2, l3
<1>7. /\ s0 \in Seq(Piece) /\ Len(s0) = 8 /\ \A n \in 1..5 : s0[n] = h[n]
      /\ s0[6] = l0[1] /\ s0[7] = l0[2] /\ s0[8] = l0[3]
  <2>1. s0 \in Seq(Piece) /\ Joins(s0, h, l0, 5, 3)
    BY <1>1, <1>2, Cat
  <2> HIDE DEF s0
  <2> QED BY <2>1 DEF Joins
<1> HIDE DEF s0
<1>8. /\ s1 \in Seq(Piece) /\ Len(s1) = 11 /\ \A n \in 1..8 : s1[n] = s0[n]
      /\ s1[9] = l1[1] /\ s1[10] = l1[2] /\ s1[11] = l1[3]
  <2>1. s1 \in Seq(Piece) /\ Joins(s1, s0, l1, 8, 3)
    BY <1>3, <1>7, Cat
  <2> HIDE DEF s1
  <2> QED BY <2>1 DEF Joins
<1> HIDE DEF s1
<1>9. /\ s2 \in Seq(Piece) /\ Len(s2) = 14 /\ \A n \in 1..11 : s2[n] = s1[n]
      /\ s2[12] = l2[1] /\ s2[13] = l2[2] /\ s2[14] = l2[3]
  <2>1. s2 \in Seq(Piece) /\ Joins(s2, s1, l2, 11, 3)
    BY <1>4, <1>8, Cat
  <2> HIDE DEF s2
  <2> QED BY <2>1 DEF Joins
<1> HIDE DEF s2
<1>10. /\ s3 \in Seq(Piece) /\ Len(s3) = 17 /\ \A n \in 1..14 : s3[n] = s2[n]
       /\ s3[15] = l3[1] /\ s3[16] = l3[2] /\ s3[17] = l3[3]
  <2>1. s3 \in Seq(Piece) /\ Joins(s3, s2, l3, 14, 3)
    BY <1>5, <1>9, Cat
  <2> HIDE DEF s3
  <2> QED BY <2>1 DEF Joins
<1> HIDE DEF s3
<1>11. /\ s3[1] = h[1] /\ s3[2] = h[2] /\ s3[3] = h[3] /\ s3[4] = h[4] /\ s3[5] = h[5]
       /\ s3[6] = l0[1] /\ s3[7] = l0[2] /\ s3[8] = l0[3]
       /\ s3[9] = l1[1] /\ s3[10] = l1[2] /\ s3[11] = l1[3]
       /\ s3[12] = l2[1] /\ s3[13] = l2[2] /\ s3[14] = l2[3]
  <2>1. s3[12] = l2[1] /\ s3[13] = l2[2] /\ s3[14] = l2[3] /\ \A n \in 1..11 : s3[n] = s1[n]
    BY <1>9, <1>10
  <2>2. s3[9] = l1[1] /\ s3[10] = l1[2] /\ s3[11] = l1[3] /\ \A n \in 1..8 : s3[n] = s0[n]
    BY <1>8, <2>1
  <2>3. s3[6] = l0[1] /\ s3[7] = l0[2] /\ s3[8] = l0[3] /\ \A n \in 1..5 : s3[n] = h[n]
    BY <1>7, <2>2
  <2> QED BY <2>1, <2>2, <2>3
<1>12. ASSUME NEW j \in 0..3
       PROVE  /\ s3[6 + 3 * j] = Word(lights[i + j].blue, 16)
              /\ s3[7 + 3 * j] = Word(lights[i + j].green, 16)
              /\ s3[8 + 3 * j] = Word(lights[i + j].red, 16)
  <2>1. CASE j = 0
    BY <1>2, <1>11, <2>1
  <2>2. CASE j = 1
    BY <1>3, <1>11, <2>2
  <2>3. CASE j = 2
    BY <1>4, <1>11, <2>3
  <2>4. CASE j = 3
    BY <1>5, <1>10, <2>4
  <2> QED BY <2>1, <2>2, <2>3, <2>4
<1> QED BY <1>1, <1>6, <1>10, <1>11, <1>12 DEF IsChip

LEMMA LayoutIs ==
  /\ Layout \in Seq(Nat) /\ Len(Layout) = 17
  /\ Layout[1] = 6 /\ Layout[2] = 5 /\ \A n \in 3..5 : Layout[n] = 7
  /\ \A n \in 6..17 : Layout[n] = 16
<1> DEFINE s == <<6, 5, 7, 7, 7>>
           t == [k \in 1..12 |-> 16]
<1>1. s \in Seq(Nat) /\ Len(s) = 5 /\ s[1] = 6 /\ s[2] = 5 /\ s[3] = 7 /\ s[4] = 7 /\ s[5] = 7
  OBVIOUS
<1>2. t \in Seq(Nat) /\ Len(t) = 12 /\ \A n \in 1..12 : t[n] = 16
  OBVIOUS
<1>3. Layout = s \o t
  BY DEF Layout
<1> HIDE DEF s, t
<1>4. Layout \in Seq(Nat) /\ Joins(Layout, s, t, 5, 12)
  <2>1. s \o t \in Seq(Nat) /\ Joins(s \o t, s, t, 5, 12)
    BY <1>1, <1>2, Cat
  <2> QED BY <1>3, <2>1, Zenon
<1>5. Len(Layout) = 17 /\ \A n \in 1..5 : Layout[n] = s[n]
  BY <1>4 DEF Joins
<1>6. \A n \in 6..17 : Layout[n] = t[n - 5] /\ n - 5 \in 1..12
  BY <1>4 DEF Joins
<1>7. \A n \in 6..17 : Layout[n] = 16
  BY <1>2, <1>6
<1>8. \A n \in 3..5 : Layout[n] = 7
  <2>1. \A n \in 3..5 : n = 3 \/ n = 4 \/ n = 5
    OBVIOUS
  <2> QED BY <1>1, <1>5, <2>1
<1> QED BY <1>1, <1>4, <1>5, <1>7, <1>8

(* The widths are the chip's. *)
LEMMA ChipFits ==
  ASSUME NEW s, NEW lights, NEW wb, NEW i, IsChip(s, lights, wb, i)
  PROVE  \A n \in 1..17 : s[n].bits = Layout[n]
<1> SUFFICES ASSUME NEW n \in 1..17 PROVE s[n].bits = Layout[n]
  OBVIOUS
<1>1. CASE n \in 1..5
  <2>1. n = 1 \/ n = 2 \/ n = 3 \/ n = 4 \/ n = 5
    BY <1>1
  <2>2. /\ s[1].bits = 6 /\ s[2].bits = 5
        /\ s[3].bits = 7 /\ s[4].bits = 7 /\ s[5].bits = 7
    BY DEF IsChip, Word
  <2>3. Layout[3] = 7 /\ Layout[4] = 7 /\ Layout[5] = 7
    BY LayoutIs
  <2> QED BY <2>1, <2>2, <2>3, LayoutIs
<1>2. CASE n \in 6..17
  <2>1. PICK j \in 0..3 : n = 6 + 3 * j \/ n = 7 + 3 * j \/ n = 8 + 3 * j
    BY <1>2
  <2>2. s[n].bits = 16
    BY <2>1 DEF IsChip, Word
  <2> QED BY <1>2, <2>2, LayoutIs
<1> QED BY <1>1, <1>2

LEMMA ledIs ==
  ASSUME NEW lights \in [LEDs -> Hues], NEW wb \in Bytes
  PROVE  Shows(Latched(led(lights, wb)), lights, wb)
<1> DEFINE c == Chip(lights, wb, 0)
           d == Chip(lights, wb, 4)
           f == led(lights, wb)
<1>1. IsChip(c, lights, wb, 0) /\ IsChip(d, lights, wb, 4)
  BY ChipIs
<1>2. f = c \o d
  BY DEF led
<1> HIDE DEF c, d, f
<1>3. /\ f \in Seq(Piece) /\ Len(f) = 34
      /\ \A n \in 1..17 : f[n] = c[n] /\ f[17 + n] = d[n]
  <2>1. c \in Seq(Piece) /\ d \in Seq(Piece) /\ Len(c) = 17 /\ Len(d) = 17
    BY <1>1 DEF IsChip
  <2>2. f \in Seq(Piece) /\ Joins(f, c, d, 17, 17)
    <3>1. c \o d \in Seq(Piece) /\ Joins(c \o d, c, d, 17, 17)
      BY <2>1, Cat
    <3> QED BY <1>2, <3>1, Zenon
  <2>3. ASSUME NEW n \in 1..17 PROVE f[17 + n] = d[n]
    BY <2>2, After, Zenon
  <2> QED BY <2>2, <2>3 DEF Joins
<1>4. WellFormed(f)
  <2> DEFINE u == [n \in DOMAIN f |-> f[n].bits]
             v == Layout \o Layout
  <2>1. /\ v \in Seq(Nat) /\ Len(v) = 34
        /\ \A n \in 1..17 : v[n] = Layout[n] /\ v[17 + n] = Layout[n]
    <3>1. v \in Seq(Nat) /\ Joins(v, Layout, Layout, 17, 17)
      BY LayoutIs, Cat
    <3> HIDE DEF v
    <3>2. ASSUME NEW n \in 1..17 PROVE v[17 + n] = Layout[n]
      BY <3>1, After, Zenon
    <3> QED BY <3>1, <3>2 DEF Joins
  <2> HIDE DEF v
  <2>2. DOMAIN f = 1..34 /\ DOMAIN v = 1..34
    BY <1>3, <2>1
  <2>3. ASSUME NEW n \in 1..34 PROVE u[n] = v[n]
    <3>1. CASE n \in 1..17
      <4>1. f[n] = c[n] /\ v[n] = Layout[n] /\ c[n].bits = Layout[n]
        BY <1>1, <1>3, <2>1, <3>1, ChipFits
      <4> QED BY <2>2, <4>1
    <3>2. CASE n \in 18..34
      <4>1. n - 17 \in 1..17 /\ 17 + (n - 17) = n
        BY <3>2
      <4>2. f[n] = d[n - 17] /\ v[n] = Layout[n - 17] /\ d[n - 17].bits = Layout[n - 17]
        BY <1>1, <1>3, <2>1, <4>1, ChipFits
      <4> QED BY <2>2, <4>2
    <3> QED BY <3>1, <3>2
  <2>4. v = [n \in 1..34 |-> v[n]]
    BY <2>1, <2>2
  <2>5. u = v
    BY <2>2, <2>3, <2>4
  <2> QED BY <2>5 DEF WellFormed, v
<1>5. ASSUME NEW k \in 0..1
      PROVE  /\ k \in DOMAIN Latched(f)
             /\ Latched(f)[k].command = TLC_WRITE
             /\ Latched(f)[k].brightness = [x \in Channels |-> wb[x] % 128]
             /\ \A j \in 0..3 : Latched(f)[k].grey[j] = lights[4 * k + j]
  <2> DEFINE at == k * 17
             s == IF k = 0 THEN c ELSE d
  <2>0. IsChip(s, lights, wb, 4 * k) /\ \A n \in 1..17 : f[at + n] = s[n]
    <3>1. CASE k = 0
      BY <1>1, <1>3, <3>1
    <3>2. CASE k = 1
      BY <1>1, <1>3, <3>2
    <3> QED BY <3>1, <3>2
  <2>1. /\ k \in DOMAIN Latched(f)
        /\ Latched(f)[k].command = f[at + 1].value
        /\ Latched(f)[k].brightness = Triple(f, at + 3)
        /\ \A j \in 0..3 : Latched(f)[k].grey[j] = Triple(f, at + 6 + 3 * j)
    BY <1>4, LayoutIs DEF Latched
  <2> HIDE DEF s
  <2>2. f[at + 1].value = TLC_WRITE
    <3> HIDE DEF at
    <3>1. f[at + 1] = s[1]
      BY <2>0
    <3>2. s[1] = Word(TLC_WRITE, 6)
      BY <2>0 DEF IsChip
    <3>3. Word(TLC_WRITE, 6).value = TLC_WRITE
      BY Powers DEF Word, TLC_WRITE
    <3> QED BY <3>1, <3>2, <3>3
  <2>3. Triple(f, at + 3) = [x \in Channels |-> wb[x] % 128]
    <3>1. f[at + 3] = s[3] /\ f[(at + 3) + 1] = s[4] /\ f[(at + 3) + 2] = s[5]
      <4>1. (at + 3) + 1 = at + 4 /\ (at + 3) + 2 = at + 5
        OBVIOUS
      <4> QED BY <2>0, <4>1
    <3>2. s[3].value = wb.blue % 128 /\ s[4].value = wb.green % 128 /\ s[5].value = wb.red % 128
      BY <2>0, Powers DEF IsChip, Word
    <3>3. Triple(f, at + 3) = [blue |-> wb.blue % 128, green |-> wb.green % 128, red |-> wb.red % 128]
      BY <3>1, <3>2 DEF Triple
    <3> QED BY <3>3 DEF Channels
  <2>4. ASSUME NEW j \in 0..3
        PROVE  Triple(f, at + 6 + 3 * j) = lights[4 * k + j]
    <3> DEFINE n == at + 6 + 3 * j
               x == lights[4 * k + j]
    <3>0. x \in Hues
      BY DEF LEDs
    <3>1. f[n] = s[6 + 3 * j] /\ f[n + 1] = s[7 + 3 * j] /\ f[n + 2] = s[8 + 3 * j]
      <4>1. /\ n = at + (6 + 3 * j) /\ n + 1 = at + (7 + 3 * j) /\ n + 2 = at + (8 + 3 * j)
            /\ 6 + 3 * j \in 1..17 /\ 7 + 3 * j \in 1..17 /\ 8 + 3 * j \in 1..17
        OBVIOUS
      <4> QED BY <2>0, <4>1
    <3> HIDE DEF n
    <3>2. /\ s[6 + 3 * j] = Word(x.blue, 16) /\ s[7 + 3 * j] = Word(x.green, 16)
          /\ s[8 + 3 * j] = Word(x.red, 16)
      BY <2>0 DEF IsChip
    <3> HIDE DEF x
    <3>3. \A w \in Uint16 : Word(w, 16).value = w
      BY HueWhole
    <3>4. x.blue \in Uint16 /\ x.green \in Uint16 /\ x.red \in Uint16
      BY <3>0 DEF Hues, Channels
    <3>5. Triple(f, n) = [blue |-> x.blue, green |-> x.green, red |-> x.red]
      BY <3>1, <3>2, <3>3, <3>4 DEF Triple
    <3>6. x = [blue |-> x.blue, green |-> x.green, red |-> x.red]
      BY <3>0 DEF Hues, Channels
    <3> QED BY <3>5, <3>6 DEF n, x
  <2> QED BY <2>1, <2>2, <2>3, <2>4
<1> QED BY <1>5 DEF Shows, f

-----------------------------------------------------------------------------
(* The white balance *)

(* The EEPROM holds the balance, and set_wb brings it in step with the     *)
(* variables a channel at a time.                                          *)
InStep ==
  /\ pc \in Channels \cup {"idle"}
  /\ arg \in [Channels -> Int]
  /\ TLC_WB \in Bytes /\ NonVolatile \in Bytes
  /\ intact \in BOOLEAN /\ preview \in BOOLEAN
  /\ intact => NonVolatile = balance
  /\ pc # "idle" => TLC_WB = [c \in Channels |-> uint8(arg[c])]
  /\ pc \in {"green", "red"} => NonVolatile["blue"] = TLC_WB["blue"]
  /\ pc = "red" => NonVolatile["green"] = TLC_WB["green"]

IInv == InStep /\ BalanceSurvives

USE DEF Channels, Bytes, history

LEMMA Uint8 == \A n \in Int : uint8(n) \in 0..255
BY DEF uint8

LEMMA GreyFacts == Grey(0) \in [Channels -> Int] /\ Grey(255) \in Bytes
BY DEF Grey

LEMMA InitIInv == Init => IInv
BY GreyFacts DEF Init, IInv, InStep, BalanceSurvives

LEMMA WhiteBalanceStep ==
  ASSUME IInv, NEW c \in Channels, NEW v \in Levels, WhiteBalance(c, v)
  PROVE  IInv'
<1>1. uint8(v) \in 0..255
  BY LevelsAssumption, Uint8
<1> QED BY <1>1 DEF IInv, InStep, BalanceSurvives, WhiteBalance

LEMMA set_wbStep == ASSUME IInv, NEW wb \in Balances, set_wb(wb) PROVE IInv'
<1>1. wb \in [Channels -> Int]
  BY BalancesAssumption
<1>2. TLC_WB' \in Bytes
  BY <1>1, Uint8 DEF set_wb
<1> QED BY <1>1, <1>2 DEF IInv, InStep, BalanceSurvives, set_wb

LEMMA StoreByteStep ==
  ASSUME IInv, StoreByte("blue", "green") \/ StoreByte("green", "red")
  PROVE  IInv'
<1>1. \A c \in Channels : uint8(arg[c]) \in 0..255
  BY Uint8 DEF IInv, InStep
<1>2. CASE StoreByte("blue", "green")
  BY <1>1, <1>2 DEF IInv, InStep, BalanceSurvives, StoreByte
<1>3. CASE StoreByte("green", "red")
  BY <1>1, <1>3 DEF IInv, InStep, BalanceSurvives, StoreByte
<1> QED BY <1>2, <1>3

(* With the third byte the EEPROM holds the balance that is in use. *)
LEMMA AnswerWbStep == ASSUME IInv, AnswerWb PROVE IInv'
<1>1. NonVolatile' \in Bytes
  BY Uint8 DEF IInv, InStep, AnswerWb
<1>2. \A c \in Channels : NonVolatile'[c] = TLC_WB[c]
  BY DEF IInv, InStep, AnswerWb
<1>3. NonVolatile' = TLC_WB
  BY <1>1, <1>2 DEF IInv, InStep
<1> QED BY <1>1, <1>3, GreyFacts DEF IInv, InStep, BalanceSurvives, AnswerWb

LEMMA RestartStep == ASSUME IInv, Restart PROVE IInv'
BY GreyFacts DEF IInv, InStep, BalanceSurvives, Restart

(* The invariant of set_wb and the EEPROM: see InStep. *)
THEOREM BalanceInvariant == Spec => []IInv
<1>1. IInv /\ [Next]_vars => IInv'
  <2> SUFFICES ASSUME IInv, [Next]_vars PROVE IInv'
    OBVIOUS
  <2>1. CASE \E color \in Colors : show_color(color)
    BY <2>1 DEF IInv, InStep, BalanceSurvives, show_color
  <2>2. CASE Unparsed \/ Round
    BY <2>2 DEF IInv, InStep, BalanceSurvives, Unparsed, Round
  <2>3. CASE UNCHANGED vars
    BY <2>3 DEF IInv, InStep, BalanceSurvives, vars
  <2> QED BY <2>1, <2>2, <2>3, WhiteBalanceStep, set_wbStep, StoreByteStep,
             AnswerWbStep, RestartStep DEF Next
<1> QED BY InitIInv, <1>1, PTL DEF Spec

(* The white balance that set_wb answered for is in use until a wb_        *)
(* command tries another, and again after every restart, until a set_wb    *)
(* changes a byte: the three EEPROM bytes and the three variables agree.   *)
THEOREM BalanceKept == Spec => []BalanceSurvives
<1>1. IInv => BalanceSurvives
  BY DEF IInv
<1> QED BY <1>1, BalanceInvariant, PTL

-----------------------------------------------------------------------------
(* The lights *)

Lit ==
  /\ show \in [LEDs -> Hues] /\ reply \in {"none", "set", "err"}
  /\ pc = "idle" => Shows(latched, show, TLC_WB)

LEMMA HueFacts ==
  /\ 0 \in Uint16 /\ 65535 \in Uint16
  /\ \A n \in Int : uint16(n) \in Uint16
BY SMT DEF Uint16, uint16

LEMMA PlainFacts == Dark \in [LEDs -> Hues] /\ AllTo(Grey(65535)) \in [LEDs -> Hues]
<1>1. Grey(0) \in Hues /\ Grey(65535) \in Hues
  BY HueFacts DEF Grey, Hues
<1> QED BY <1>1 DEF Dark, AllTo

LEMMA RainbowFacts == \A n \in 1..8 : rainbow[n] \in Hues
<1> DEFINE Of(b, g, r) == [blue |-> b, green |-> g, red |-> r]
<1>1. ASSUME NEW b \in Uint16, NEW g \in Uint16, NEW r \in Uint16 PROVE Of(b, g, r) \in Hues
  BY DEF Hues, Channels
<1>2. 49151 \in Uint16 /\ 32767 \in Uint16 /\ 16383 \in Uint16
  BY SMT DEF Uint16
<1> QED BY <1>1, <1>2, HueFacts DEF rainbow

LEMMA RefreshShows ==
  ASSUME Refresh, show' \in [LEDs -> Hues], TLC_WB' \in Bytes
  PROVE  Shows(latched', show', TLC_WB')
BY ledIs DEF Refresh

LEMMA LitInit == Init => Lit
<1>1. Dark \in [LEDs -> Hues] /\ Grey(255) \in Bytes
  BY PlainFacts, GreyFacts
<1>2. Shows(Latched(led(Dark, Grey(255))), Dark, Grey(255))
  BY <1>1, ledIs
<1> QED BY <1>1, <1>2 DEF Init, Lit

LEMMA LitStep ==
  ASSUME Lit, IInv, IInv', [Next]_vars
  PROVE  Lit'
<1>0. TLC_WB' \in Bytes /\ Dark \in [LEDs -> Hues]
  BY PlainFacts DEF IInv, InStep
<1>1. ASSUME Refresh, show' \in [LEDs -> Hues], reply' \in {"none", "set", "err"}
      PROVE  Lit'
  BY <1>0, <1>1, RefreshShows DEF Lit
<1>2. ASSUME NEW c \in Channels, NEW v \in Levels, WhiteBalance(c, v) PROVE Lit'
  BY <1>1, <1>2, PlainFacts DEF WhiteBalance
<1>3. ASSUME NEW wb \in Balances, set_wb(wb) PROVE Lit'
  BY <1>0, <1>3 DEF set_wb, Lit
<1>4. CASE StoreByte("blue", "green") \/ StoreByte("green", "red")
  BY <1>4 DEF StoreByte, Lit
<1>5. CASE AnswerWb
  BY <1>1, <1>5 DEF AnswerWb, Lit
<1>6. ASSUME NEW color \in Colors, show_color(color) PROVE Lit'
  <2>1. \A c \in Channels : uint16(color[c]) \in Uint16
    BY HueFacts, ColorsAssumption
  <2>2. show' \in [LEDs -> Hues]
    BY <1>6, <2>1 DEF show_color, AllTo, Hues
  <2> QED BY <1>1, <1>6, <2>2 DEF show_color
<1>7. CASE Unparsed
  BY <1>7 DEF Unparsed, Lit
<1>8. CASE Round
  <2>1. show' \in [LEDs -> Hues]
    <3>1. CASE UNCHANGED show
      BY <3>1 DEF Lit
    <3>2. ASSUME NEW r \in LEDs, show' = [j \in LEDs |-> rainbow[((j + r) % 8) + 1]]
          PROVE  show' \in [LEDs -> Hues]
      <4>1. \A j \in LEDs : ((j + r) % 8) + 1 \in 1..8
        BY DEF LEDs
      <4> QED BY <3>2, <4>1, RainbowFacts
    <3> QED BY <1>8, <3>1, <3>2 DEF Round
  <2> QED BY <1>1, <1>8, <2>1 DEF Round, Lit
<1>9. CASE Restart
  BY <1>0, <1>1, <1>9 DEF Restart
<1>10. CASE UNCHANGED vars
  BY <1>10 DEF vars, Lit
<1> QED BY <1>2, <1>3, <1>4, <1>5, <1>6, <1>7, <1>8, <1>9, <1>10 DEF Next

(* The invariant of the lights: between two commands the chips hold the    *)
(* frame of show and of the balance (Lit), and the EEPROM agrees (InStep). *)
THEOREM LightsInvariant == Spec => [](IInv /\ Lit)
<1>1. Lit /\ IInv /\ IInv' /\ [Next]_vars => Lit'
  BY LitStep
<1> QED BY <1>1, LitInit, BalanceInvariant, PTL DEF Spec

(* The numbers that scanf returned are cut to the widths of the variables: *)
(* the balance stays in bytes and the colours in 16 bits.                  *)
THEOREM LightTypes == Spec => []TypeOK
<1>1. IInv /\ Lit => TypeOK
  BY DEF IInv, InStep, Lit, TypeOK, Hues
<1> QED BY <1>1, LightsInvariant, PTL

(* Between two commands the chips show what the variables say: the frame   *)
(* of led() has the widths the chips cut it into, every light its own      *)
(* colour and the seven low bits of the balance, for all numbers that the  *)
(* commands may be given.                                                  *)
THEOREM ChipsShow == Spec => []ChipsShowTheState
<1>1. Lit => ChipsShowTheState
  BY DEF Lit, ChipsShowTheState, Shows
<1> QED BY <1>1, LightsInvariant, PTL

-----------------------------------------------------------------------------
(* The pass alarm, whether or not set_alarm0 is ever called *)

USE DEF Goto, chip, program, Writes, Labels

(* The flags, the mask and the registers of the chip keep their types. *)
THEOREM AlarmTypes == AlarmSpec => []AlarmTypeOK
<1>1. AlarmInit => AlarmTypeOK
  BY DEF AlarmInit, AlarmTypeOK
<1>2. AlarmTypeOK /\ [AlarmNext]_alarmVars => AlarmTypeOK'
  <2> SUFFICES ASSUME AlarmTypeOK, [AlarmNext]_alarmVars PROVE AlarmTypeOK'
    OBVIOUS
  <2>1. CASE Listen \/ TestAlarm \/ Show
    BY <2>1 DEF AlarmTypeOK, Listen, TestAlarm, Show
  <2>2. CASE set_alarm0 \/ clear_alarm0
    BY <2>2 DEF AlarmTypeOK, set_alarm0, clear_alarm0, Post
  <2>3. CASE SetPass \/ Unmask \/ ZeroAlarm \/ Rearm
    BY <2>3 DEF AlarmTypeOK, SetPass, Unmask, ZeroAlarm, Rearm
  <2>4. CASE INT3_vect
    BY <2>4 DEF AlarmTypeOK, INT3_vect
  <2>5. CASE Land \/ Refuse \/ GoOff
    BY <2>5 DEF AlarmTypeOK, Land, Refuse, GoOff
  <2>6. CASE UNCHANGED alarmVars
    BY <2>6 DEF AlarmTypeOK, alarmVars
  <2> QED BY <2>1, <2>2, <2>3, <2>4, <2>5, <2>6 DEF AlarmNext, Main
<1> QED BY <1>1, <1>2, PTL DEF AlarmSpec

(* The interrupt is masked only while the flag is set, or for the rest of  *)
(* a round of the loop that ends in unmasking it: no alarm is forgotten.   *)
THEOREM AlarmKept == AlarmSpec => []AlarmNotForgotten
<1>1. AlarmInit => AlarmNotForgotten
  BY DEF AlarmInit, AlarmNotForgotten
<1>2. AlarmNotForgotten /\ [AlarmNext]_alarmVars => AlarmNotForgotten'
  <2> SUFFICES ASSUME AlarmNotForgotten, [AlarmNext]_alarmVars
               PROVE  AlarmNotForgotten'
    OBVIOUS
  <2>1. CASE Listen \/ set_alarm0 \/ clear_alarm0 \/ SetPass
    BY <2>1 DEF AlarmNotForgotten, Listen, set_alarm0, clear_alarm0, SetPass
  <2>2. CASE TestAlarm
    BY <2>2 DEF AlarmNotForgotten, TestAlarm
  <2>3. CASE Unmask \/ Rearm
    BY <2>3 DEF AlarmNotForgotten, Unmask, Rearm
  <2>4. CASE ZeroAlarm \/ Show
    BY <2>4 DEF AlarmNotForgotten, ZeroAlarm, Show
  <2>5. CASE INT3_vect
    BY <2>5 DEF AlarmNotForgotten, INT3_vect
  <2>6. CASE Land \/ Refuse \/ GoOff
    BY <2>6 DEF AlarmNotForgotten, Land, Refuse, GoOff
  <2>7. CASE UNCHANGED alarmVars
    BY <2>7 DEF AlarmNotForgotten, alarmVars
  <2> QED BY <2>1, <2>2, <2>3, <2>4, <2>5, <2>6, <2>7 DEF AlarmNext, Main
<1> QED BY <1>1, <1>2, PTL DEF AlarmSpec

-----------------------------------------------------------------------------
(* Induction: a set of numbers that is not empty has a least one.          *)

LEMMA Least ==
  ASSUME NEW T \in SUBSET Nat, T # {}
  PROVE  \E x \in T : \A y \in T : x <= y
<1> DEFINE Less == {ss \in Nat \X Nat : ss[1] < ss[2]}
<1>1. IsWellFoundedOn(Less, Nat)
  BY NatLessThanWellFounded DEF OpToRel
<1> HIDE DEF Less
<1>2. PICK x \in T : \A y \in T : <<y, x>> \notin Less
  BY <1>1, WFMin
<1>3. \A y \in T : ~(y < x)
  BY <1>2 DEF Less
<1> QED BY <1>3

-----------------------------------------------------------------------------
(* The weights of the bytes of ms *)

USE BaseAssumption, WidthAssumption, PeriodAssumption

(* f is a table of weights, and holds those of the bytes up to the n-th. *)
Table(f) == f = [k \in 0..Width |-> f[k]]

Weighs(f, n) ==
  /\ f[0] = 1
  /\ \A k \in 1..Width : k <= n => f[k] = Base * f[k - 1]

LEMMA WeightsExist == \E f : Table(f) /\ Weighs(f, Width)
<1> DEFINE Bad == {n \in 0..Width : ~ \E f : Table(f) /\ Weighs(f, n)}
<1> SUFFICES ASSUME Bad # {} PROVE FALSE
  OBVIOUS
<1>1. PICK n \in Bad : \A y \in Bad : n <= y
  <2>1. Bad \in SUBSET Nat
    OBVIOUS
  <2> HIDE DEF Bad
  <2> QED BY <2>1, Least
<1>2. n # 0
  <2> DEFINE ones == [k \in 0..Width |-> 1]
  <2>1. Table(ones) /\ Weighs(ones, 0)
    BY DEF Table, Weighs
  <2> QED BY <2>1
<1>3. n \in 1..Width /\ n - 1 \in 0..Width /\ n - 1 \notin Bad
  BY <1>1, <1>2
<1>4. PICK f : Table(f) /\ Weighs(f, n - 1)
  BY <1>3
<1> DEFINE g == [k \in 0..Width |-> IF k = n THEN Base * f[n - 1] ELSE f[k]]
<1>5. g[0] = 1 /\ Table(g)
  BY <1>3, <1>4 DEF Weighs, Table
<1>6. ASSUME NEW k \in 1..Width, k <= n PROVE g[k] = Base * g[k - 1]
  <2>1. CASE k = n
    BY <1>3, <2>1
  <2>2. CASE k # n
    BY <1>3, <1>4, <1>6, <2>2 DEF Weighs
  <2> QED BY <2>1, <2>2
<1>7. Table(g) /\ Weighs(g, n)
  BY <1>5, <1>6 DEF Weighs
<1> QED BY <1>1, <1>7

LEMMA PowerIs == Weighs(Power, Width)
<1> DEFINE Def(f) == [n \in 0..Width |-> IF n = 0 THEN 1 ELSE Base * f[n - 1]]
<1>1. PICK f : Table(f) /\ Weighs(f, Width)
  BY WeightsExist
<1>2. f = Def(f)
  <2>1. \A n \in 0..Width : f[n] = Def(f)[n]
    BY <1>1 DEF Weighs
  <2> QED BY <1>1, <2>1 DEF Table
<1>3. Power = Def(Power)
  BY <1>2 DEF Power
<1> HIDE DEF Power
<1>4. \A n \in 0..Width : Power[n] = IF n = 0 THEN 1 ELSE Base * Power[n - 1]
  BY <1>3
<1> QED BY <1>4 DEF Weighs

(* The rainbow, for every width of the counter, every period and every     *)
(* value, torn or not, that millis() returns                               *)

(* bow_rotate passes 7 only between the pacing and the display. *)
Rotation ==
  /\ step \in {"listen", "load", "pace", "show"}
  /\ bow_rotate \in 0..8
  /\ step # "show" => bow_rotate < 8

Turning == Rotation /\ ShowsARotation

USE DEF LEDs, pace, load

(* The index that the main loop computes, bow_rotate = 8 included. *)
LEMMA ColourFact ==
  ASSUME bow_rotate \in 0..8, NEW j \in LEDs
  PROVE  Colour(j) = (j + (bow_rotate % 8)) % 8
<1>1. CASE j + bow_rotate > 7
  BY <1>1 DEF Colour
<1>2. CASE j + bow_rotate <= 7
  BY <1>2 DEF Colour
<1> QED BY <1>1, <1>2

LEMMA RainbowShowStep == ASSUME Turning, Display PROVE Turning'
<1>1. \E r \in LEDs : \A j \in LEDs : colours'[j] = (j + r) % 8
  <2>1. bow_rotate % 8 \in LEDs
    BY DEF Turning, Rotation
  <2>2. \A j \in LEDs : colours'[j] = (j + (bow_rotate % 8)) % 8
    BY ColourFact DEF Turning, Rotation, Display
  <2> QED BY <2>1, <2>2
<1>2. ShowsARotation'
  BY <1>1 DEF ShowsARotation
<1>3. Rotation'
  BY DEF Turning, Rotation, Display
<1> QED BY <1>2, <1>3 DEF Turning

LEMMA RainbowListenStep == ASSUME Turning, HandleCommand PROVE Turning'
<1>1. colours' \in {colours, All(Off), All(Plain)}
  BY DEF HandleCommand, toggle_rainbow, OtherCommand
<1>2. ShowsARotation'
  BY <1>1 DEF Turning, ShowsARotation, All
<1>3. Rotation'
  BY DEF Turning, Rotation, HandleCommand
<1> QED BY <1>2, <1>3 DEF Turning

(* The LEDs show one colour or a whole rainbow, and every index into       *)
(* rainbow[] is inside it, whatever the timer interrupt does to millis().  *)
THEOREM RotationKept == RainbowSpec => []ShowsARotation
<1>1. RainbowInit => Turning
  BY DEF RainbowInit, Turning, Rotation, ShowsARotation, All
<1>2. Turning /\ [RainbowNext]_rainbowVars => Turning'
  <2> SUFFICES ASSUME Turning, [RainbowNext]_rainbowVars PROVE Turning'
    OBVIOUS
  <2>1. CASE TIMER3_COMPA_vect
    BY <2>1 DEF Turning, Rotation, ShowsARotation, TIMER3_COMPA_vect
  <2>2. CASE millis
    BY <2>2 DEF Turning, Rotation, ShowsARotation, millis
  <2>3. CASE Pace
    BY <2>3 DEF Turning, Rotation, ShowsARotation, Pace
  <2>4. CASE UNCHANGED rainbowVars
    BY <2>4 DEF Turning, Rotation, ShowsARotation, rainbowVars
  <2> QED BY <2>1, <2>2, <2>3, <2>4, RainbowListenStep, RainbowShowStep DEF RainbowNext, MainLoop
<1>3. Turning => ShowsARotation
  BY DEF Turning
<1> QED BY <1>1, <1>2, <1>3, PTL DEF RainbowSpec

(* What the bytes loaded so far make is below the weight of the next one.  *)
Loading == value < Power[loaded]

RainbowIInv == RainbowTypeOK /\ Rotation /\ Loading

LEMMA PowerFacts ==
  /\ Power[0] = 1
  /\ \A k \in 1..Width : Power[k] = Base * Power[k - 1]
BY PowerIs DEF Weighs

(* The weights grow. *)
LEMMA PowerBounds == \A k \in 0..Width : Power[k] \in Nat \ {0} /\ Power[k] <= Range32
<1>1. \A k \in 0..Width : Power[k] \in Nat \ {0}
  <2> DEFINE Bad == {k \in 0..Width : Power[k] \notin Nat \ {0}}
  <2> SUFFICES ASSUME Bad # {} PROVE FALSE
    OBVIOUS
  <2>1. PICK k \in Bad : \A y \in Bad : k <= y
    <3>1. Bad \in SUBSET Nat
      OBVIOUS
    <3> HIDE DEF Bad
    <3> QED BY <3>1, Least
  <2>2. k \in 1..Width /\ k - 1 \in 0..Width /\ k - 1 \notin Bad
    BY <2>1, PowerFacts
  <2>3. Power[k] = Base * Power[k - 1] /\ Power[k - 1] \in Nat \ {0}
    BY <2>2, PowerFacts
  <2> QED BY <2>1, <2>3
<1>2. \A k \in 0..Width : Power[k] <= Range32
  <2> DEFINE Bad == {d \in 0..Width : ~(Power[Width - d] <= Range32)}
  <2>1. Bad = {}
    <3> SUFFICES ASSUME Bad # {} PROVE FALSE
      OBVIOUS
    <3>1. PICK d \in Bad : \A y \in Bad : d <= y
      <4>1. Bad \in SUBSET Nat
        OBVIOUS
      <4> HIDE DEF Bad
      <4> QED BY <4>1, Least
    <3>2. d # 0
      BY <1>1, <3>1 DEF Range32
    <3>3. d - 1 \in 0..Width /\ d - 1 \notin Bad
      BY <3>1, <3>2
    <3> DEFINE k == Width - d
    <3>4. k \in 0..Width /\ k + 1 \in 1..Width /\ Width - (d - 1) = k + 1
      BY <3>1, <3>2
    <3>5. Power[k + 1] = Base * Power[k] /\ Power[k + 1] <= Range32
      BY <3>3, <3>4, PowerFacts
    <3>6. Power[k] \in Nat /\ Range32 \in Nat
      BY <1>1, <3>4 DEF Range32
    <3>7. Power[k] <= Base * Power[k]
      BY <3>6
    <3> QED BY <3>1, <3>5, <3>6, <3>7
  <2>2. ASSUME NEW k \in 0..Width PROVE Power[k] <= Range32
    <3>1. Width - k \in 0..Width /\ Width - (Width - k) = k
      OBVIOUS
    <3> QED BY <2>1, <3>1
  <2> QED BY <2>2
<1> QED BY <1>1, <1>2

(* A byte more: what millis() makes stays below the next weight. *)
LEMMA MillisFits ==
  ASSUME RainbowIInv, loaded < Width
  PROVE  /\ value + Byte(ms, loaded) * Power[loaded] \in Nat
         /\ value + Byte(ms, loaded) * Power[loaded] < Power[loaded + 1]
<1> DEFINE b == Byte(ms, loaded)
           w == Power[loaded]
<1>1. /\ loaded \in 0..Width /\ loaded + 1 \in 1..Width /\ value \in Nat /\ ms \in Nat
      /\ value < w /\ w \in Nat \ {0}
  BY PowerBounds DEF RainbowIInv, RainbowTypeOK, Loading, Range32
<1>2. b \in 0..Base - 1
  BY <1>1 DEF Byte
<1>3. Power[loaded + 1] = Base * w
  BY <1>1, PowerFacts
<1> HIDE DEF b, w
<1>4. b * w \in Nat /\ b * w <= (Base - 1) * w
  BY <1>1, <1>2
<1>5. Base * w = (Base - 1) * w + w
  BY <1>1
<1>6. value + b * w \in Nat /\ value + b * w < Base * w
  BY <1>1, <1>2, <1>4, <1>5
<1> QED BY <1>3, <1>6 DEF b, w

LEMMA RainbowStep == ASSUME RainbowIInv, [RainbowNext]_rainbowVars PROVE RainbowIInv'
<1> USE DEF RainbowIInv, RainbowTypeOK, Rotation, Loading
<1>0. Range32 \in Nat \ {0}
  BY PowerBounds DEF Range32
<1>1. CASE TIMER3_COMPA_vect
  <2>1. (ms + 1) % Range32 \in 0..Range32 - 1
    BY <1>0
  <2> QED BY <1>1, <2>1 DEF TIMER3_COMPA_vect
<1>2. CASE HandleCommand
  <2>1. do_rainbow' \in BOOLEAN
    BY <1>2 DEF HandleCommand, toggle_rainbow, OtherCommand
  <2>2. colours' \in [LEDs -> LEDs \cup {Off, Plain}]
    BY <1>2 DEF HandleCommand, toggle_rainbow, OtherCommand, All
  <2> QED BY <1>0, <1>2, <2>1, <2>2, PowerFacts DEF HandleCommand
<1>3. CASE millis
  <2>1. loaded \in 0..Width - 1 /\ loaded' = loaded + 1 /\ loaded' \in 0..Width
    BY <1>3 DEF millis
  <2>2. value' \in Nat /\ value' < Power[loaded']
    BY <1>3, <2>1, MillisFits DEF millis
  <2>3. value' \in 0..Range32 - 1
    BY <1>0, <2>1, <2>2, PowerBounds
  <2> QED BY <1>3, <2>1, <2>2, <2>3 DEF millis
<1>4. CASE Pace
  BY <1>4 DEF Pace
<1>5. CASE Display
  <2>1. \A j \in LEDs : Colour(j) \in LEDs
    BY DEF Colour
  <2> QED BY <1>5, <2>1 DEF Display
<1>6. CASE UNCHANGED rainbowVars
  BY <1>6 DEF rainbowVars
<1> QED BY <1>1, <1>2, <1>3, <1>4, <1>5, <1>6 DEF RainbowNext, MainLoop

(* The counter, the value that millis() puts together from its bytes, torn *)
(* or not, and what the rainbow makes of it keep their widths.             *)
THEOREM RainbowTypes == RainbowSpec => []RainbowTypeOK
<1>1. RainbowInit => RainbowIInv
  <2>1. Range32 \in Nat \ {0}
    BY PowerBounds DEF Range32
  <2>2. All(Off) \in [LEDs -> LEDs \cup {Off, Plain}]
    BY DEF All
  <2>3. RainbowInit => RainbowTypeOK /\ Rotation
    <3> SUFFICES ASSUME RainbowInit PROVE RainbowTypeOK /\ Rotation
      OBVIOUS
    <3>1. 0 \in 0..Range32 - 1 /\ 0 \in 0..Width /\ 0 \in 0..8
      BY <2>1
    <3>2. ms = 0 /\ previousMillis = 0 /\ bow_rotate = 0 /\ loaded = 0 /\ value = 0
      BY DEF RainbowInit
    <3>3. step = "listen" /\ do_rainbow = FALSE /\ colours = All(Off)
      BY DEF RainbowInit
    <3>4. RainbowTypeOK
      BY <2>2, <3>1, <3>2, <3>3, Zenon DEF RainbowTypeOK
    <3>5. Rotation
      BY <3>2, <3>3 DEF Rotation
    <3> QED BY <3>4, <3>5
  <2>4. RainbowInit => Loading
    BY PowerFacts DEF RainbowInit, Loading
  <2> QED BY <2>3, <2>4 DEF RainbowIInv
<1>2. RainbowIInv /\ [RainbowNext]_rainbowVars => RainbowIInv'
  BY RainbowStep
<1>3. RainbowIInv => RainbowTypeOK
  BY DEF RainbowIInv
<1> QED BY <1>1, <1>2, <1>3, PTL DEF RainbowSpec
===============================================================================
