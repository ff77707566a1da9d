--------------------------- MODULE JpegArithProofs ---------------------------
(***************************************************************************)
(* The registers of the arithmetic encoder, for every sequence of          *)
(* decisions and whatever the estimates: a carry always has room, and no   *)
(* byte of the coded data looks like a marker.                             *)
(***************************************************************************)
EXTENDS JpegArithRegisters, TLAPS

VARIABLE coder

(* Between two rounds of arith_encode; the statistics bins only choose qe. *)
CInit == coder = [c |-> 0, a |-> 65536, sc |-> 0, zc |-> 0, ct |-> 11,
                  buffer |-> -1, out |-> <<>>]
Decide(qe, less) ==
    0 < qe /\ qe < 2^15 /\ coder.a >= 2^15 /\ coder' = Divide(coder, qe, less)
Round == coder.a < 2^15 /\ coder' = Shift(coder)
CNext == (\E qe \in Nat, less \in BOOLEAN : Decide(qe, less)) \/ Round
CSpec == CInit /\ [][CNext]_coder

-----------------------------------------------------------------------------
(* Every FF in the data is followed by a 00.                               *)
WellStuffed(s) == \A i \in 1..Len(s) : s[i] = 255 => i < Len(s) /\ s[i + 1] = 0

Working == [c : Nat, a : Nat, sc : Nat, zc : Nat, ct : Nat, buffer : Int,
            out : Seq(Nat)]
Registers(e) == /\ 0 < e.a /\ e.a <= 2^16 /\ 0 < e.ct /\ e.ct <= 11
                /\ -1 <= e.buffer /\ e.buffer < 255

(* After a byte was taken out, less than 2^19 + 2^16 is left of c + a: the *)
(* spacer bits.  Before there is a byte to take a carry, none can come.    *)
Bound(e) == IF e.buffer >= 0 THEN 2^27 + 2^24 ELSE 2^27
Spaced(e) == /\ (e.c + e.a) * 2^e.ct <= Bound(e)
             /\ e.buffer >= 0 => e.ct <= 8

Inv == coder \in Working /\ Registers(coder) /\ Spaced(coder) /\ WellStuffed(coder.out)

-----------------------------------------------------------------------------
LEMMA PowersUpTo11 ==
    ASSUME NEW n \in Nat, 0 < n, n <= 11
    PROVE  2^n \in Nat /\ 0 < 2^n /\ (1 < n => 2^n = 2 * 2^(n - 1))
<1>1. CASE n = 1
  BY <1>1, n - 1 = 0, SMT
<1>2. CASE n = 2
  BY <1>2, n - 1 = 1, SMT
<1>3. CASE n = 3
  BY <1>3, n - 1 = 2, SMT
<1>4. CASE n = 4
  BY <1>4, n - 1 = 3, SMT
<1>5. CASE n = 5
  BY <1>5, n - 1 = 4, SMT
<1>6. CASE n = 6
  BY <1>6, n - 1 = 5, SMT
<1>7. CASE n = 7
  BY <1>7, n - 1 = 6, SMT
<1>8. CASE n = 8
  BY <1>8, n - 1 = 7, SMT
<1>9. CASE n = 9
  BY <1>9, n - 1 = 8, SMT
<1>10. CASE n = 10
  BY <1>10, n - 1 = 9, SMT
<1>11. CASE n = 11
  BY <1>11, n - 1 = 10, SMT
<1> QED
  BY <1>1, <1>2, <1>3, <1>4, <1>5, <1>6, <1>7, <1>8, <1>9, <1>10, <1>11, SMT

LEMMA Scaled ==
    ASSUME NEW x \in Nat, NEW y \in Nat, NEW p \in Nat, 0 < p
    PROVE  /\ x * p \in Nat
           /\ x <= y => x * p <= y * p
           /\ x < y => x * p < y * p
           /\ x * (2 * p) = (2 * x) * p
<1>1. x * p \in Nat
  BY SMT
<1>2. x <= y => x * p <= y * p
  BY SMT
<1>3. x < y => x * p < y * p
  BY SMT
<1>4. x * (2 * p) = (2 * x) * p
  BY SMT
<1> QED
  BY <1>1, <1>2, <1>3, <1>4

LEMMA StuffedConcat ==
    ASSUME NEW s \in Seq(Nat), WellStuffed(s), NEW t \in Seq(Nat), WellStuffed(t)
    PROVE  s \o t \in Seq(Nat) /\ WellStuffed(s \o t)
BY DEF WellStuffed

LEMMA StuffedZeros ==
    ASSUME NEW n \in Nat
    PROVE  [i \in 1..n |-> 0] \in Seq(Nat) /\ WellStuffed([i \in 1..n |-> 0])
BY DEF WellStuffed

LEMMA StuffedFFs ==
    ASSUME NEW n \in Nat
    PROVE  LET s == [i \in 1..(2 * n) |-> IF i % 2 = 1 THEN 255 ELSE 0]
           IN  s \in Seq(Nat) /\ WellStuffed(s)
<1> DEFINE s == [i \in 1..(2 * n) |-> IF i % 2 = 1 THEN 255 ELSE 0]
<1>1. s \in Seq(Nat) /\ Len(s) = 2 * n
  OBVIOUS
<1>2. ASSUME NEW i \in 1..(2 * n), s[i] = 255 PROVE i < 2 * n /\ s[i + 1] = 0
  <2>1. i % 2 = 1
    BY <1>2
  <2>2. i # 2 * n
    BY <2>1
  <2> QED
    BY <2>1, <2>2
<1> QED
  BY <1>1, <1>2 DEF WellStuffed

LEMMA StuffedByte ==
    ASSUME NEW b \in Nat
    PROVE  Stuffed(b) \in Seq(Nat) /\ WellStuffed(Stuffed(b))
BY DEF Stuffed, WellStuffed

-----------------------------------------------------------------------------
(* The output of bytes keeps the registers of the interval.                *)
Same(e, f) == /\ f \in Working /\ WellStuffed(f.out)
              /\ f.c = e.c /\ f.a = e.a /\ f.ct = e.ct /\ f.buffer = e.buffer

LEMMA EmitIsStuffed ==
    ASSUME NEW e \in Working, WellStuffed(e.out),
           NEW bytes \in Seq(Nat), WellStuffed(bytes)
    PROVE  Same(e, EmitAfterZeros(e, bytes)) /\ EmitAfterZeros(e, bytes).sc = e.sc
<1> DEFINE zeros == [i \in 1..e.zc |-> 0]
<1>1. e.zc \in Nat /\ e.out \in Seq(Nat)
  BY DEF Working
<1>2. zeros \in Seq(Nat) /\ WellStuffed(zeros)
  BY <1>1, StuffedZeros
<1>3. e.out \o zeros \in Seq(Nat) /\ WellStuffed(e.out \o zeros)
  BY <1>1, <1>2, StuffedConcat
<1>4. e.out \o zeros \o bytes \in Seq(Nat) /\ WellStuffed(e.out \o zeros \o bytes)
  BY <1>3, StuffedConcat
<1> DEFINE data == e.out \o zeros \o bytes
<1>5. EmitAfterZeros(e, bytes) = [e EXCEPT !.out = data, !.zc = 0]
  BY DEF EmitAfterZeros
<1>6. data \in Seq(Nat) /\ WellStuffed(data)
  BY <1>4
<1> HIDE DEF data
<1>7. Same(e, [e EXCEPT !.out = data, !.zc = 0])
  BY <1>6 DEF Working, Same
<1>8. [e EXCEPT !.out = data, !.zc = 0].sc = e.sc
  BY DEF Working
<1> QED
  BY <1>5, <1>7, <1>8

LEMMA CarryOverIsStuffed ==
    ASSUME NEW e \in Working, WellStuffed(e.out), -1 <= e.buffer, e.buffer < 255
    PROVE  Same(e, CarryOver(e))
<1> DEFINE b == IF e.buffer >= 0 THEN EmitAfterZeros(e, Stuffed(e.buffer + 1)) ELSE e
<1>1. Same(e, b)
  <2>1. CASE e.buffer >= 0
    <3>1. e.buffer + 1 \in Nat
      BY <2>1 DEF Working
    <3> QED
      BY <2>1, <3>1, StuffedByte, EmitIsStuffed
  <2>2. CASE ~(e.buffer >= 0)
    BY <2>2 DEF Same
  <2> QED
    BY <2>1, <2>2
<1>2. CarryOver(e) = [b EXCEPT !.zc = @ + e.sc, !.sc = 0]
  BY DEF CarryOver
<1> HIDE DEF b
<1>3. b \in Working /\ e.sc \in Nat
  BY <1>1 DEF Same, Working
<1> DEFINE z == b.zc + e.sc
<1>4. z \in Nat /\ CarryOver(e) = [b EXCEPT !.zc = z, !.sc = 0]
  BY <1>2, <1>3 DEF Working
<1> HIDE DEF z
<1>5. Same(b, [b EXCEPT !.zc = z, !.sc = 0])
  BY <1>1, <1>3, <1>4 DEF Same, Working
<1> QED
  BY <1>1, <1>4, <1>5 DEF Same

LEMMA SettleIsStuffed ==
    ASSUME NEW e \in Working, WellStuffed(e.out), -1 <= e.buffer, e.buffer < 255
    PROVE  Same(e, Settle(e))
<1> DEFINE b == CASE e.buffer = 0 -> [e EXCEPT !.zc = @ + 1]
                  [] e.buffer > 0 -> EmitAfterZeros(e, <<e.buffer>>)
                  [] OTHER -> e
           ffs == [i \in 1..(2 * b.sc) |-> IF i % 2 = 1 THEN 255 ELSE 0]
<1>1. Same(e, b)
  <2>1. CASE e.buffer = 0
    BY <2>1 DEF Same, Working
  <2>2. CASE e.buffer > 0
    <3>1. <<e.buffer>> \in Seq(Nat) /\ WellStuffed(<<e.buffer>>)
      BY <2>2 DEF Working, WellStuffed
    <3>2. Same(e, EmitAfterZeros(e, <<e.buffer>>))
      BY <3>1, EmitIsStuffed
    <3>3. b = EmitAfterZeros(e, <<e.buffer>>)
      BY <2>2
    <3> QED
      BY <3>2, <3>3
  <2>3. CASE e.buffer = -1
    BY <2>3 DEF Same
  <2> QED
    BY <2>1, <2>2, <2>3 DEF Working
<1>2. Settle(e) = IF b.sc = 0 THEN b ELSE [EmitAfterZeros(b, ffs) EXCEPT !.sc = 0]
  BY DEF Settle
<1> HIDE DEF b
<1>3. b \in Working /\ WellStuffed(b.out) /\ b.sc \in Nat
  BY <1>1 DEF Same, Working
<1>4. ffs \in Seq(Nat) /\ WellStuffed(ffs)
  BY <1>3, StuffedFFs
<1>5. Same(b, EmitAfterZeros(b, ffs))
  BY <1>3, <1>4, EmitIsStuffed
<1> HIDE DEF ffs
<1> DEFINE f == EmitAfterZeros(b, ffs)
<1> HIDE DEF f
<1>6. Same(b, f)
  BY <1>5 DEF f
<1>7. Same(b, [f EXCEPT !.sc = 0])
  BY <1>6 DEF Same, Working
<1>8. Settle(e) = IF b.sc = 0 THEN b ELSE [f EXCEPT !.sc = 0]
  BY <1>2 DEF f
<1> QED
  BY <1>1, <1>7, <1>8 DEF Same

-----------------------------------------------------------------------------
(* The byte leaves c without its carry and its own 8 bits.                 *)
LEMMA Remainder ==
    ASSUME NEW c \in Nat
    PROVE  /\ c \div 2^19 \in Nat /\ c % 2^19 \in Nat
           /\ c = 2^19 * (c \div 2^19) + (c % 2^19) /\ c % 2^19 < 2^19
BY SMT

LEMMA TakenByte ==
    ASSUME NEW f \in Working, WellStuffed(f.out), f.ct = 0, 0 < f.a, f.a < 2^16,
           -1 <= f.buffer, f.buffer < 255,
           ((f.c % 2^19) + f.a) * 2^8 <= Bound(f)
    PROVE  LET r == [f EXCEPT !.c = @ % 2^19, !.ct = @ + 8] IN
           r \in Working /\ Registers(r) /\ Spaced(r) /\ WellStuffed(r.out)
<1> DEFINE rest == f.c % 2^19
           r == [f EXCEPT !.c = rest, !.ct = 8]
<1>1. f.c \in Nat /\ f.a \in Nat /\ f.buffer \in Int
  BY DEF Working
<1>2. rest \in Nat
  BY <1>1, Remainder
<1>3. (rest + f.a) * 2^8 <= Bound(f)
  OBVIOUS
<1>4. [f EXCEPT !.c = @ % 2^19, !.ct = @ + 8] = r
  BY DEF Working
<1> HIDE DEF rest
<1>5. /\ r \in Working /\ r.c = rest /\ r.a = f.a /\ r.ct = 8
      /\ r.buffer = f.buffer /\ r.out = f.out
  BY <1>2 DEF Working
<1>6. Bound(r) = Bound(f)
  BY <1>5 DEF Bound
<1> HIDE DEF r
<1>7. Registers(r)
  BY <1>1, <1>5, SMT DEF Registers
<1>8. Spaced(r)
  BY <1>1, <1>3, <1>5, <1>6, SMT DEF Spaced
<1> QED
  BY <1>4, <1>5, <1>7, <1>8

LEMMA WithBuffer ==
    ASSUME NEW f \in Working, NEW byte \in Int
    PROVE  LET g == [f EXCEPT !.buffer = byte] IN
           /\ g \in Working /\ g.out = f.out /\ g.c = f.c /\ g.a = f.a
           /\ g.ct = f.ct /\ g.buffer = byte
BY DEF Working

LEMMA WithStack ==
    ASSUME NEW f \in Working, NEW n \in Nat
    PROVE  LET g == [f EXCEPT !.sc = n] IN
           /\ g \in Working /\ g.out = f.out /\ g.c = f.c /\ g.a = f.a
           /\ g.ct = f.ct /\ g.buffer = f.buffer
BY DEF Working

LEMMA ByteOutKeepsSpace ==
    ASSUME NEW e \in Working, WellStuffed(e.out), 0 < e.a, e.a < 2^16,
           e.ct = 0, -1 <= e.buffer, e.buffer < 255, e.c + e.a <= Bound(e)
    PROVE  LET r == ByteOut(e) IN
           r \in Working /\ Registers(r) /\ Spaced(r) /\ WellStuffed(r.out)
<1> DEFINE temp == e.c \div 2^19
           rest == e.c % 2^19
           Rest(f) == [f EXCEPT !.c = @ % 2^19, !.ct = @ + 8]
           Good(r) == r \in Working /\ Registers(r) /\ Spaced(r) /\ WellStuffed(r.out)
           carried == [CarryOver(e) EXCEPT !.buffer = temp % 256]
           stacked == [e EXCEPT !.sc = @ + 1]
           settled == [Settle(e) EXCEPT !.buffer = temp]
           taken == CASE temp > 255 -> carried [] temp = 255 -> stacked [] OTHER -> settled
<1>1. ByteOut(e) = Rest(taken)
  BY DEF ByteOut
<1>2. e.c \in Nat /\ e.a \in Nat /\ e.buffer \in Int /\ e.sc \in Nat
  BY DEF Working
<1>3. /\ temp \in Nat /\ rest \in Nat
      /\ e.c = 2^19 * temp + rest /\ rest < 2^19
  BY <1>2, Remainder
<1> HIDE DEF temp
<1>4. (rest + e.a) * 2^8 <= 2^27 + 2^24
  BY <1>2, <1>3, SMT
<1> SUFFICES Good(Rest(taken))
  BY <1>1
<1>5. ASSUME NEW f \in Working, WellStuffed(f.out), f.c = e.c, f.a = e.a, f.ct = 0,
             -1 <= f.buffer, f.buffer < 255, (rest + e.a) * 2^8 <= Bound(f)
      PROVE  Good(Rest(f))
  <2>1. ((f.c % 2^19) + f.a) * 2^8 <= Bound(f)
    BY <1>5
  <2>2. 0 < f.a /\ f.a < 2^16
    BY <1>5
  <2> QED
    BY <1>5, <2>1, <2>2, TakenByte
<1> HIDE DEF rest, Rest, Good
<1>6. CASE temp > 255
  <2>1. e.buffer >= 0 /\ temp <= 287
    BY <1>2, <1>3, <1>6, SMT DEF Bound
  <2>2. temp % 256 \in Int /\ 0 <= temp % 256 /\ temp % 256 < 255
    BY <1>3, <1>6, <2>1, SMT
  <2>3. Same(e, CarryOver(e))
    BY CarryOverIsStuffed
  <2>4. /\ carried \in Working /\ WellStuffed(carried.out) /\ carried.c = e.c
        /\ carried.a = e.a /\ carried.ct = 0 /\ carried.buffer = temp % 256
    BY <2>2, <2>3, WithBuffer DEF Same
  <2>5. taken = carried
    BY <1>6
  <2> HIDE DEF carried, taken
  <2>6. Bound(carried) = 2^27 + 2^24
    BY <2>2, <2>4 DEF Bound
  <2>7. -1 <= carried.buffer /\ carried.buffer < 255
    BY <2>2, <2>4, SMT
  <2>8. (rest + e.a) * 2^8 <= Bound(carried)
    BY <1>4, <2>6
  <2> QED
    BY <1>5, <2>4, <2>5, <2>7, <2>8
<1>7. CASE temp = 255
  <2>1. e.sc + 1 \in Nat
    BY <1>2
  <2>2. /\ stacked \in Working /\ stacked.out = e.out /\ stacked.c = e.c
        /\ stacked.a = e.a /\ stacked.ct = 0 /\ stacked.buffer = e.buffer
    BY <2>1, WithStack
  <2>3. taken = stacked
    BY <1>7, SMT
  <2> HIDE DEF stacked, taken
  <2>4. (rest + e.a) * 2^8 <= Bound(stacked)
    BY <1>2, <1>3, <1>4, <1>7, <2>2, SMT DEF Bound
  <2> QED
    BY <1>5, <2>2, <2>3, <2>4
<1>8. CASE temp < 255
  <2>1. Same(e, Settle(e))
    BY SettleIsStuffed
  <2>2. /\ settled \in Working /\ WellStuffed(settled.out) /\ settled.c = e.c
        /\ settled.a = e.a /\ settled.ct = 0 /\ settled.buffer = temp
    BY <1>3, <2>1, WithBuffer DEF Same
  <2>3. taken = settled
    BY <1>3, <1>8, SMT
  <2> HIDE DEF settled, taken
  <2>4. Bound(settled) = 2^27 + 2^24 /\ -1 <= settled.buffer /\ settled.buffer < 255
    BY <1>3, <1>8, <2>2, SMT DEF Bound
  <2>5. (rest + e.a) * 2^8 <= Bound(settled)
    BY <1>4, <2>4
  <2> QED
    BY <1>5, <2>2, <2>3, <2>4, <2>5
<1> QED
  BY <1>3, <1>6, <1>7, <1>8, SMT

-----------------------------------------------------------------------------
LEMMA DivideKeepsSpace ==
    ASSUME NEW e \in Working, Registers(e), Spaced(e), WellStuffed(e.out),
           e.a >= 2^15, NEW qe \in Nat, 0 < qe, qe < 2^15, NEW less \in BOOLEAN
    PROVE  LET r == Divide(e, qe, less) IN
           r \in Working /\ Registers(r) /\ Spaced(r) /\ WellStuffed(r.out)
<1> DEFINE upper == less = (e.a - qe >= qe)
           low == e.a - qe
           c == IF upper THEN e.c + low ELSE e.c
           a == IF upper THEN qe ELSE low
           r == [e EXCEPT !.c = c, !.a = a]
<1>1. /\ e.c \in Nat /\ e.a \in Nat /\ e.ct \in Nat /\ e.buffer \in Int
      /\ 0 < e.ct /\ e.ct <= 11
  BY DEF Working, Registers
<1>2. low \in Nat /\ 0 < low
  BY <1>1, SMT
<1>3. Divide(e, qe, less) = r
  <2>1. CASE upper
    BY <2>1 DEF Divide, Working
  <2>2. CASE ~upper
    BY <2>2 DEF Divide, Working
  <2> QED
    BY <2>1, <2>2
<1>4. c \in Nat /\ a \in Nat /\ 0 < a /\ a <= 2^16 /\ c + a <= e.c + e.a
  <2> HIDE DEF upper
  <2> QED
    BY <1>1, <1>2, SMT DEF Registers
<1> HIDE DEF c, a
<1>5. /\ r \in Working /\ r.c = c /\ r.a = a /\ r.ct = e.ct
      /\ r.buffer = e.buffer /\ r.out = e.out
  BY <1>4 DEF Working
<1> HIDE DEF r
<1>6. Registers(r)
  BY <1>4, <1>5 DEF Registers
<1>7. Bound(r) = Bound(e) /\ Bound(e) \in Nat
  BY <1>5, SMT DEF Bound
<1> DEFINE p == 2^e.ct
<1>8. p \in Nat /\ 0 < p
  BY <1>1, PowersUpTo11
<1>9. c + a \in Nat /\ e.c + e.a \in Nat
  BY <1>1, <1>4
<1>10. (e.c + e.a) * p <= Bound(e)
  BY DEF Spaced
<1>11. (c + a) * p <= (e.c + e.a) * p /\ (c + a) * p \in Nat /\ (e.c + e.a) * p \in Nat
  BY <1>4, <1>8, <1>9, Scaled
<1>12. (c + a) * p <= Bound(e)
  <2> HIDE DEF p
  <2> QED
    BY <1>7, <1>10, <1>11
<1>13. Spaced(r)
  BY <1>5, <1>7, <1>12 DEF Spaced
<1> QED
  BY <1>3, <1>5, <1>6, <1>13

LEMMA ShiftKeepsSpace ==
    ASSUME NEW e \in Working, Registers(e), Spaced(e), WellStuffed(e.out), e.a < 2^15
    PROVE  LET r == Shift(e) IN
           r \in Working /\ Registers(r) /\ Spaced(r) /\ WellStuffed(r.out)
<1> DEFINE s == [e EXCEPT !.a = 2 * @, !.c = 2 * @, !.ct = @ - 1]
<1>1. /\ e.c \in Nat /\ e.a \in Nat /\ e.ct \in Nat /\ e.buffer \in Int
      /\ 0 < e.ct /\ e.ct <= 11 /\ 0 < e.a /\ -1 <= e.buffer /\ e.buffer < 255
  BY DEF Working, Registers
<1> DEFINE a == 2 * e.a
           c == 2 * e.c
           ct == e.ct - 1
<1>2. a \in Nat /\ c \in Nat /\ ct \in Nat /\ 0 < a /\ a < 2^16
  BY <1>1, SMT
<1>3. s = [e EXCEPT !.a = a, !.c = c, !.ct = ct]
  OBVIOUS
<1>4. Shift(e) = IF s.ct = 0 THEN ByteOut(s) ELSE s
  BY DEF Shift
<1> HIDE DEF s, a, c, ct
<1>5. /\ s \in Working /\ s.c = c /\ s.a = a /\ s.ct = ct
      /\ s.buffer = e.buffer /\ s.out = e.out
  BY <1>2, <1>3 DEF Working
<1>6. Bound(s) = Bound(e) /\ Bound(e) \in Nat
  BY <1>5, SMT DEF Bound
<1>7. (e.c + e.a) * 2^e.ct <= Bound(e)
  BY DEF Spaced
<1>8. CASE ct = 0
  <2>0. e.ct = 1
    BY <1>1, <1>8, SMT DEF ct
  <2>1. 2^e.ct = 2
    BY <2>0, SMT
  <2>2. c + a <= Bound(s)
    BY <1>1, <1>6, <1>7, <2>1, SMT DEF c, a
  <2> QED
    BY <1>1, <1>2, <1>4, <1>5, <1>8, <2>2, ByteOutKeepsSpace
<1>9. CASE ct # 0
  <2>1. Registers(s)
    BY <1>1, <1>2, <1>5, <1>9, SMT DEF Registers, ct
  <2> DEFINE p == 2^ct
  <2>2. ct \in Nat /\ 0 < ct /\ ct <= 11
    BY <1>1, <1>2, <1>9, SMT DEF ct
  <2>3. p \in Nat /\ 0 < p
    BY <2>2, PowersUpTo11
  <2>4. 2^e.ct = 2 * p
    BY <1>1, <2>2, PowersUpTo11 DEF ct
  <2> HIDE DEF p
  <2>5. (e.c + e.a) * (2 * p) = (2 * (e.c + e.a)) * p
    BY <1>1, <2>3, Scaled
  <2>6. 2 * (e.c + e.a) = c + a
    BY <1>1, SMT DEF c, a
  <2>7. (c + a) * p <= Bound(s)
    BY <1>6, <1>7, <2>4, <2>5, <2>6
  <2>8. s.buffer >= 0 => ct <= 8
    BY <1>1, <1>5, SMT DEF Spaced, ct
  <2>9. Spaced(s)
    BY <1>5, <2>7, <2>8 DEF Spaced, p
  <2> QED
    BY <1>4, <1>5, <1>9, <2>1, <2>9
<1> QED
  BY <1>8, <1>9

LEMMA Invariant == CSpec => []Inv
<1>1. CInit => Inv
  BY SMT DEF CInit, Inv, Working, Registers, Spaced, Bound, WellStuffed
<1>2. Inv /\ [CNext]_coder => Inv'
  <2> SUFFICES ASSUME Inv, [CNext]_coder PROVE Inv'
    OBVIOUS
  <2>1. ASSUME NEW qe \in Nat, NEW less \in BOOLEAN, Decide(qe, less) PROVE Inv'
    BY <2>1, DivideKeepsSpace DEF Inv, Decide
  <2>2. ASSUME Round PROVE Inv'
    BY <2>2, ShiftKeepsSpace DEF Inv, Round
  <2>3. CASE UNCHANGED coder
    BY <2>3 DEF Inv
  <2> QED
    BY <2>1, <2>2, <2>3 DEF CNext
<1> QED
  BY <1>1, <1>2, PTL DEF CSpec

(* "The 3 spacer bits in the C register guarantee that the new buffer byte *)
(* can't be 0xFF" (arith_encode): for every sequence of decisions and any  *)
(* estimates below 2^15, the buffered byte can take a carry, and before    *)
(* there is one no carry comes.                                            *)
THEOREM CarriesHaveRoom == CSpec => [](HasRoom(coder) /\ coder.buffer # 255)
<1>1. Inv => HasRoom(coder) /\ coder.buffer # 255
  <2> SUFFICES ASSUME Inv PROVE HasRoom(coder) /\ coder.buffer # 255
    OBVIOUS
  <2>1. /\ coder.buffer \in Int /\ coder.c \in Nat /\ coder.a \in Nat
        /\ coder.ct \in Nat /\ 0 < coder.ct /\ coder.ct <= 11
    BY DEF Inv, Working, Registers
  <2>2. (coder.c + coder.a) * 2^coder.ct <= Bound(coder) /\ coder.buffer < 255
    BY DEF Inv, Spaced, Registers
  <2> DEFINE p == 2^coder.ct
             v == (coder.c + coder.a) * p
  <2>3. p \in Nat /\ 0 < p
    BY <2>1, PowersUpTo11
  <2>4. v \in Nat /\ v <= Bound(coder)
    BY <2>1, <2>2, <2>3, Scaled
  <2>5. HasRoom(coder) <=> v <= (IF coder.buffer >= 0 THEN 2^28 ELSE 2^27)
    BY DEF HasRoom
  <2> HIDE DEF v
  <2> QED
    BY <2>1, <2>2, <2>4, <2>5, SMT DEF Bound
<1> QED
  BY <1>1, Invariant, PTL

-----------------------------------------------------------------------------
LEMMA FinishIsStuffed ==
    ASSUME NEW e \in Working, Registers(e), Spaced(e), WellStuffed(e.out)
    PROVE  WellStuffed(finish_pass(e).out)
<1> DEFINE temp == ((e.a - 1 + e.c) \div 65536) * 65536
           base == IF temp < e.c THEN temp + 32768 ELSE temp
           c == base * 2^e.ct
           s == IF c \div 2^27 > 0 THEN CarryOver(e) ELSE Settle(e)
           first == (c \div 2^19) % 256
           second == (c \div 2^11) % 256
           last == IF second > 0 THEN Stuffed(second) ELSE <<>>
           bytes == Stuffed(first) \o last
<1>1. e.c \in Nat /\ e.a \in Nat /\ e.ct \in Nat /\ 0 < e.a /\ -1 <= e.buffer /\ e.buffer < 255
  BY DEF Working, Registers
<1>2. s \in Working /\ WellStuffed(s.out)
  BY <1>1, CarryOverIsStuffed, SettleIsStuffed DEF Same
<1>3. temp \in Nat
  BY <1>1, SMT
<1> HIDE DEF temp
<1>4. c \in Nat
  <2>1. 2^e.ct \in Nat /\ 0 < 2^e.ct
    BY <1>1, PowersUpTo11 DEF Registers
  <2>2. base \in Nat
    BY <1>3, SMT
  <2> HIDE DEF base
  <2> QED
    BY <2>1, <2>2, Scaled
<1>5. finish_pass(e) = IF (c \div 2^11) % 65536 = 0 THEN s ELSE EmitAfterZeros(s, bytes)
  BY DEF finish_pass, temp
<1> HIDE DEF c, s
<1>6. first \in Nat /\ second \in Nat
  BY <1>4, SMT
<1> HIDE DEF first, second
<1>7. /\ Stuffed(first) \in Seq(Nat) /\ WellStuffed(Stuffed(first))
      /\ Stuffed(second) \in Seq(Nat) /\ WellStuffed(Stuffed(second))
  BY <1>6, StuffedByte
<1>8. last \in Seq(Nat) /\ WellStuffed(last)
  BY <1>7 DEF WellStuffed
<1> HIDE DEF last
<1>9. bytes \in Seq(Nat) /\ WellStuffed(bytes)
  BY <1>7, <1>8, StuffedConcat
<1> HIDE DEF bytes
<1>10. WellStuffed(EmitAfterZeros(s, bytes).out)
  BY <1>2, <1>9, EmitIsStuffed DEF Same
<1> QED
  BY <1>2, <1>5, <1>10

(* emit_byte stuffs a 00 after each FF where it writes one: in the data of *)
(* a segment, whatever carries went through the bytes held back, no FF is  *)
(* followed by anything else, also when finish_pass cuts the rest short.   *)
THEOREM NoMarkerInData ==
    CSpec => [](WellStuffed(coder.out) /\ WellStuffed(finish_pass(coder).out))
<1>1. Inv => WellStuffed(coder.out) /\ WellStuffed(finish_pass(coder).out)
  BY FinishIsStuffed DEF Inv
<1> QED
  BY <1>1, Invariant, PTL

(* The value finish_pass chooses lies in the last interval, so its carry   *)
(* (c & 0xF8000000) is one bit that finds a byte to be added to; without   *)
(* such a byte it would be dropped and the decoder would read other data.  *)
FinalValue(e) ==
    LET temp == ((e.a - 1 + e.c) \div 65536) * 65536
    IN  (IF temp < e.c THEN temp + 32768 ELSE temp) * 2^e.ct

THEOREM FinalCarryHasRoom ==
    CSpec => [](coder.a >= 2^15 =>
                    /\ FinalValue(coder) \div 2^27 <= 1
                    /\ FinalValue(coder) \div 2^27 = 1 => coder.buffer >= 0
                    /\ coder.c * 2^coder.ct <= FinalValue(coder)
                    /\ FinalValue(coder) < (coder.c + coder.a) * 2^coder.ct)
<1>1. ASSUME NEW e \in Working, Registers(e), Spaced(e), e.a >= 2^15
      PROVE  /\ FinalValue(e) \div 2^27 <= 1
             /\ FinalValue(e) \div 2^27 = 1 => e.buffer >= 0
             /\ e.c * 2^e.ct <= FinalValue(e)
             /\ FinalValue(e) < (e.c + e.a) * 2^e.ct
  <2> DEFINE sum == e.a - 1 + e.c
             quot == sum \div 65536
             temp == quot * 65536
             c == IF temp < e.c THEN temp + 32768 ELSE temp
             p == 2^e.ct
             v == c * p
             top == (e.c + e.a) * p
  <2>0. 2^16 = 65536 /\ 2^15 = 32768
    BY SMT
  <2>1. e.c \in Nat /\ e.a \in Nat /\ e.ct \in Nat /\ e.buffer \in Int
    BY <1>1 DEF Working
  <2>2. 32768 <= e.a /\ e.a <= 65536 /\ p \in Nat /\ 0 < p /\ top <= Bound(e)
    BY <1>1, <2>0, <2>1, PowersUpTo11 DEF Registers, Spaced
  <2>3. FinalValue(e) = v
    BY DEF FinalValue
  <2> HIDE DEF p
  <2>4. sum \in Nat
    BY <2>1, <2>2, SMT
  <2> HIDE DEF sum
  <2>5. quot \in Nat /\ quot * 65536 <= sum /\ sum < quot * 65536 + 65536
    BY <2>4, SMT
  <2> HIDE DEF quot
  <2>6. c \in Nat /\ e.c <= c /\ c < e.c + e.a
    BY <2>1, <2>2, <2>5, SMT DEF sum
  <2> HIDE DEF c
  <2>7. e.c + e.a \in Nat
    BY <2>1
  <2>8. e.c * p <= v /\ v < top /\ v \in Nat /\ top \in Nat
    BY <2>1, <2>2, <2>6, <2>7, Scaled
  <2> HIDE DEF v, top
  <2>9. v \div 2^27 <= 1 /\ (v \div 2^27 = 1 => e.buffer >= 0)
    BY <2>1, <2>2, <2>8, SMT DEF Bound
  <2> QED
    BY <2>3, <2>8, <2>9 DEF p, top
<1>2. Inv => (coder.a >= 2^15 =>
                  /\ FinalValue(coder) \div 2^27 <= 1
                  /\ FinalValue(coder) \div 2^27 = 1 => coder.buffer >= 0
                  /\ coder.c * 2^coder.ct <= FinalValue(coder)
                  /\ FinalValue(coder) < (coder.c + coder.a) * 2^coder.ct)
  <2> QED
    BY <1>1 DEF Inv
<1> QED
  BY <1>2, Invariant, PTL
=============================================================================
