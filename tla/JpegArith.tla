------------------------------ MODULE JpegArith ------------------------------
(***************************************************************************)
(* The arithmetic entropy encoder (jcarith.c) and decoder (jdarith.c), of  *)
(* sequential and progressive scans: the decisions that make up a value,   *)
(* each in its statistics bin.                                             *)
(***************************************************************************)
EXTENDS JpegScan, JpegArithCoder

CONSTANTS
    tbl_no,     \* the statistics table of each component
    Conditioning \* arith_dc_L, arith_dc_U and arith_ac_K: the records L, U, K

VARIABLE job    \* the image and the parameters of its compression

-----------------------------------------------------------------------------
(* Values as decisions.                                                    *)

Log2(w) == CHOOSE n \in 0..15 : 2^n <= w /\ w < 2^(n + 1)

(* The bits of w below its highest, all in one bin.                        *)
MagnitudeBits(bin, w) ==
    [i \in 1..Log2(w) |-> <<bin, (w \div 2^(Log2(w) - i)) % 2>>]

DcContext(negative, m) ==
    CASE m < 2^Conditioning.L \div 2 -> 0
      [] m >= 2^Conditioning.L \div 2 /\ m > 2^Conditioning.U \div 2 ->
             12 + (4 * negative)
      [] OTHER -> 4 + (4 * negative)

(* The decisions of a DC difference v and the context of the next.         *)
DcDecisions(tbl, context, v) ==
    LET S(i) == <<"dc", tbl, i>>
        negative == IF v < 0 THEN 1 ELSE 0
        w == Abs(v) - 1
        X == context + 2 + negative
        category == IF w = 0 THEN <<<<S(X), 0>>>>
                    ELSE <<<<S(X), 1>>>>
                         \o [i \in 1..Log2(w) |-> <<S(19 + i), 1>>]
                         \o <<<<S(20 + Log2(w)), 0>>>>
                         \o MagnitudeBits(S(34 + Log2(w)), w)
    IN  IF v = 0 THEN [context |-> 0, decisions |-> <<<<S(context), 0>>>>]
        ELSE [context |-> DcContext(negative, IF w = 0 THEN 0 ELSE 2^Log2(w)),
              decisions |-> <<<<S(context), 1>>, <<S(context + 1), negative>>>>
                            \o category]

(* The decisions of the magnitude of coefficient k.                        *)
AcMagnitude(tbl, k, v) ==
    LET S(i) == <<"ac", tbl, i>>
        w == Abs(v) - 1
        X == (3 * (k - 1)) + 2
        base == IF k <= Conditioning.K THEN 189 ELSE 217
    IN  CASE w = 0 -> <<<<S(X), 0>>>>
          [] w = 1 -> <<<<S(X), 1>>, <<S(X), 0>>>>
          [] OTHER -> <<<<S(X), 1>>, <<S(X), 1>>>>
                      \o [i \in 1..(Log2(w) - 1) |-> <<S(base + i - 1), 1>>]
                      \o <<<<S(base + Log2(w) - 1), 0>>>>
                      \o MagnitudeBits(S(base + 13 + Log2(w)), w)

LastOf(S) == IF S = {} THEN 0 ELSE CHOOSE k \in S : \A j \in S : j <= k

(* The coefficients Ss..Se of a block after the point transform by Al; in  *)
(* a refinement only the lowest bit of those nonzero before is coded.      *)
AcDecisions(tbl, s, block) ==
    LET S(i) == <<"ac", tbl, i>>
        v(k) == (IF block[k] < 0 THEN -1 ELSE 1)
                * (Abs(block[k]) \div 2^s.Al)
        known(k) == Abs(block[k]) \div 2^s.Ah
        ke == LastOf({k \in 1..s.Se : v(k) # 0})
        kex == IF s.Ah = 0 THEN 0 ELSE LastOf({k \in 1..ke : known(k) # 0})
        sign(k) == <<Fixed, IF v(k) < 0 THEN 1 ELSE 0>>
        begins(k) == (k = s.Ss \/ v(k - 1) # 0) /\ k > kex
        value(k) == IF v(k) = 0 THEN <<<<S(3 * (k - 1) + 1), 0>>>>
                    ELSE IF s.Ah > 0 /\ known(k) # 0
                    THEN <<<<S(3 * (k - 1) + 2), Abs(v(k)) % 2>>>>
                    ELSE <<<<S(3 * (k - 1) + 1), 1>>, sign(k)>>
                         \o (IF s.Ah > 0 THEN <<>>
                             ELSE AcMagnitude(tbl, k, v(k)))
        coded == [i \in 1..(ke - s.Ss + 1) |->
                    LET k == s.Ss + i - 1
                    IN  IF begins(k)
                        THEN <<<<S(3 * (k - 1)), 0>>>> \o value(k)
                        ELSE value(k)]
        next == IF ke < s.Ss THEN s.Ss ELSE ke + 1
    IN  Joined(coded)
        \o (IF next <= s.Se THEN <<<<S(3 * (next - 1)), 1>>>> ELSE <<>>)

-----------------------------------------------------------------------------
(* The encoder.                                                            *)

Zeros(S) == [x \in S |-> 0]

StartEncoder ==
    EncoderReset @@ [out |-> <<>>, stats |-> <<>>, decisions |-> <<>>,
                     last_dc_val |-> Zeros(DOMAIN job.image),
                     dc_context |-> Zeros(DOMAIN job.image),
                     restarts_to_go |-> job.restart_interval,
                     next_restart_num |-> 0]

(* Statistics areas, DC predictions and contexts begin again.              *)
Resynchronized(e) ==
    [e EXCEPT !.stats = <<>>,
              !.last_dc_val = Zeros(DOMAIN @), !.dc_context = Zeros(DOMAIN @)]

emit_restart(e) ==
    LET f == finish_pass(e)
    IN  EncoderReset @@
        [Resynchronized(f) EXCEPT
            !.out = @ \o <<255, M_RST0 + e.next_restart_num>>,
            !.next_restart_num = (@ + 1) % 8,
            !.restarts_to_go = job.restart_interval]

EncodeDc(e, c, v) ==
    LET d == DcDecisions(tbl_no[c], e.dc_context[c], v - e.last_dc_val[c])
    IN  EncodeDecisions([e EXCEPT !.dc_context[c] = d.context,
                                  !.last_dc_val[c] = v,
                                  !.decisions = d.decisions])

EncodeAc(e, c, s, block) ==
    EncodeDecisions([e EXCEPT !.decisions = AcDecisions(tbl_no[c], s, block)])

EncodeBlock(e, c, s, block) ==
    CASE s.Ss = 0 /\ s.Ah > 0 ->
             arith_encode(e, <<Fixed, (block[0] \div 2^s.Al) % 2>>)
      [] s.Ss = 0 /\ s.Ah = 0 ->
             LET dc == EncodeDc(e, c, block[0] \div 2^s.Al)
             IN  IF s.Se = 0 THEN dc
                 ELSE EncodeAc(dc, c, [s EXCEPT !.Ss = 1], block)
      [] OTHER -> EncodeAc(e, c, s, block)

encode_mcu(e, s, blocks) ==
    LET r == IF job.restart_interval > 0 /\ e.restarts_to_go = 0
             THEN emit_restart(e) ELSE e
        counted == IF job.restart_interval = 0 THEN r
                   ELSE [r EXCEPT !.restarts_to_go = @ - 1]
    IN  FoldLeft(LAMBDA f, j : EncodeBlock(f, s.membership[j], s, blocks[j]),
                 counted, [j \in DOMAIN blocks |-> j])

-----------------------------------------------------------------------------
(* The decoder; failed says that a code out of range was met, which        *)
(* jdarith.c marks with ct = -1, and block is the block in hand.           *)

StartDecoder ==
    DecoderReset @@ [bytes |-> <<>>, suspended |-> TRUE, unread_marker |-> 0, bit |-> 0,
                     stats |-> <<>>,
                     last_dc_val |-> Zeros(DOMAIN job.image),
                     dc_context |-> Zeros(DOMAIN job.image),
                     restarts_to_go |-> job.restart_interval,
                     next_restart_num |-> 0]

Failed(d) == [d EXCEPT !.ct = -1]

process_restart(d) ==
    DecoderReset @@
    [Resynchronized(read_restart_marker(d).src) EXCEPT
        !.restarts_to_go = job.restart_interval]

(* From bin i upwards, one more doubling of m for each 1.                  *)
RECURSIVE DecodeCategory(_, _, _, _)
DecodeCategory(d, area, i, m) ==
    LET Said(n) == CASE n.bit = 0 -> [d |-> n, bin |-> i, m |-> m]
                     [] n.bit = 1 /\ 2 * m = 32768 ->
                            [d |-> Failed(n), bin |-> i, m |-> 2 * m]
                     [] OTHER -> DecodeCategory(n, area, i + 1, 2 * m)
    IN  Said(arith_decode(d, Append(area, i)))

RECURSIVE DecodeBits(_, _, _, _)
DecodeBits(d, bin, m, v) ==
    LET Said(n) == DecodeBits(n, bin, m \div 2, v + (n.bit * (m \div 2)))
    IN  IF m <= 1 THEN [d |-> d, v |-> v] ELSE Said(arith_decode(d, bin))

Short(x) == ((x + 32768) % 65536) - 32768
Signed(negative, w) == IF negative = 1 THEN -(w + 1) ELSE w + 1

(* The value of a category: its lower bits follow it.                      *)
DecodeMagnitude(cat, area, negative) ==
    LET Value(bits) == [d |-> bits.d, v |-> Signed(negative, bits.v)]
    IN  IF cat.m = 32768 THEN [d |-> cat.d, v |-> 0]
        ELSE Value(DecodeBits(cat.d, Append(area, cat.bin + 14), cat.m, cat.m))

DecodeDc(d, c) ==
    LET area == <<"dc", tbl_no[c]>>
        S(i) == Append(area, i)
        Whole(m, negative, x) ==
            IF m = 32768 THEN x.d
            ELSE [x.d EXCEPT !.dc_context[c] = DcContext(negative, m),
                             !.last_dc_val[c] = @ + x.v]
        Category(cat, negative) ==
            Whole(cat.m, negative, DecodeMagnitude(cat, area, negative))
        More(more, X, negative) ==
            Category(IF more.bit = 0 THEN [d |-> more, bin |-> X, m |-> 0]
                     ELSE DecodeCategory(more, area, 20, 1), negative)
        First(sign, X) == More(arith_decode(sign, S(X)), X, sign.bit)
        Sign(sign) == First(sign, d.dc_context[c] + 2 + sign.bit)
        Zero(zero) == IF zero.bit = 0 THEN [zero EXCEPT !.dc_context[c] = 0]
                      ELSE Sign(arith_decode(zero, S(d.dc_context[c] + 1)))
    IN  Zero(arith_decode(d, S(d.dc_context[c])))

(* The value of a coefficient newly nonzero.                               *)
DecodeValue(d, tbl, k) ==
    LET area == <<"ac", tbl>>
        X == (3 * (k - 1)) + 2
        Two(two) == IF two.bit = 0 THEN [d |-> two, bin |-> X, m |-> 1]
                    ELSE DecodeCategory(two, area,
                             IF k <= Conditioning.K THEN 189 ELSE 217, 2)
        One(one) == IF one.bit = 0 THEN [d |-> one, bin |-> X, m |-> 0]
                    ELSE Two(arith_decode(one, Append(area, X)))
        Sign(sign) == DecodeMagnitude(One(arith_decode(sign, Append(area, X))),
                                      area, sign.bit)
    IN  Sign(arith_decode(d, Fixed))

(* Coefficients first..Se; within says that a run of zeros has not ended.  *)
DecodeAc(d, tbl, s, block, first) ==
    LET S(k, i) == <<"ac", tbl, (3 * (k - 1)) + i>>
        kex == IF s.Ah = 0 THEN 0 ELSE LastOf({i \in 1..s.Se : block[i] # 0})
        refine(k) == s.Ah > 0 /\ block[k] # 0
        asks(x) == ~x.within /\ x.k > kex
        Stop(x, n) == [x EXCEPT !.d = n, !.k = s.Se + 1]
        After(x, n, v, in) == [x EXCEPT !.d = n, !.block[x.k] = v, !.k = @ + 1,
                                        !.within = in]
        Corrected(v, bit) == v + (bit * Signed(IF v < 0 THEN 1 ELSE 0, 0) * 2^s.Al)
        New(x, new) == IF new.d.ct = -1 THEN Stop(x, new.d)
                       ELSE After(x, new.d, Short(new.v * 2^s.Al), FALSE)
        Sign(sign) == [d |-> sign, v |-> Signed(sign.bit, 0)]
        Tested(x, test) ==
            CASE refine(x.k) ->
                     After(x, test, Corrected(block[x.k], test.bit), FALSE)
              [] ~refine(x.k) /\ test.bit = 0 -> After(x, test, block[x.k], TRUE)
              [] OTHER -> New(x, IF s.Ah = 0 THEN DecodeValue(test, tbl, x.k)
                                 ELSE Sign(arith_decode(test, Fixed)))
        Asked(x, eob) ==
            IF asks(x) /\ eob.bit = 1 THEN Stop(x, eob)
            ELSE Tested(x, arith_decode(eob, S(x.k, IF refine(x.k) THEN 2 ELSE 1)))
        Next(x) == Asked(x, IF asks(x) THEN arith_decode(x.d, S(x.k, 0)) ELSE x.d)
        Ended(x) == IF x.within THEN [x EXCEPT !.d = Failed(@)] ELSE x
    IN  Ended(While(LAMBDA x : x.k <= s.Se, Next, LimSe,
                    [d |-> d, block |-> block, k |-> first, within |-> FALSE]))

DecodeBlock(d, c, s, block) ==
    LET Ac(n, b) == DecodeAc(n, tbl_no[c], s, b, IF s.Ss = 0 THEN 1 ELSE s.Ss)
        WithDc(dc) == [block EXCEPT ![0] = Short(dc.last_dc_val[c] * 2^s.Al)]
        Dc(dc) == CASE dc.ct = -1 -> [d |-> dc, block |-> block]
                    [] dc.ct # -1 /\ s.Se = 0 -> [d |-> dc, block |-> WithDc(dc)]
                    [] OTHER -> Ac(dc, WithDc(dc))
        Refined(bit) == [d |-> bit, block |-> [block EXCEPT ![0] =
                             IF bit.bit = 1 /\ (@ \div 2^s.Al) % 2 = 0
                             THEN @ + 2^s.Al ELSE @]]
    IN  CASE s.Ss = 0 /\ s.Ah > 0 -> Refined(arith_decode(d, Fixed))
          [] s.Ss = 0 /\ s.Ah = 0 -> Dc(DecodeDc(d, c))
          [] OTHER -> Ac(d, block)

(* One MCU; after an error nothing is decoded up to the next restart.      *)
decode_mcu(d, s, blocks) ==
    LET Counted(r) == IF job.restart_interval = 0 THEN r
                      ELSE [r EXCEPT !.restarts_to_go = @ - 1]
        restarted == IF job.restart_interval > 0 /\ d.restarts_to_go = 0
                     THEN process_restart(d) ELSE d
        Stored(x, j, b) == [d |-> b.d, blocks |-> [x.blocks EXCEPT ![j] = b.block]]
        step(x, j) == IF x.d.ct = -1 THEN x
                      ELSE Stored(x, j, DecodeBlock(x.d, s.membership[j], s, blocks[j]))
    IN  FoldLeft(step, [d |-> Counted(restarted), blocks |-> blocks],
                 [j \in DOMAIN blocks |-> j])
=============================================================================
