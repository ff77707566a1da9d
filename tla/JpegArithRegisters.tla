--------------------------- MODULE JpegArithRegisters ---------------------------
(***************************************************************************)
(* The registers of libjpeg's adaptive binary arithmetic encoder: one step *)
(* of arith_encode at a time, with the byte output that resolves carries,  *)
(* and the statistics bins which encoder and decoder share.                *)
(*                                                                         *)
(* A decision is a pair of a bin and a bit.  A bin is <<"dc" or "ac",      *)
(* table, index>>; stats maps the bins touched so far to their byte, the   *)
(* state in the low 7 bits and the more probable symbol above them, and    *)
(* every other bin is 0.                                                   *)
(***************************************************************************)
EXTENDS Integers, Sequences, TLC

(* The columns of jpeg_aritab, entry i at i + 1.                           *)
Qe_Value == <<
    23069, 9606, 4372, 2059, 984, 474, 229, 111, 54, 26, 13, 6, 3, 1, 23167,
    16165, 11506, 8316, 6073, 4482, 3311, 2465, 1839, 1372, 1030, 771, 576,
    433, 324, 245, 183, 138, 104, 78, 59, 44, 23265, 18508, 14861, 12017,
    9759, 7987, 6568, 5400, 4471, 3700, 3067, 2552, 2145, 1798, 1485, 1246,
    1039, 867, 724, 604, 504, 420, 352, 293, 246, 203, 171, 143, 23314,
    19716, 16684, 14296, 12264, 10556, 9081, 7903, 6825, 5966, 5156, 4508,
    3947, 3409, 2998, 2624, 22578, 19740, 17294, 15325, 13550, 11950, 10650,
    9494, 21872, 19625, 17625, 15906, 14372, 12980, 11799, 22184, 20294,
    18405, 16847, 15421, 14174, 21041, 19471, 17977, 16734, 22055, 20711,
    19333, 21911, 20559, 23056, 21794, 23019, 23069 >>

Next_LPS == <<
    1, 14, 16, 18, 20, 23, 25, 28, 30, 33, 35, 9, 10, 12, 15, 36, 38, 39,
    40, 42, 43, 45, 46, 48, 49, 51, 52, 54, 56, 57, 59, 60, 62, 63, 32, 33,
    37, 64, 65, 67, 68, 69, 70, 72, 73, 74, 75, 77, 78, 79, 48, 50, 50, 51,
    52, 53, 54, 55, 56, 57, 58, 59, 61, 61, 65, 80, 81, 82, 83, 84, 86, 87,
    87, 72, 72, 74, 74, 75, 77, 77, 80, 88, 89, 90, 91, 92, 93, 86, 88, 95,
    96, 97, 99, 99, 93, 95, 101, 102, 103, 104, 99, 105, 106, 107, 103, 105,
    108, 109, 110, 111, 110, 112, 112, 113 >>

Next_MPS == <<
    1, 2, 3, 4, 5, 6, 7, 8, 9, 10, 11, 12, 13, 13, 15, 16, 17, 18, 19, 20,
    21, 22, 23, 24, 25, 26, 27, 28, 29, 30, 31, 32, 33, 34, 35, 9, 37, 38,
    39, 40, 41, 42, 43, 44, 45, 46, 47, 48, 49, 50, 51, 52, 53, 54, 55, 56,
    57, 58, 59, 60, 61, 62, 63, 32, 65, 66, 67, 68, 69, 70, 71, 72, 73, 74,
    75, 76, 77, 78, 79, 48, 81, 82, 83, 84, 85, 86, 87, 71, 89, 90, 91, 92,
    93, 94, 86, 96, 97, 98, 99, 100, 93, 102, 103, 104, 99, 106, 107, 103,
    109, 107, 111, 109, 111, 113 >>

Switch_MPS == {0, 14, 36, 64, 80, 88, 95, 105, 110, 112}

Fixed == <<"fixed", 0, 0>>

Bin(stats, bin) ==
    IF bin = Fixed THEN 113 ELSE IF bin \in DOMAIN stats THEN stats[bin] ELSE 0

(* The estimation after the less (more) probable symbol.                   *)
AfterLPS(sv) ==
    LET mps == sv \div 128
        i == sv % 128
    IN  Next_LPS[i + 1] + (128 * (IF i \in Switch_MPS THEN 1 - mps ELSE mps))
AfterMPS(sv) == Next_MPS[(sv % 128) + 1] + (128 * (sv \div 128))

-----------------------------------------------------------------------------
(* Output: out has the bytes written; buffer holds the last one, which a   *)
(* carry may still change, sc counts the FFs and zc the 00s behind it.     *)

Stuffed(byte) == IF byte = 255 THEN <<255, 0>> ELSE <<byte>>

EmitAfterZeros(e, bytes) ==
    [e EXCEPT !.out = @ \o [i \in 1..e.zc |-> 0] \o bytes, !.zc = 0]

(* Mutant: FE made FF by a carry is not stuffed.                           *)
CarryOver_Unstuffed(e) ==
    LET b == IF e.buffer >= 0 THEN EmitAfterZeros(e, <<e.buffer + 1>>) ELSE e
    IN  [b EXCEPT !.zc = @ + e.sc, !.sc = 0]

(* A carry goes through the stacked FFs into the buffer.                   *)
CarryOver(e) ==
    LET b == IF e.buffer >= 0 THEN EmitAfterZeros(e, Stuffed(e.buffer + 1))
             ELSE e
    IN  [b EXCEPT !.zc = @ + e.sc, !.sc = 0]

(* No carry can come any more: the buffer and the stacked FFs are final.   *)
Settle(e) ==
    LET b == CASE e.buffer = 0 -> [e EXCEPT !.zc = @ + 1]
               [] e.buffer > 0 -> EmitAfterZeros(e, <<e.buffer>>)
               [] OTHER -> e
    IN  IF b.sc = 0 THEN b
        ELSE [EmitAfterZeros(b, [i \in 1..(2 * b.sc) |-> IF i % 2 = 1 THEN 255 ELSE 0])
                  EXCEPT !.sc = 0]

(* Mutant: the bit of a carry that was passed on stays in c.               *)
ByteOut_CarryKept(e) ==
    LET temp == e.c \div 2^19
        r == CASE temp > 255 -> [CarryOver(e) EXCEPT !.buffer = temp % 256]
               [] temp = 255 -> [e EXCEPT !.sc = @ + 1]
               [] OTHER -> [Settle(e) EXCEPT !.buffer = temp]
    IN  [r EXCEPT !.c = @ % 2^20, !.ct = @ + 8]

ByteOut(e) ==
    LET temp == e.c \div 2^19
        r == CASE temp > 255 -> [CarryOver(e) EXCEPT !.buffer = temp % 256]
               [] temp = 255 -> [e EXCEPT !.sc = @ + 1]
               [] OTHER -> [Settle(e) EXCEPT !.buffer = temp]
    IN  [r EXCEPT !.c = @ % 2^19, !.ct = @ + 8]

(* The interval is divided: its lower part is for the more probable        *)
(* symbol, unless that is the smaller part.                                *)
Divide(e, qe, less) ==
    IF less = (e.a - qe >= qe) THEN [e EXCEPT !.a = qe, !.c = @ + (e.a - qe)]
    ELSE [e EXCEPT !.a = @ - qe]

(* A decision up to its renormalization, which nothing but the narrowed    *)
(* interval calls for: one that keeps a above 2^15 is not estimated anew.  *)
Narrow(e, decision) ==
    LET bin == decision[1]
        sv == Bin(e.stats, bin)
        qe == Qe_Value[(sv % 128) + 1]
        less == decision[2] # sv \div 128
        estimate == IF less THEN AfterLPS(sv) ELSE AfterMPS(sv)
    IN  IF ~less /\ e.a - qe >= 32768 THEN [e EXCEPT !.a = @ - qe]
        ELSE [Divide(e, qe, less) EXCEPT !.stats = (bin :> estimate) @@ @]

(* One round of the renormalization loop, entered with a below 2^15.       *)
Shift(e) ==
    LET s == [e EXCEPT !.a = 2 * @, !.c = 2 * @, !.ct = @ - 1]
    IN  IF s.ct = 0 THEN ByteOut(s) ELSE s

EncoderReset == [c |-> 0, a |-> 65536, sc |-> 0, zc |-> 0, ct |-> 11,
                 buffer |-> -1]

(* finish_pass: the value of the last interval with the most trailing      *)
(* zeros, whose zero bytes are not written.                                *)
finish_pass(e) ==
    LET temp == ((e.a - 1 + e.c) \div 65536) * 65536
        c == (IF temp < e.c THEN temp + 32768 ELSE temp) * 2^e.ct
        s == IF c \div 2^27 > 0 THEN CarryOver(e) ELSE Settle(e)
        first == (c \div 2^19) % 256
        second == (c \div 2^11) % 256
    IN  IF (c \div 2^11) % 65536 = 0 THEN s
        ELSE EmitAfterZeros(s, Stuffed(first)
                               \o (IF second > 0 THEN Stuffed(second) ELSE <<>>))

(* What is left of the interval fits the register: c and the byte in       *)
(* buffer, which a carry may reach, or c alone before there is one.        *)
HasRoom(e) == (e.c + e.a) * 2^e.ct <= IF e.buffer >= 0 THEN 2^28 ELSE 2^27
=============================================================================
