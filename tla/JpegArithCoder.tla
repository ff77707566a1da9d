----------------------------- MODULE JpegArithCoder -----------------------------
(***************************************************************************)
(* The adaptive binary arithmetic coder of libjpeg: sequences of decisions *)
(* coded with the registers of JpegArithRegisters, and the decoder.        *)
(***************************************************************************)
EXTENDS FiniteSets, JpegArithRegisters, JpegLoops

RECURSIVE Renormalize(_)
Renormalize(e) == IF e.a < 32768 THEN Renormalize(Shift(e)) ELSE e

arith_encode(e, decision) == Renormalize(Narrow(e, decision))

(* The first of the decisions to be coded, and all of them.                *)
EncodeNext(e) ==
    arith_encode([e EXCEPT !.decisions = Tail(@)], Head(e.decisions))

EncodeDecisions(e) ==
    IF e.decisions = <<>> THEN e
    ELSE While(LAMBDA f : f.decisions # <<>>, EncodeNext, Len(e.decisions), e)

-----------------------------------------------------------------------------
(* The decoder, reading d.bytes; d.bit is the last decision.               *)

(* One byte of the stuffed data; zeros once a marker has been met.  The    *)
(* data end with a marker.                                                 *)
DataByte(d) ==
    LET b == d.bytes
        run == {i \in DOMAIN b : \A j \in 1..i : b[j] = 255}
        after == SubSeq(b, Cardinality(run) + 1, Len(b))
    IN  CASE d.unread_marker # 0 -> [d |-> d, data |-> 0]
          [] d.unread_marker = 0 /\ b[1] # 255 ->
                 [d |-> [d EXCEPT !.bytes = Tail(b)], data |-> b[1]]
          [] d.unread_marker = 0 /\ b[1] = 255 /\ after[1] = 0 ->
                 [d |-> [d EXCEPT !.bytes = Tail(after)], data |-> 255]
          [] OTHER ->
                 [d |-> [d EXCEPT !.bytes = Tail(after),
                                  !.unread_marker = after[1]], data |-> 0]

RECURSIVE FillInterval(_)
FillInterval(d) ==
    LET ct == d.ct - 1
        Begun(read) == IF ct + 8 >= 0 THEN read
                       ELSE [read EXCEPT !.ct = @ + 1,
                                         !.a = IF ct + 9 = 0 THEN 32768 ELSE @]
        Read(r) == [r.d EXCEPT !.c = (256 * @) + r.data, !.ct = ct + 8]
        Next(next) == FillInterval([next EXCEPT !.a = 2 * @])
    IN  IF d.a >= 32768 THEN d
        ELSE Next(IF ct < 0 THEN Begun(Read(DataByte(d))) ELSE [d EXCEPT !.ct = ct])

(* The interval of f is divided at a: the upper part is for the less       *)
(* probable symbol unless it is larger.                                    *)
Divided(f, bin, sv, qe, a) ==
    LET upper == f.c >= a * 2^f.ct
        less == upper = (a >= qe)
        new == [f EXCEPT !.stats = (bin :> IF less THEN AfterLPS(sv) ELSE AfterMPS(sv)) @@ @,
                         !.bit = IF less THEN 1 - (sv \div 128) ELSE sv \div 128]
    IN  CASE upper -> [new EXCEPT !.c = @ - a * 2^f.ct, !.a = qe]
          [] ~upper /\ a < 32768 -> [new EXCEPT !.a = a]
          [] OTHER -> [f EXCEPT !.a = a, !.bit = sv \div 128]

arith_decode(d, bin) ==
    LET Sized(f, sv, qe) == Divided(f, bin, sv, qe, f.a - qe)
        Looked(f, sv) == Sized(f, sv, Qe_Value[(sv % 128) + 1])
        Filled(f) == Looked(f, Bin(f.stats, bin))
    IN  Filled(FillInterval(d))

(* The two initial bytes of c are read with the first decision.            *)
DecoderReset == [c |-> 0, a |-> 0, ct |-> -16]
=============================================================================
