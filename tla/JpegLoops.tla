------------------------------ MODULE JpegLoops ------------------------------
(***************************************************************************)
(* The loops of the entropy coders.  A loop is cut in halves, and so are   *)
(* long sequences: a recursion of one level per pass over a block or a     *)
(* scan would be too deep for TLC.                                         *)
(***************************************************************************)
EXTENDS Naturals, Sequences

(* while (Goes(x)) x = Step(x), in at most n >= 1 passes.                  *)
While(Goes(_), Step(_), n, x) ==
    LET RECURSIVE Passes(_, _)
        Passes(m, y) ==
            CASE ~Goes(y) -> y
              [] Goes(y) /\ m = 1 -> Step(y)
              [] OTHER -> Passes(m - (m \div 2), Passes(m \div 2, y))
    IN  Passes(n, x)

(* The elements of the sequences seqs, one after the other.                *)
RECURSIVE Joined(_)
Joined(seqs) ==
    LET half == Len(seqs) \div 2
    IN  CASE seqs = <<>> -> <<>>
          [] Len(seqs) = 1 -> seqs[1]
          [] OTHER -> Joined(SubSeq(seqs, 1, half))
                      \o Joined(SubSeq(seqs, half + 1, Len(seqs)))
=============================================================================
