------------------------------ MODULE JpegScan ------------------------------
(***************************************************************************)
(* What the entropy coders of libjpeg have in common: how a scan cuts an   *)
(* image into MCUs, what a decoder has seen of a coefficient after some    *)
(* scans, and the restart markers of the coded data, with the reader that  *)
(* finds its way back to them (jdmarker.c).                                *)
(*                                                                         *)
(* A block is a function on 0..LimSe, in the order of jpeg_natural_order   *)
(* (the zigzag); an image maps each component to a sequence of blocks.  A  *)
(* scan is a record of Ss, Se, Ah, Al and membership, the component of     *)
(* each block of an MCU (MCU_membership).                                  *)
(***************************************************************************)
EXTENDS Integers, Sequences, FiniteSets, SequencesExt, JpegLoops

CONSTANT LimSe              \* lim_Se, the last coefficient of a block

ASSUME LimSeAssumption == LimSe \in 1..63

M_SOF0 == 192
M_RST0 == 208
M_EOI == 217
ZeroBlock == [k \in 0..LimSe |-> 0]

Abs(x) == IF x < 0 THEN -x ELSE x

-----------------------------------------------------------------------------
(* MCUs.                                                                   *)

OfComponent(scan, c) == {j \in DOMAIN scan.membership : scan.membership[j] = c}

McuCount(image, scan) ==
    LET c == scan.membership[1]
    IN  Len(image[c]) \div Cardinality(OfComponent(scan, c))

(* Where block j of MCU i of a scan is in the image (jccoefct.c).          *)
BlockNumber(scan, i, j) ==
    LET same == OfComponent(scan, scan.membership[j])
    IN  ((i - 1) * Cardinality(same)) + Cardinality({b \in same : b <= j})

McuBlocks(image, scan, i) ==
    [j \in DOMAIN scan.membership |->
        image[scan.membership[j]][BlockNumber(scan, i, j)]]

StoreMcu(image, scan, i, blocks) ==
    [c \in DOMAIN image |->
        [n \in DOMAIN image[c] |->
            IF \E j \in OfComponent(scan, c) : BlockNumber(scan, i, j) = n
            THEN blocks[CHOOSE j \in OfComponent(scan, c) :
                            BlockNumber(scan, i, j) = n]
            ELSE image[c][n]]]

(* The part of a coefficient that a scan with point transform Al carries.  *)
PointTransform(k, v, Al) ==
    IF k = 0 THEN (v \div 2^Al) * 2^Al
    ELSE IF v < 0 THEN -(((-v) \div 2^Al) * 2^Al) ELSE (v \div 2^Al) * 2^Al

(* A block of component c as the scans tell it; 0 where none has yet.      *)
Told(scans, c, block) ==
    [k \in 0..LimSe |->
        LET of == {s \in DOMAIN scans : /\ OfComponent(scans[s], c) # {}
                                        /\ k \in scans[s].Ss..scans[s].Se}
        IN  IF of = {} THEN 0
            ELSE PointTransform(k, block[k],
                                scans[CHOOSE s \in of : \A t \in of : t <= s].Al)]

-----------------------------------------------------------------------------
(* Restart markers in coded data, a sequence of bytes.                     *)

Markers(bytes) ==
    SelectSeq([i \in 1..(Len(bytes) - 1) |-> i],
              LAMBDA i : bytes[i] = 255 /\ bytes[i + 1] \notin {0, 255})

(* The segments between the markers, each with the marker that ends it.    *)
Segments(bytes) ==
    LET m == Markers(bytes)
    IN  [s \in 1..(Len(m) + 1) |->
            SubSeq(bytes, IF s = 1 THEN 1 ELSE m[s - 1] + 2,
                   IF s > Len(m) THEN Len(bytes) ELSE m[s] + 1)]

(* next_marker, on a source src with the fields bytes and unread_marker:   *)
(* everything up to the next marker is skipped.  Without one the source    *)
(* keeps only the FFs that may begin it, and found is FALSE.               *)
next_marker(src) ==
    LET b == src.bytes
        ends == {i \in 2..Len(b) : b[i - 1] = 255 /\ b[i] \notin {0, 255}}
        end == CHOOSE i \in ends : \A j \in ends : i <= j
        kept == {i \in 1..Len(b) : \A j \in i..Len(b) : b[j] = 255}
    IN  IF ends # {}
        THEN [found |-> TRUE,
              src |-> [src EXCEPT !.bytes = SubSeq(b, end + 1, Len(b)),
                                  !.unread_marker = b[end]]]
        ELSE [found |-> FALSE,
              src |-> [src EXCEPT
                          !.bytes = SubSeq(b, Len(b) - Cardinality(kept) + 1,
                                           Len(b))]]

(* Mutant: the end of the image is skipped like an invalid marker.         *)
RecoveryAction_PastEoi(marker, desired) ==
    IF marker \in M_RST0..(M_RST0 + 7) THEN "leave" ELSE "advance"

(* What to do about a marker that is not the desired restart.              *)
RecoveryAction(marker, desired) ==
    LET Restart(i) == M_RST0 + ((desired + i) % 8)
    IN  CASE marker < M_SOF0 -> "advance"
          [] marker >= M_SOF0 /\ marker \notin M_RST0..(M_RST0 + 7) -> "leave"
          [] marker \in {Restart(1), Restart(2)} -> "leave"
          [] marker \in {Restart(7), Restart(6)} -> "advance"
          [] OTHER -> "discard"

RECURSIVE jpeg_resync_to_restart(_, _)
jpeg_resync_to_restart(src, desired) ==
    CASE RecoveryAction(src.unread_marker, desired) = "discard" ->
             [found |-> TRUE, src |-> [src EXCEPT !.unread_marker = 0]]
      [] RecoveryAction(src.unread_marker, desired) = "leave" ->
             [found |-> TRUE, src |-> src]
      [] OTHER ->
             LET n == next_marker(src)
             IN  IF n.found THEN jpeg_resync_to_restart(n.src, desired) ELSE n

(* read_restart_marker, with the number of the next restart in the source. *)
read_restart_marker(source) ==
    LET n == IF source.unread_marker = 0 THEN next_marker(source)
             ELSE [found |-> TRUE, src |-> source]
        desired == source.next_restart_num
        r == IF n.src.unread_marker = M_RST0 + desired
             THEN [found |-> TRUE, src |-> [n.src EXCEPT !.unread_marker = 0]]
             ELSE jpeg_resync_to_restart(n.src, desired)
    IN  IF ~n.found THEN n
        ELSE IF ~r.found THEN r
        ELSE [r EXCEPT !.src.next_restart_num = (desired + 1) % 8]

-----------------------------------------------------------------------------
(* Faults of the data between the coder and the decoder, and the segments  *)
(* whose MCUs they may spoil.                                              *)

NoFault == [kind |-> "none", at |-> 0, count |-> 0]

Damaged(bytes, fault) ==
    LET segs == Segments(bytes)
        s == fault.at
        data == SubSeq(segs[s], 1, Len(segs[s]) - 2)
    IN  CASE fault.kind = "none" -> bytes
          [] fault.kind = "lost" ->
                 Joined([i \in DOMAIN segs |->
                     IF i \in s..(s + fault.count - 1) THEN <<>> ELSE segs[i]])
          [] fault.kind = "twice" ->
                 Joined([segs EXCEPT ![s] = @ \o @])
          [] fault.kind = "cut" ->
                 Joined([segs EXCEPT
                     ![s] = SubSeq(data, 1, Len(data) - fault.count)
                            \o SubSeq(@, Len(@) - 1, Len(@))])

MayBeSpoilt(fault) ==
    CASE fault.kind = "none" -> {}
      [] fault.kind = "lost" -> fault.at..(fault.at + fault.count)
      [] fault.kind = "twice" -> {fault.at + 1}
      [] fault.kind = "cut" -> {fault.at}
=============================================================================
