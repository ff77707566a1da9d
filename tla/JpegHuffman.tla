---------------------------- MODULE JpegHuffman ----------------------------
(***************************************************************************)
(* The Huffman entropy encoder (jchuff.c) and decoder (jdhuff.c), of       *)
(* sequential and progressive scans.  A first pass may count the symbols   *)
(* of a scan for its tables.  The decoder suspends when the data that have *)
(* arrived end within an MCU, and does the MCU again when more have come.  *)
(***************************************************************************)
EXTENDS JpegScan, JpegHuffTables

CONSTANTS
    tbl_no,     \* the tables of each component
    MAX_CORR_BITS, \* the correction bits an encoder can hold (1000)
    MaxEobRun   \* the EOBs it counts before it writes them (0x7FFF)

VARIABLE job    \* the image and the parameters of its compression

MAX_COEF_BITS == 10

Components == DOMAIN job.image
Progressive(s) == s.Ss # 0 \/ s.Se # LimSe
Zeros(S) == [x \in S |-> 0]

(* Tables a scan reads: DC ones in a first scan of DC coefficients, AC     *)
(* ones in a scan that has AC coefficients.                                *)
TablesOf(s) ==
    LET used == {tbl_no[c] : c \in ToSet(s.membership)}
    IN  (IF s.Ss = 0 /\ s.Ah = 0 THEN {<<"dc", t>> : t \in used} ELSE {})
        \cup (IF s.Se > 0 THEN {<<"ac", t>> : t \in used} ELSE {})

-----------------------------------------------------------------------------
(* What is written of a block: symbols, each followed by some bits.        *)

Symbol(t, sym, bits) == [table |-> <<t>>, sym |-> sym, bits |-> bits]
Bits(bits) == [table |-> <<>>, sym |-> 0, bits |-> bits]

Nbits(v) == IF v = 0 THEN 0 ELSE CHOOSE n \in 1..16 : 2^(n - 1) <= Abs(v) /\ Abs(v) < 2^n

(* v in n bits; of a negative one the complement of its magnitude.         *)
Magnitude(v, n) == BitsOf(IF v < 0 THEN v - 1 + 2^n ELSE v, n)

DcSymbol(tbl, diff) ==
    Symbol(<<"dc", tbl>>, Nbits(diff), Magnitude(diff, Nbits(diff)))

ZRL(tbl) == Symbol(<<"ac", tbl>>, 240, <<>>)

(* Coefficients Ss..Se of a block after the point transform by Al, and how *)
(* many zeros are left at its end.                                         *)
RunLengths(tbl, s, block) ==
    LET v(k) == (IF block[k] < 0 THEN -1 ELSE 1) * (Abs(block[k]) \div 2^s.Al)
        nonzero == SelectSeq([i \in 1..(s.Se - s.Ss + 1) |-> s.Ss + i - 1],
                             LAMBDA k : v(k) # 0)
        zeros(i) == nonzero[i] - (IF i = 1 THEN s.Ss ELSE nonzero[i - 1] + 1)
        n(i) == Nbits(v(nonzero[i]))
        coded(i) == [z \in 1..(zeros(i) \div 16) |-> ZRL(tbl)]
                    \o <<Symbol(<<"ac", tbl>>, ((zeros(i) % 16) * 16) + n(i),
                                Magnitude(v(nonzero[i]), n(i)))>>
    IN  [items |-> Joined([i \in DOMAIN nonzero |-> coded(i)]),
         corrections |-> <<>>,
         left |-> s.Se - (IF nonzero = <<>> THEN s.Ss - 1
                          ELSE nonzero[Len(nonzero)]),
         error |-> \E i \in DOMAIN nonzero : n(i) > MAX_COEF_BITS]

(* The refinement of coefficients Ss..Se by their bit Al: the zeros left    *)
(* and the corrections of coefficients known before wait for what follows. *)
Refinements(tbl, s, block) ==
    LET abs(i) == Abs(block[i]) \div 2^s.Al
        EOB == Greatest({0} \cup {i \in s.Ss..s.Se : abs(i) = 1})
        sign(k) == <<IF block[k] < 0 THEN 0 ELSE 1>>
        Next(x) ==
            LET k == x.k
                r == x.left
            IN  CASE abs(k) = 0 -> [x EXCEPT !.k = k + 1, !.left = r + 1]
                  [] abs(k) # 0 /\ r > 15 /\ k <= EOB ->
                         [x EXCEPT !.items = @ \o <<ZRL(tbl), Bits(x.corrections)>>,
                                   !.left = r - 16, !.corrections = <<>>]
                  [] abs(k) > 1 /\ ~(r > 15 /\ k <= EOB) ->
                         [x EXCEPT !.k = k + 1,
                                   !.corrections = Append(@, abs(k) % 2)]
                  [] OTHER ->
                         [x EXCEPT !.k = k + 1, !.left = 0, !.corrections = <<>>,
                                   !.items = @ \o
                                       <<Symbol(<<"ac", tbl>>, (r * 16) + 1, sign(k)),
                                         Bits(x.corrections)>>]
    IN  While(LAMBDA x : x.k <= s.Se, Next, 2 * LimSe,
              [k |-> s.Ss, items |-> <<>>, corrections |-> <<>>, left |-> 0,
               error |-> FALSE])

-----------------------------------------------------------------------------
(* The encoder: the bits put keep less than a byte that is not written;    *)
(* EOBRUN blocks have ended early and BE are their correction bits.        *)

Sent(s, htbls) == [t \in TablesOf(s) |-> (htbls @@ std_huff_tables)[t]]

EncoderTables(s, htbls) ==
    [t \in TablesOf(s) |-> jpeg_make_c_derived_tbl(t[1] = "dc", Sent(s, htbls)[t])]

(* start_pass_huff; the error JERR_BAD_HUFF_TABLE is found by an output    *)
(* pass only.                                                              *)
StartEncoder(s, gather, htbls) ==
    [gather_statistics |-> gather,
     derived |-> IF gather THEN <<>> ELSE EncoderTables(s, htbls),
     out |-> <<>>, put |-> <<>>, error |-> FALSE,
     counts |-> IF gather THEN job.before ELSE <<>>,
     last_dc_val |-> Zeros(Components), EOBRUN |-> 0, BE |-> <<>>,
     restarts_to_go |-> job.restart_interval, next_restart_num |-> 0]

Stuffed(byte) == IF byte = 255 THEN <<255, 0>> ELSE <<byte>>

emit_bits(e, bits) ==
    LET all == e.put \o bits
        whole == Len(all) \div 8
        byte(i) == ValueOf(SubSeq(all, (8 * i) - 7, 8 * i))
    IN  [e EXCEPT !.put = SubSeq(all, (8 * whole) + 1, Len(all)),
                  !.out = @ \o Joined([i \in 1..whole |-> Stuffed(byte(i))])]

flush_bits(e) ==
    [emit_bits(e, <<1, 1, 1, 1, 1, 1, 1>>) EXCEPT !.put = <<>>]

Counted(counts, items) ==
    LET symbols == {<<items[i].table[1], items[i].sym>> :
                       i \in {j \in DOMAIN items : items[j].table # <<>>}}
        times(S) == Cardinality({i \in DOMAIN items :
                       /\ items[i].table # <<>>
                       /\ <<items[i].table[1], items[i].sym>> = S})
    IN  [S \in DOMAIN counts \cup symbols |->
            (IF S \in DOMAIN counts THEN counts[S] ELSE 0) + times(S)]

(* Symbols are counted, or written with their codes: one without a code is *)
(* the error JERR_HUFF_MISSING_CODE.                                       *)
emit(e, items) ==
    LET code(it) == e.derived[it.table[1]].code
        missing == \E i \in DOMAIN items :
            items[i].table # <<>> /\ items[i].sym \notin DOMAIN code(items[i])
        bits(it) == (IF it.table = <<>> THEN <<>> ELSE code(it)[it.sym])
                    \o it.bits
    IN  CASE e.gather_statistics -> [e EXCEPT !.counts = Counted(@, items)]
          [] ~e.gather_statistics /\ missing -> [e EXCEPT !.error = TRUE]
          [] OTHER -> emit_bits(e, Joined([i \in DOMAIN items |-> bits(items[i])]))

emit_eobrun(e, tbl) ==
    LET n == Nbits(e.EOBRUN) - 1     \* EOBRUN is 2^n and n more bits
        eob == Symbol(<<"ac", tbl>>, n * 16, BitsOf(e.EOBRUN % 2^n, n))
    IN  IF e.EOBRUN = 0 THEN e
        ELSE [emit(e, <<eob, Bits(e.BE)>>) EXCEPT
                 !.error = @ \/ 2^n > MaxEobRun,
                 !.EOBRUN = 0, !.BE = <<>>]

(* Resynchronizes the predictions; in a first pass nothing is written.     *)
emit_restart(e, s) ==
    LET run == emit_eobrun(e, tbl_no[s.membership[1]])
        written == IF e.gather_statistics THEN run
                   ELSE [flush_bits(run) EXCEPT
                            !.out = @ \o <<255, M_RST0 + e.next_restart_num>>]
    IN  [written EXCEPT
            !.last_dc_val = IF s.Ss = 0 THEN Zeros(DOMAIN @) ELSE @,
            !.next_restart_num = (@ + 1) % 8,
            !.restarts_to_go = job.restart_interval]

(* A difference of DC values, of which the last is kept.                   *)
encode_dc(e, c, v) ==
    LET diff == v - e.last_dc_val[c]
    IN  [emit(e, <<DcSymbol(tbl_no[c], diff)>>) EXCEPT
            !.last_dc_val[c] = v,
            !.error = @ \/ Nbits(diff) > MAX_COEF_BITS + 1]

encode_one_block(e, c, s, block) ==
    LET ac == RunLengths(tbl_no[c], [s EXCEPT !.Ss = 1], block)
        eob == IF ac.left > 0 THEN <<Symbol(<<"ac", tbl_no[c]>>, 0, <<>>)>> ELSE <<>>
        dc == encode_dc(e, c, block[0])
    IN  IF LimSe = 0 THEN dc
        ELSE [emit(dc, ac.items \o eob) EXCEPT !.error = @ \/ ac.error]

(* Mutant: the symbols for 16 zeros are not counted.                       *)
htest_one_block_NoZRL(e, c, block) ==
    LET diff == block[0] - e.last_dc_val[c]
        nonzero == {k \in 1..LimSe : block[k] # 0}
        r(k) == k - Greatest({0} \cup {j \in nonzero : j < k}) - 1
        ac(sym) == Symbol(<<"ac", tbl_no[c]>>, sym, <<>>)
        counted == <<Symbol(<<"dc", tbl_no[c]>>, Nbits(diff), <<>>), ac(0)>>
                   \o Joined([k \in 1..LimSe |-> IF k \notin nonzero THEN <<>>
                          ELSE <<ac(((r(k) % 16) * 16) + Nbits(block[k]))>>])
    IN  [e EXCEPT !.counts = Counted(@, counted), !.last_dc_val[c] = block[0]]

(* The symbols that encode_one_block will need, counted by themselves: one *)
(* per 16 zeros, one per nonzero coefficient and an end of block.          *)
htest_one_block(e, c, block) ==
    LET diff == block[0] - e.last_dc_val[c]
        nonzero == {k \in 1..LimSe : block[k] # 0}
        before(k) == Greatest({0} \cup {j \in nonzero : j < k})
        r(k) == k - before(k) - 1
        ac(sym) == Symbol(<<"ac", tbl_no[c]>>, sym, <<>>)
        ofCoef(k) == [z \in 1..(r(k) \div 16) |-> ac(240)]
                     \o <<ac(((r(k) % 16) * 16) + Nbits(block[k]))>>
        counted == <<Symbol(<<"dc", tbl_no[c]>>, Nbits(diff), <<>>)>>
                   \o Joined([k \in 1..LimSe |->
                          IF k \in nonzero THEN ofCoef(k) ELSE <<>>])
                   \o (IF LimSe \in nonzero THEN <<>> ELSE <<ac(0)>>)
    IN  [e EXCEPT !.counts = Counted(@, counted),
                  !.last_dc_val[c] = block[0],
                  !.error = @ \/ Nbits(diff) > MAX_COEF_BITS + 1
                              \/ \E k \in nonzero : Nbits(block[k]) > MAX_COEF_BITS]

(* One band of a progressive AC scan: what waits of the blocks before it   *)
(* is written before its own; if its end is empty it waits itself, unless  *)
(* the run is full or the correction bits of the next might not fit.       *)
encode_band(e, tbl, band) ==
    LET done == IF band.items = <<>> THEN e ELSE emit(emit_eobrun(e, tbl), band.items)
        waits == [done EXCEPT !.EOBRUN = @ + 1, !.BE = @ \o band.corrections]
        full == waits.EOBRUN = MaxEobRun \/ Len(waits.BE) > MAX_CORR_BITS - LimSe
        ended == CASE band.left = 0 /\ band.corrections = <<>> -> done
                   [] (band.left > 0 \/ band.corrections # <<>>) /\ full ->
                          emit_eobrun(waits, tbl)
                   [] OTHER -> waits
    IN  [ended EXCEPT !.error = @ \/ band.error]

EncodeBlock(e, c, s, block) ==
    CASE ~Progressive(s) /\ e.gather_statistics -> htest_one_block(e, c, block)
      [] ~Progressive(s) /\ ~e.gather_statistics -> encode_one_block(e, c, s, block)
      [] Progressive(s) /\ s.Ss = 0 /\ s.Ah = 0 ->
             encode_dc(e, c, block[0] \div 2^s.Al)
      [] Progressive(s) /\ s.Ss = 0 /\ s.Ah > 0 ->
             emit(e, <<Bits(<<(block[0] \div 2^s.Al) % 2>>)>>)
      [] Progressive(s) /\ s.Ss > 0 /\ s.Ah = 0 ->
             encode_band(e, tbl_no[c], RunLengths(tbl_no[c], s, block))
      [] OTHER ->
             encode_band(e, tbl_no[c], Refinements(tbl_no[c], s, block))

encode_mcu(e, s, blocks) ==
    LET r == IF job.restart_interval > 0 /\ e.restarts_to_go = 0
             THEN emit_restart(e, s) ELSE e
        counted == IF job.restart_interval = 0 THEN r
                   ELSE [r EXCEPT !.restarts_to_go = @ - 1]
    IN  FoldLeft(LAMBDA f, j : EncodeBlock(f, s.membership[j], s, blocks[j]),
                 counted, [j \in DOMAIN blocks |-> j])

(* The tables that a first pass makes, added to those in use.             *)
finish_pass_gather(e, s, htbls) ==
    LET counts == emit_eobrun(e, tbl_no[s.membership[1]]).counts
        of(t) == {S \in DOMAIN counts : S[1] = t}
        freq(t) == [sym \in {S[2] : S \in of(t)} |-> counts[<<t, sym>>]]
    IN  [t \in TablesOf(s) |-> jpeg_gen_optimal_table(freq(t))] @@ htbls

finish_pass_huff(e, s) == flush_bits(emit_eobrun(e, tbl_no[s.membership[1]]))

-----------------------------------------------------------------------------
(* The decoder.  An MCU works on a copy of its state, which is kept if the *)
(* MCU is completed; v is the number read last.                            *)

BlockSize == CHOOSE n \in 1..8 : LimSe \in (n * n - 1)..((n + 1) * (n + 1) - 2)

(* jpeg_zigzag_order and its smaller siblings: the place of row v and      *)
(* column h, from 1, in the zigzag of a square.                            *)
zigzag_order(v, h) ==
    LET upwards == (v + h) % 2 = 0
        Before(r, c) == \/ r + c < v + h
                        \/ r + c = v + h /\ IF upwards THEN r > v ELSE r < v
    IN  Cardinality({p \in (1..BlockSize) \X (1..BlockSize) : Before(p[1], p[2])})

(* How many coefficients of a block of component c are wanted.             *)
coef_limit(c) ==
    LET Fit(n) == IF n <= 0 \/ n > BlockSize THEN BlockSize ELSE n
    IN  IF ~job.scaled[c].needed THEN 0
        ELSE 1 + zigzag_order(Fit(job.scaled[c].v), Fit(job.scaled[c].h))

DecoderTables(s, sent) ==
    [t \in TablesOf(s) |-> jpeg_make_d_derived_tbl(t[1] = "dc", sent[t])]

StartDecoder(s, sent) ==
    [derived |-> DecoderTables(s, sent), bytes |-> <<>>, unread_marker |-> 0, bits |-> <<>>, v |-> 0,
     insufficient_data |-> FALSE, suspended |-> TRUE,
     last_dc_val |-> Zeros(Components), EOBRUN |-> 0,
     restarts_to_go |-> job.restart_interval, next_restart_num |-> 0]

MIN_GET_BITS == 25
Suspended(d) == [d EXCEPT !.suspended = TRUE]

(* Bytes into the bit buffer, up to a marker: after FFs a zero stands for  *)
(* the byte FF.                                                            *)
RECURSIVE Load(_)
Load(d) ==
    LET b == d.bytes
        Taken(n, rest) ==
            IF n > 1 /\ b[n] # 0 THEN [d EXCEPT !.unread_marker = b[n], !.bytes = rest]
            ELSE Load([d EXCEPT !.bits = @ \o BitsOf(IF n > 1 THEN 255 ELSE b[n], 8),
                                !.bytes = rest])
        Next(n) == Taken(n, SubSeq(b, n + 1, Len(b)))
    IN  CASE d.unread_marker # 0 \/ Len(d.bits) >= MIN_GET_BITS -> d
          [] d.unread_marker = 0 /\ Len(d.bits) < MIN_GET_BITS
             /\ \A i \in 1..Len(b) : b[i] = 255 -> Suspended(d)
          [] OTHER -> Next(CHOOSE i \in 1..Len(b) :
                               b[i] # 255 /\ \A j \in 1..(i - 1) : b[j] = 255)

(* Past the end of a segment there are zeros.                              *)
jpeg_fill_bit_buffer(d, nbits) ==
    LET Padded(l) ==
            IF l.suspended \/ l.unread_marker = 0 \/ nbits <= Len(l.bits) THEN l
            ELSE [l EXCEPT !.insufficient_data = TRUE,
                           !.bits = @ \o [i \in 1..(MIN_GET_BITS - Len(@)) |-> 0]]
    IN  Padded(Load(d))

DropBits(d, n, v) ==
    [d EXCEPT !.bits = SubSeq(@, n + 1, Len(@)), !.v = v]

GetBits(d, n) ==
    LET Take(f) == IF f.suspended THEN f ELSE DropBits(f, n, ValueOf(SubSeq(f.bits, 1, n)))
    IN  Take(IF Len(d.bits) < n THEN jpeg_fill_bit_buffer(d, n) ELSE d)

(* Bit by bit, from a code of l bits on.                                   *)
RECURSIVE jpeg_huff_decode(_, _, _)
jpeg_huff_decode(d, tbl, l) ==
    LET Longer(next) == jpeg_huff_decode([next EXCEPT !.v = (2 * d.v) + @], tbl, l + 1)
    IN  CASE d.suspended -> d
          [] ~d.suspended /\ d.v > tbl.maxcode[l] -> Longer(GetBits(d, 1))
          [] OTHER -> [d EXCEPT !.v = IF l > 16 THEN 0
                                      ELSE tbl.huffval[@ + tbl.valoffset[l]]]

(* The next symbol: by lookahead if there are 8 bits, or can be.           *)
HUFF_DECODE(d, tbl) ==
    LET Slow(f, l) == jpeg_huff_decode(GetBits(f, l), tbl, l)
        Code(f, p) == DropBits(f, tbl.short[p].nbits, tbl.huffval[p])
        Found(f, found) == IF found = {} THEN Slow(f, HUFF_LOOKAHEAD + 1)
                           ELSE Code(f, CHOOSE p \in found : TRUE)
        Next(f) ==
            CASE f.suspended -> f
              [] ~f.suspended /\ Len(f.bits) < HUFF_LOOKAHEAD -> Slow(f, 1)
              [] OTHER -> Found(f, LookAhead(tbl, ValueOf(SubSeq(f.bits, 1, HUFF_LOOKAHEAD))))
    IN  Next(IF Len(d.bits) < HUFF_LOOKAHEAD THEN jpeg_fill_bit_buffer(d, 0) ELSE d)

HUFF_EXTEND(x, s) == IF s > 0 /\ x < 2^(s - 1) THEN x - 2^s + 1 ELSE x
Extended(d, s) == LET n == GetBits(d, s) IN [n EXCEPT !.v = HUFF_EXTEND(@, s)]
Short(x) == ((x + 32768) % 65536) - 32768

(* Past the block a coefficient goes to natural position 63, which is the  *)
(* last of a block of full size and outside of a smaller one.              *)
Place(k) == IF k <= LimSe THEN k ELSE 63
Put(block, k, v) ==
    IF Place(k) \in DOMAIN block THEN [block EXCEPT ![Place(k)] = Short(v)] ELSE block

(* Mutant: once data were missing they stay missing.                       *)
process_restart_Insufficient(d) ==
    LET r == read_restart_marker([d EXCEPT !.bits = <<>>])
    IN  IF ~r.found THEN Suspended(r.src)
        ELSE [r.src EXCEPT
                 !.last_dc_val = Zeros(DOMAIN @), !.EOBRUN = 0,
                 !.restarts_to_go = job.restart_interval]

(* Everything but the source is as at the start of the restart segment;    *)
(* a segment that begins at a marker is taken for an empty one.            *)
process_restart(d) ==
    LET r == read_restart_marker([d EXCEPT !.bits = <<>>])
    IN  IF ~r.found THEN Suspended(r.src)
        ELSE [r.src EXCEPT
                 !.last_dc_val = Zeros(DOMAIN @), !.EOBRUN = 0,
                 !.restarts_to_go = job.restart_interval,
                 !.insufficient_data = @ /\ r.src.unread_marker # 0]

-----------------------------------------------------------------------------
(* One block; the decoder returned may be suspended.                       *)

(* A DC difference, added to the last value.                               *)
decode_dc(d, c) ==
    LET Added(diff) == IF diff.suspended THEN diff
                       ELSE [diff EXCEPT !.last_dc_val[c] = @ + diff.v]
        Sized(size) == IF size.suspended THEN size ELSE Added(Extended(size, size.v))
    IN  Sized(HUFF_DECODE(d, d.derived[<<"dc", tbl_no[c]>>]))

(* Coefficients first..Se of a first scan or a sequential one, of which    *)
(* those from limit on are thrown away.                                    *)
DecodeBand(d, tbl, s, block, first, limit) ==
    LET Value(x, value, r) ==
            IF value.suspended THEN [x EXCEPT !.d = value]
            ELSE [x EXCEPT !.d = value, !.k = @ + r + 1,
                           !.block = IF x.k < limit
                                     THEN Put(@, x.k + r, value.v * 2^s.Al) ELSE @]
        Run(run, r) == [run EXCEPT !.EOBRUN = 2^r + run.v - 1]
        Decoded(x, rs, r, size) ==
            CASE rs.suspended -> [x EXCEPT !.d = rs]
              [] ~rs.suspended /\ size > 0 ->
                     Value(x, IF x.k < limit THEN Extended(rs, size)
                              ELSE GetBits(rs, size), r)
              [] ~rs.suspended /\ size = 0 /\ r = 15 ->
                     [x EXCEPT !.d = rs, !.k = @ + 16]
              [] OTHER ->
                     [x EXCEPT !.d = IF ~Progressive(s) THEN rs
                                     ELSE Run(GetBits(rs, r), r),
                               !.k = s.Se + 1]
        Symbolic(x, rs) == Decoded(x, rs, rs.v \div 16, rs.v % 16)
        Next(x) == Symbolic(x, HUFF_DECODE(x.d, tbl))
    IN  While(LAMBDA x : ~x.d.suspended /\ x.k <= s.Se, Next, LimSe + 1,
              [d |-> d, block |-> block, k |-> first])

decode_sequential(d, c, s, block) ==
    LET limit == coef_limit(c)
        Skipped(dc) == IF dc.suspended THEN dc ELSE GetBits(dc, dc.v)
        Ac(dc) == IF dc.suspended THEN [d |-> dc, block |-> block]
                  ELSE DecodeBand(dc, d.derived[<<"ac", tbl_no[c]>>], s,
                           IF limit > 0 THEN Put(block, 0, dc.last_dc_val[c]) ELSE block,
                           1, limit)
    IN  Ac(IF limit > 0 THEN decode_dc(d, c)
           ELSE Skipped(HUFF_DECODE(d, d.derived[<<"dc", tbl_no[c]>>])))

(* The correction bit of a coefficient known before, unless it is there    *)
(* from before a suspension.                                               *)
Corrected(v, bit, Al) ==
    IF bit = 1 /\ (v \div 2^Al) % 2 = 0
    THEN v + (IF v >= 0 THEN 2^Al ELSE -(2^Al)) ELSE v

(* Over corrections and r zeros, from k on: where that ends, at the next   *)
(* zero or past Se.                                                        *)
Advance(d, s, block, k, r) ==
    LET Bit(x, n) == IF n.suspended THEN [x EXCEPT !.d = n]
                     ELSE [x EXCEPT !.d = n, !.k = @ + 1,
                                    !.block[x.k] = Corrected(@, n.v, s.Al)]
        Next(x) == IF x.block[x.k] # 0 THEN Bit(x, GetBits(x.d, 1))
                   ELSE [x EXCEPT !.k = @ + 1, !.r = @ - 1]
    IN  While(LAMBDA x : /\ ~x.d.suspended
                         /\ x.k <= s.Se
                         /\ x.block[x.k] # 0 \/ x.r > 0,
              Next, LimSe, [d |-> d, block |-> block, k |-> k, r |-> r])

(* A refinement scan, and what is left of a block in a run of ends; new    *)
(* are the coefficients made nonzero.                                      *)
DecodeRefinement(d, tbl, s, block) ==
    LET Kept(x, a) == [x EXCEPT !.d = a.d, !.block = a.block]
        Rest(x) == [x EXCEPT !.d.EOBRUN = IF x.d.suspended THEN @ ELSE @ - 1]
        Placed(x, size, sign) ==
            CASE x.d.suspended -> x
              [] ~x.d.suspended /\ size = 0 -> [x EXCEPT !.k = @ + 1]
              [] OTHER -> [x EXCEPT !.k = @ + 1, !.new = @ \cup {Place(x.k)},
                               !.block = Put(@, x.k, IF sign = 1 THEN 2^s.Al
                                                     ELSE -(2^s.Al))]
        Signed(x, n, r, size) ==
            LET a == Advance(n, s, x.block, x.k, r)
            IN  Placed([Kept(x, a) EXCEPT !.k = a.k], size, n.v)
        Decoded(x, rs, r, size) ==
            CASE rs.suspended -> [x EXCEPT !.d = rs]
              [] ~rs.suspended /\ size = 0 /\ r < 15 ->
                     LET n == GetBits(rs, r)
                     IN  [x EXCEPT !.d = [n EXCEPT !.EOBRUN = 2^r + n.v]]
              [] OTHER ->
                     LET n == IF size > 0 THEN GetBits(rs, 1) ELSE rs
                     IN  IF n.suspended THEN [x EXCEPT !.d = n]
                         ELSE Signed(x, n, r, size)
        Symbolic(x, rs) == Decoded(x, rs, rs.v \div 16, rs.v % 16)
        Next(x) == Symbolic(x, HUFF_DECODE(x.d, tbl))
        Ended(x) == IF x.d.suspended \/ x.d.EOBRUN = 0 THEN x
                    ELSE Rest(Kept(x, Advance(x.d, s, x.block, x.k, LimSe + 1)))
    IN  Ended(While(LAMBDA x : /\ ~x.d.suspended
                               /\ x.d.EOBRUN = 0
                               /\ x.k <= s.Se,
                    Next, LimSe + 1,
                    [d |-> d, block |-> block, k |-> s.Ss, new |-> {}]))

(* Mutant: a suspension takes back nothing.                                *)
decode_refinement_Kept(d, c, s, block) ==
    LET x == DecodeRefinement(d, d.derived[<<"ac", tbl_no[c]>>], s, block)
    IN  [d |-> x.d, block |-> x.block]

(* A suspension takes back the new coefficients, not the corrections.      *)
decode_refinement(d, c, s, block) ==
    LET Undone(x) == [d |-> x.d,
                      block |-> IF ~x.d.suspended THEN x.block
                                ELSE [k \in DOMAIN block |->
                                         IF k \in x.new THEN 0 ELSE x.block[k]]]
    IN  Undone(DecodeRefinement(d, d.derived[<<"ac", tbl_no[c]>>], s, block))

DecodeBlock(d, c, s, block) ==
    LET Dc(dc) == [d |-> dc, block |-> IF dc.suspended THEN block
                                       ELSE Put(block, 0, dc.last_dc_val[c] * 2^s.Al)]
        Bit(bit) == [d |-> bit, block |->
                        IF ~bit.suspended /\ bit.v = 1 /\ (block[0] \div 2^s.Al) % 2 = 0
                        THEN [block EXCEPT ![0] = @ + 2^s.Al] ELSE block]
    IN  CASE ~Progressive(s) -> decode_sequential(d, c, s, block)
          [] Progressive(s) /\ s.Ss = 0 /\ s.Ah = 0 -> Dc(decode_dc(d, c))
          [] Progressive(s) /\ s.Ss = 0 /\ s.Ah > 0 -> Bit(GetBits(d, 1))
          [] Progressive(s) /\ s.Ss > 0 /\ s.Ah = 0 ->
                 IF d.EOBRUN > 0
                 THEN [d |-> [d EXCEPT !.EOBRUN = @ - 1], block |-> block]
                 ELSE DecodeBand(d, d.derived[<<"ac", tbl_no[c]>>], s, block, s.Ss, s.Se + 1)
          [] OTHER -> decode_refinement(d, c, s, block)

(* One MCU: of a suspended one remain the restart before it, the values    *)
(* assigned to its blocks and that the decoder suspends.                   *)
decode_mcu(d, s, blocks) ==
    LET Stored(x, j, b) == [d |-> b.d, blocks |-> [x.blocks EXCEPT ![j] = b.block]]
        step(x, j) == IF x.d.suspended THEN x
                      ELSE Stored(x, j, DecodeBlock(x.d, s.membership[j], s, blocks[j]))
        Ended(r, x) == CASE x.d.suspended -> [x EXCEPT !.d = Suspended(r)]
                         [] ~x.d.suspended /\ job.restart_interval = 0 -> x
                         [] OTHER -> [x EXCEPT !.d.restarts_to_go = @ - 1]
        skip(r) == r.insufficient_data /\ ~(s.Ss = 0 /\ s.Ah > 0)
        Restarted(r) ==
            Ended(r, IF r.suspended \/ skip(r) THEN [d |-> r, blocks |-> blocks]
                     ELSE FoldLeft(step, [d |-> r, blocks |-> blocks],
                                   [j \in DOMAIN blocks |-> j]))
    IN  Restarted(IF job.restart_interval > 0 /\ d.restarts_to_go = 0
                  THEN process_restart(d) ELSE d)
=============================================================================
