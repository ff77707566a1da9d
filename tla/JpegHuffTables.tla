--------------------------- MODULE JpegHuffTables ---------------------------
(***************************************************************************)
(* Huffman tables as libjpeg builds and reads them: from symbol counts to  *)
(* a table (jpeg_gen_optimal_table), from a table to the codes of the      *)
(* encoder and to the searches of the decoder.                             *)
(*                                                                         *)
(* A table is a record of bits, the number of codes of each length 1..16,  *)
(* and huffval, the symbols in the order of their codes.                   *)
(***************************************************************************)
EXTENDS Integers, Sequences, FiniteSets, JpegLoops

MAX_CLEN == 32              \* longest code before the limit of 16 is applied
HUFF_LOOKAHEAD == 8

Greatest(S) == CHOOSE x \in S : \A y \in S : y <= x

(* n bits of v, the highest first, and the number that some bits are.      *)
BitsOf(v, n) == [i \in 1..n |-> (v \div 2^(n - i)) % 2]
ValueOf(bits) ==
    LET upTo[i \in 0..Len(bits)] ==
            IF i = 0 THEN 0 ELSE (2 * upTo[i - 1]) + bits[i]
    IN  upTo[Len(bits)]

-----------------------------------------------------------------------------
(* From counts to a table.  Every tree left has a count and a              *)
(* representative, its symbol that was merged into last; of two trees of   *)
(* one count the larger representative is taken.                           *)

Lightest(freq) ==
    LET least == {s \in DOMAIN freq : \A t \in DOMAIN freq : freq[s] <= freq[t]}
    IN  Greatest(least)

Without(f, x) == [y \in DOMAIN f \ {x} |-> f[y]]

(* The two lightest trees become one, and their symbols' codes a bit longer. *)
Merged(x) ==
    LET c1 == Lightest(x.freq)
        c2 == Lightest(Without(x.freq, c1))
        deeper == x.tree[c1] \cup x.tree[c2]
    IN  [freq |-> Without([x.freq EXCEPT ![c1] = @ + x.freq[c2]], c2),
         tree |-> Without([x.tree EXCEPT ![c1] = deeper], c2),
         size |-> [s \in DOMAIN x.size |->
                      x.size[s] + (IF s \in deeper THEN 1 ELSE 0)]]

(* Code lengths above 16 are shortened two symbols at a time, from i down. *)
Shortened(x) ==
    LET i == x.i
        j == Greatest({l \in 1..(i - 2) : x.bits[l] > 0})
    IN  IF x.bits[i] = 0 THEN [x EXCEPT !.i = i - 1]
        ELSE [x EXCEPT !.bits = [@ EXCEPT ![i] = @ - 2, ![i - 1] = @ + 1,
                                          ![j + 1] = @ + 2, ![j] = @ - 1]]

(* The code length of each symbol, with the pseudo-symbol 256 that keeps   *)
(* the code of all ones free.                                              *)
codesize(freq) ==
    LET with256 == [s \in DOMAIN freq \cup {256} |->
                       IF s = 256 THEN 1 ELSE freq[s]]
    IN  While(LAMBDA x : Cardinality(DOMAIN x.freq) > 1, Merged, 256,
              [freq |-> with256, tree |-> [s \in DOMAIN with256 |-> {s}],
               size |-> [s \in DOMAIN with256 |-> 0]]).size

(* The table for some counts, none of them 0; overflow is the error        *)
(* JERR_HUFF_CLEN_OVERFLOW.                                                *)
jpeg_gen_optimal_table(freq) ==
    LET size == codesize(freq)
        lengths == [l \in 1..MAX_CLEN |->
                       Cardinality({s \in DOMAIN size : size[s] = l})]
        bits == While(LAMBDA x : x.i > 16, Shortened, 16 * 257,
                      [bits |-> lengths, i |-> MAX_CLEN]).bits
        last == Greatest({l \in 1..16 : bits[l] > 0})
        ofLength(l) == SelectSeq([s \in 1..256 |-> s - 1],
                                 LAMBDA s : s \in DOMAIN freq /\ size[s] = l)
    IN  IF \E s \in DOMAIN size : size[s] > MAX_CLEN
        THEN [overflow |-> TRUE]
        ELSE [overflow |-> FALSE,
              bits |-> [l \in 1..16 |-> bits[l] - (IF l = last THEN 1 ELSE 0)],
              huffval |-> Joined([l \in 1..MAX_CLEN |-> ofLength(l)])]

-----------------------------------------------------------------------------
(* From a table to codes: canonical, in the order of huffval.              *)

huffsize(htbl) ==
    Joined([l \in 1..16 |-> [i \in 1..htbl.bits[l] |-> l]])

(* Mutant: a longer code does not begin like the one after the last.       *)
huffcode_Unshifted(size) == [p \in DOMAIN size |-> p - 1]

(* Length by length: the codes of l bits go up by one from where the next  *)
(* shorter code would have been, shifted by a bit.                         *)
huffcode(size) ==
    LET n(l) == Cardinality({p \in DOMAIN size : size[p] = l})
        upTo[l \in 0..16] ==
            LET before == upTo[l - 1]
            IN  IF l = 0 THEN [next |-> 0, codes |-> <<>>]
                ELSE [next |-> 2 * (before.next + n(l)),
                      codes |-> before.codes \o
                                [i \in 1..n(l) |-> before.next + i - 1]]
    IN  upTo[16].codes

(* JERR_BAD_HUFF_TABLE: too many codes, or one of all ones or too long.    *)
BadCodes(htbl) ==
    LET size == huffsize(htbl)
        code == huffcode(size)
    IN  \/ Len(size) > 256
        \/ \E p \in DOMAIN size : code[p] + 1 >= 2^size[p]

(* The codes of the encoder, each the sequence of its bits.                *)
jpeg_make_c_derived_tbl(isDC, htbl) ==
    LET size == huffsize(htbl)
        code == huffcode(size)
        symbols == {htbl.huffval[p] : p \in DOMAIN size}
        At(s) == CHOOSE p \in DOMAIN size : htbl.huffval[p] = s
    IN  [bad |-> \/ BadCodes(htbl)
                 \/ Cardinality(symbols) < Len(size)
                 \/ isDC /\ \E s \in symbols : s > 15,
         code |-> [s \in symbols |-> BitsOf(code[At(s)], size[At(s)])]]

(* The greatest code of each length, -1 for none, and what it takes to     *)
(* turn a code of that length into the index of its symbol.                *)
jpeg_make_d_derived_tbl(isDC, htbl) ==
    LET size == huffsize(htbl)
        code == huffcode(size)
        first(l) == Cardinality({p \in DOMAIN size : size[p] < l}) + 1
        last(l) == first(l) + htbl.bits[l] - 1
    IN  [bad |-> \/ BadCodes(htbl)
                 \/ isDC /\ \E p \in DOMAIN size : htbl.huffval[p] > 15,
         maxcode |-> [l \in 1..17 |->
                         IF l = 17 THEN 1048575
                         ELSE IF htbl.bits[l] = 0 THEN -1 ELSE code[last(l)]],
         valoffset |-> [l \in 1..16 |->
                           IF htbl.bits[l] = 0 THEN 0
                           ELSE first(l) - code[first(l)]],
         huffval |-> htbl.huffval,
         short |-> [p \in 1..(first(HUFF_LOOKAHEAD + 1) - 1) |->
                       [nbits |-> size[p], code |-> code[p]]]]

(* The entry of the lookahead table for the next 8 bits: the code of at    *)
(* most 8 bits that they begin with, if any.                               *)
LookAhead(tbl, look) ==
    {p \in DOMAIN tbl.short :
        look \div 2^(HUFF_LOOKAHEAD - tbl.short[p].nbits) = tbl.short[p].code}

-----------------------------------------------------------------------------
(* std_huff_tables (jcparam.c), the tables of an encoder that does not     *)
(* optimize: those of the luminance (0) and chrominance (1) components.    *)

(* Where a list has none of its own, run and size go up together.          *)
Ascending(from) ==
    SelectSeq([s \in 1..256 |-> s - 1],
              LAMBDA s : s \div 16 \in 0..15 /\ s % 16 \in 1..10 /\ s \notin from)

AcLuminance ==
    <<1, 2, 3, 0, 4, 17, 5, 18, 33, 49, 65, 6, 19, 81, 97, 7, 34, 113, 20, 50,
      129, 145, 161, 8, 35, 66, 177, 193, 21, 82, 209, 240, 36, 51, 98, 114,
      130>>

AcChrominance ==
    <<0, 1, 2, 3, 17, 4, 5, 33, 49, 6, 18, 65, 81, 7, 97, 113, 19, 34, 50, 129,
      8, 20, 66, 145, 161, 177, 193, 9, 35, 51, 82, 240, 21, 98, 114, 209, 10,
      22, 36, 52, 225, 37, 241>>

Completed(list) == list \o Ascending({list[i] : i \in DOMAIN list})

std_huff_tables ==
    [t \in {"dc", "ac"} \X {0, 1} |->
        [overflow |-> FALSE,
         bits |->
            CASE t = <<"dc", 0>> ->
                     <<0, 1, 5, 1, 1, 1, 1, 1, 1, 0, 0, 0, 0, 0, 0, 0>>
              [] t = <<"dc", 1>> ->
                     <<0, 3, 1, 1, 1, 1, 1, 1, 1, 1, 1, 0, 0, 0, 0, 0>>
              [] t = <<"ac", 0>> ->
                     <<0, 2, 1, 3, 3, 2, 4, 3, 5, 5, 4, 4, 0, 0, 1, 125>>
              [] t = <<"ac", 1>> ->
                     <<0, 2, 1, 2, 4, 4, 3, 4, 7, 5, 4, 4, 0, 1, 2, 119>>,
         huffval |-> CASE t[1] = "dc" -> [i \in 1..12 |-> i - 1]
                       [] t = <<"ac", 0>> -> Completed(AcLuminance)
                       [] t = <<"ac", 1>> -> Completed(AcChrominance)]]
=============================================================================
