--------------------------- MODULE MCJpegEntropy ---------------------------
(* Images for JpegEntropy: per kind a palette of coefficients, dealt out   *)
(* by a seed; the scripts of a grey and a colour image; counts that make   *)
(* deep code trees.                                                        *)
EXTENDS JpegEntropy

Palettes == [sparse |-> <<0, 0, 0, 1, 0, 0, -1, 0, 0, 2, 0>>,
             dense  |-> <<1, -2, 3, 0, 5, -7, 12, 0, -1, 30, 1>>,
             wild   |-> <<1023, 0, -1023, 512, -1, 255, -256, 0, 1, 0, 700>>,
             flat   |-> <<0, 0, 0, 0, 0, 0, 0, 0, 0, 0, 0>>]

Deal(seed, c, n, k) ==
    LET mixed == ((seed * 389) + (c * 577) + (n * 1069) + (k * 7211)) % 46337
    IN  ((mixed * mixed) % 65521) % 11

(* A lone block has nothing but its last coefficient.                      *)
Block(palette, seed, c, n) ==
    IF palette = "lone" THEN [k \in 0..LimSe |-> IF k = LimSe THEN -3 ELSE 0]
    ELSE [k \in 0..LimSe |-> Palettes[palette][Deal(seed, c, n, k) + 1]]

Image(palette, seed, blocks) ==
    [c \in DOMAIN blocks |->
        [n \in 1..blocks[c] |-> Block(palette, seed, c, n)]]

MC_tbl_no == <<0, 1, 1>>
Default == [L |-> 0, U |-> 1, K |-> 5]

Scans(membership, Ss, Se, Ah, Al) ==
    [membership |-> membership, Ss |-> Ss, Se |-> Se, Ah |-> Ah, Al |-> Al]

Sequential == <<Scans(<<1, 1, 2, 3>>, 0, LimSe, 0, 0)>>
Grey == <<Scans(<<1>>, 0, LimSe, 0, 0)>>
ProgressiveScript ==
    <<Scans(<<1, 1, 2>>, 0, 0, 0, 1), Scans(<<1>>, 1, 3, 0, 2),
      Scans(<<2>>, 1, LimSe, 0, 1), Scans(<<1>>, 4, LimSe, 0, 2),
      Scans(<<1>>, 1, LimSe, 2, 1), Scans(<<1, 1, 2>>, 0, 0, 1, 0),
      Scans(<<2>>, 1, LimSe, 1, 0), Scans(<<1>>, 1, LimSe, 1, 0)>>

Whole == [needed |-> TRUE, v |-> 8, h |-> 8]
Job(image, script, interval, arith, chunk) ==
    [image |-> image, script |-> script, restart_interval |-> interval,
     arith |-> arith, optimize |-> FALSE, before |-> <<>>,
     chunks |-> {chunk, 1000}, scaled |-> [c \in DOMAIN image |-> Whole]]
Optimized(j) == [j EXCEPT !.optimize = TRUE]

(* The counts of n symbols grow like the Fibonacci numbers: the deepest    *)
(* trees for their sum.                                                    *)
Fibonacci[i \in 0..30] == IF i <= 1 THEN 1 ELSE Fibonacci[i - 1] + Fibonacci[i - 2]
DeepCounts(n) ==
    [S \in {<<<<"ac", 0>>, (16 * (i % 15)) + (i \div 15) + 1>> : i \in 0..(n - 1)} |->
        Fibonacci[(S[2] \div 16) + (15 * ((S[2] % 16) - 1))]]

HuffmanJobs ==
    {Optimized(Job(Image(p, 1, <<5>>), Grey, 1, FALSE, IF p = "wild" THEN 83 ELSE 9))
        : p \in DOMAIN Palettes}
    \cup {Job(Image("sparse", 2, <<4>>), Grey, 2, FALSE, 3),
          Optimized(Job(Image("lone", 1, <<3>>), Grey, 0, FALSE, 2))}
    \cup {Job(Image(p, 2, <<2, 1, 1>>), Sequential, 0, FALSE, 17)
        : p \in {"dense", "wild"}}
    \cup {Job(Image("sparse", 1, <<4, 2>>), ProgressiveScript, 2, FALSE, 5),
          Job(Image("dense", 2, <<4, 2>>), ProgressiveScript, 2, FALSE, 5),
          Job(Image("lone", 1, <<8, 4>>), ProgressiveScript, 0, FALSE, 1),
          Job(Image("flat", 1, <<8, 4>>), ProgressiveScript, 0, FALSE, 1),
          Job(Image("wild", 4, <<4, 2>>), ProgressiveScript, 0, FALSE, 31)}
    \cup {[Job(Image(p, 4, <<4, 2, 2>>), Sequential, 1, FALSE, 50) EXCEPT
              !.scaled = <<[needed |-> TRUE, v |-> 2, h |-> 3], Whole,
                           [needed |-> FALSE, v |-> 0, h |-> 0]>>]
          : p \in {"dense", "wild"}}
    \cup {[Optimized(Job(Image("dense", 5, <<2>>), Grey, 0, FALSE, 9)) EXCEPT
              !.before = DeepCounts(n)]
          : n \in {12, 18, 24}}

ArithmeticJobs ==
    {Job(Image(p, 1, <<5>>), Grey, 1, TRUE, 0) : p \in DOMAIN Palettes}
    \cup {Job(Image("dense", 2, <<10>>), Grey, 1, TRUE, 0),
          Job(Image("sparse", 2, <<4, 2, 2>>), Sequential, 0, TRUE, 0)}
    \cup {Job(Image(p, 1, <<4, 2>>), ProgressiveScript, 2, TRUE, 0)
            : p \in {"dense", "wild"}}
    \* long enough for carries into FE and over stacked FFs
    \cup {Job(Image("dense", s, <<5>>), Grey, 0, TRUE, 0) : s \in {20, 55, 59}}
    \cup {Job(Image("wild", s, <<7>>), Grey, 0, TRUE, 0) : s \in 10..12}

MC_Jobs == HuffmanJobs \cup ArithmeticJobs

MC_Faults ==
    [kind : {"lost"}, at : {1, 2, 3}, count : {1, 2}]
    \cup [kind : {"twice"}, at : {2}, count : {1}]
    \cup [kind : {"cut"}, at : {1, 2}, count : {1, 2}]
=============================================================================
