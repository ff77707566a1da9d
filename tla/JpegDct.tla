-------------------------------- MODULE JpegDct ---------------------------------
(* A block through libjpeg's two DCT managers: quantized coefficients are turned  *)
(* into samples by the inverse_DCT routine jddctmgr.c selects, and the samples    *)
(* back into quantized coefficients by forward_DCT of jcdctmgr.c, with the same   *)
(* quantization table, as when a picture is opened and saved again.  One step is  *)
(* one pass of a routine.                                                         *)
(*                                                                                *)
(* stage   what data holds                                                        *)
(*   coefficients   data[v][u], v the vertical and u the horizontal frequency     *)
(*   workspace      the inverse routine's workspace, a sequence of columns        *)
(*   samples        data[row][column]                                             *)
(*   rows           the forward routine's rows after its first pass               *)
(*   transform      the forward routine's output, scaled up by 8                  *)
(*   quantized      the new coefficients                                          *)
EXTENDS JpegIdct, JpegFast, FiniteSetsExt

F == INSTANCE JpegFdct

CONSTANTS Sizes,        \* pairs <<w, h>>: DCT_h_scaled_size, DCT_v_scaled_size
          DctMethods,   \* the values of dct_method tried for 8x8 blocks
          Blocks,       \* blocks: sets of <<v, u, coefficient>>, all others zero
          Quants        \* quantization steps of the lowest frequency

VARIABLES size, dct_method, block, quant, stage, data
vars == <<size, dct_method, block, quant, stage, data>>

DCTSIZE == 8
Freq == 0 .. DCTSIZE - 1
Min2(a, b) == IF a <= b THEN a ELSE b

-------------------------------------------------------------------------------
\* The routine for a size: the switch of start_pass and of start_pass_fdctmgr.
InverseRoutine(w, h) ==
  CASE w = 1 /\ h = 1 -> jpeg_idct_1x1 [] w = 2 /\ h = 2 -> jpeg_idct_2x2
    [] w = 3 /\ h = 3 -> jpeg_idct_3x3 [] w = 4 /\ h = 4 -> jpeg_idct_4x4
    [] w = 5 /\ h = 5 -> jpeg_idct_5x5 [] w = 6 /\ h = 6 -> jpeg_idct_6x6
    [] w = 7 /\ h = 7 -> jpeg_idct_7x7 [] w = 8 /\ h = 8 -> jpeg_idct_islow
    [] w = 9 /\ h = 9 -> jpeg_idct_9x9 [] w = 10 /\ h = 10 -> jpeg_idct_10x10
    [] w = 11 /\ h = 11 -> jpeg_idct_11x11 [] w = 12 /\ h = 12 -> jpeg_idct_12x12
    [] w = 13 /\ h = 13 -> jpeg_idct_13x13 [] w = 14 /\ h = 14 -> jpeg_idct_14x14
    [] w = 15 /\ h = 15 -> jpeg_idct_15x15 [] w = 16 /\ h = 16 -> jpeg_idct_16x16
    [] w = 16 /\ h = 8 -> jpeg_idct_16x8 [] w = 14 /\ h = 7 -> jpeg_idct_14x7
    [] w = 12 /\ h = 6 -> jpeg_idct_12x6 [] w = 10 /\ h = 5 -> jpeg_idct_10x5
    [] w = 8 /\ h = 4 -> jpeg_idct_8x4 [] w = 6 /\ h = 3 -> jpeg_idct_6x3
    [] w = 4 /\ h = 2 -> jpeg_idct_4x2 [] w = 2 /\ h = 1 -> jpeg_idct_2x1
    [] w = 8 /\ h = 16 -> jpeg_idct_8x16 [] w = 7 /\ h = 14 -> jpeg_idct_7x14
    [] w = 6 /\ h = 12 -> jpeg_idct_6x12 [] w = 5 /\ h = 10 -> jpeg_idct_5x10
    [] w = 4 /\ h = 8 -> jpeg_idct_4x8 [] w = 3 /\ h = 6 -> jpeg_idct_3x6
    [] w = 2 /\ h = 4 -> jpeg_idct_2x4 [] w = 1 /\ h = 2 -> jpeg_idct_1x2

ForwardRoutine(w, h) ==
  CASE w = 1 /\ h = 1 -> F!jpeg_fdct_1x1 [] w = 2 /\ h = 2 -> F!jpeg_fdct_2x2
    [] w = 3 /\ h = 3 -> F!jpeg_fdct_3x3 [] w = 4 /\ h = 4 -> F!jpeg_fdct_4x4
    [] w = 5 /\ h = 5 -> F!jpeg_fdct_5x5 [] w = 6 /\ h = 6 -> F!jpeg_fdct_6x6
    [] w = 7 /\ h = 7 -> F!jpeg_fdct_7x7 [] w = 8 /\ h = 8 -> F!jpeg_fdct_islow
    [] w = 9 /\ h = 9 -> F!jpeg_fdct_9x9 [] w = 10 /\ h = 10 -> F!jpeg_fdct_10x10
    [] w = 11 /\ h = 11 -> F!jpeg_fdct_11x11 [] w = 12 /\ h = 12 -> F!jpeg_fdct_12x12
    [] w = 13 /\ h = 13 -> F!jpeg_fdct_13x13 [] w = 14 /\ h = 14 -> F!jpeg_fdct_14x14
    [] w = 15 /\ h = 15 -> F!jpeg_fdct_15x15 [] w = 16 /\ h = 16 -> F!jpeg_fdct_16x16
    [] w = 16 /\ h = 8 -> F!jpeg_fdct_16x8 [] w = 14 /\ h = 7 -> F!jpeg_fdct_14x7
    [] w = 12 /\ h = 6 -> F!jpeg_fdct_12x6 [] w = 10 /\ h = 5 -> F!jpeg_fdct_10x5
    [] w = 8 /\ h = 4 -> F!jpeg_fdct_8x4 [] w = 6 /\ h = 3 -> F!jpeg_fdct_6x3
    [] w = 4 /\ h = 2 -> F!jpeg_fdct_4x2 [] w = 2 /\ h = 1 -> F!jpeg_fdct_2x1
    [] w = 8 /\ h = 16 -> F!jpeg_fdct_8x16 [] w = 7 /\ h = 14 -> F!jpeg_fdct_7x14
    [] w = 6 /\ h = 12 -> F!jpeg_fdct_6x12 [] w = 5 /\ h = 10 -> F!jpeg_fdct_5x10
    [] w = 4 /\ h = 8 -> F!jpeg_fdct_4x8 [] w = 3 /\ h = 6 -> F!jpeg_fdct_3x6
    [] w = 2 /\ h = 4 -> F!jpeg_fdct_2x4 [] w = 1 /\ h = 2 -> F!jpeg_fdct_1x2

inverse == InverseRoutine(size[1], size[2])
forward == ForwardRoutine(size[1], size[2])
fast == dct_method = "ifast"     \* only 8x8 blocks heed dct_method

-------------------------------------------------------------------------------
\* quantval[v][u]; it grows with the frequency and is not symmetric.
quantval(v, u) == quant + 2 * v + u

\* The multiplier table of start_pass and the divisor table of start_pass_fdctmgr.
dct_table(v, u) ==
  IF fast THEN DESCALE(quantval(v, u) * aanscales[v + 1][u + 1], 12) ELSE quantval(v, u)
divisors(v, u) ==
  IF fast THEN DESCALE(quantval(v, u) * aanscales[v + 1][u + 1], 11) ELSE quantval(v, u) * 8

\* Mutant: the table lacks its second half, that of the negative values.
range_limit_Positive(x) ==
  LET i == x % (2 * (MAXJSAMPLE + 1))
  IN IF i < CENTERJSAMPLE THEN CENTERJSAMPLE + i ELSE MAXJSAMPLE

\* prepare_range_limit_table, the part after the IDCT: range_limit[x & RANGE_MASK]
range_limit(x) ==
  LET i == x % (4 * (MAXJSAMPLE + 1))
  IN IF i < CENTERJSAMPLE THEN CENTERJSAMPLE + i
     ELSE IF i < 2 * (MAXJSAMPLE + 1) THEN MAXJSAMPLE
     ELSE IF i < 4 * (MAXJSAMPLE + 1) - CENTERJSAMPLE THEN 0
     ELSE i - (4 * (MAXJSAMPLE + 1) - CENTERJSAMPLE)

\* Mutant: the quotient is truncated.
Quantized_Truncated(x, d) == IF x < 0 THEN -((-x) \div d) ELSE x \div d

\* forward_DCT: division by the divisor, rounded symmetrically around zero
Quantized(x, d) ==
  IF x < 0 THEN -((-x + d \div 2) \div d) ELSE (x + d \div 2) \div d

-------------------------------------------------------------------------------
Coefficient(v, u) ==
  LET t == {b \in block : b[1] = v /\ b[2] = u} IN IF t = {} THEN 0 ELSE (CHOOSE b \in t : TRUE)[3]

Init ==
  /\ size \in Sizes /\ dct_method \in (IF size = <<8, 8>> THEN DctMethods ELSE {"islow"})
  /\ block \in Blocks /\ quant \in Quants
  /\ stage = "coefficients"
  /\ data = [v \in Freq |-> [u \in Freq |-> Coefficient(v, u)]]

\* One column of the inverse routine's first pass.  Columns without AC terms take a
\* short cut in the routines that have one.
InverseColumn(x, pass) ==
  LET shortcut == size \in {<<8, 8>>, <<16, 8>>, <<4, 8>>} /\ \A v \in 1 .. 7 : x[v] = 0
      k == InverseKernel(pass.points, x)
  IN IF fast THEN IF shortcut THEN [n \in 0 .. 7 |-> x[0]] ELSE InverseFast(x)
     ELSE IF shortcut THEN [n \in 0 .. 7 |-> x[0] * 2 ^ PASS1_BITS]
     ELSE IF pass.points = 4 /\ pass.shift > 0 THEN Columns4(x, pass.shift)
     ELSE [n \in 0 .. pass.points - 1 |-> DESCALE(k[n], pass.shift)]

InverseColumns ==
  /\ stage = "coefficients" /\ stage' = "workspace"
  /\ LET p == inverse.pass1
     IN data' = [u \in 0 .. p.count - 1 |->
                   InverseColumn([v \in Freq |-> data[v][u] * dct_table(v, u)], p)]
  /\ UNCHANGED <<size, dct_method, block, quant>>

\* One row of the second pass: x the row of the workspace.
InverseRow(x, pass) ==
  LET k == IF fast THEN InverseFast(x) ELSE InverseKernel(pass.points, x)
      shortcut == size = <<8, 8>> /\ \A u \in 1 .. 7 : x[u] = 0
  IN IF shortcut
     THEN [n \in 0 .. 7 |-> range_limit(IF fast THEN x[0] \div 2 ^ (PASS1_BITS + 3)
                                        ELSE DESCALE(x[0], PASS1_BITS + 3))]
     ELSE [n \in 0 .. pass.points - 1 |->
             range_limit(IF fast THEN k[n] \div 2 ^ (PASS1_BITS + 3) ELSE DESCALE(k[n], pass.shift))]

InverseRows ==
  /\ stage = "workspace" /\ stage' = "samples"
  /\ LET p == inverse.pass2
     IN data' = [r \in 0 .. p.count - 1 |-> InverseRow([u \in DOMAIN data |-> data[u][r]], p)]
  /\ UNCHANGED <<size, dct_method, block, quant>>

\* The samples are unsigned; the first output of a row is made signed.
ForwardRow(x, pass) ==
  LET k == IF fast THEN ForwardFast(x) ELSE F!ForwardKernel(pass.points, TRUE, x)
      unit == IF fast \/ pass.points <= 2 THEN 1 ELSE ONE
      center == pass.points * CENTERJSAMPLE * unit
  IN [u \in 0 .. Min2(pass.points, DCTSIZE) - 1 |->
        DESCALE(IF u = 0 THEN k[1] - center ELSE k[u + 1], IF fast THEN 0 ELSE pass.shift)]

ForwardRows ==
  /\ stage = "samples" /\ stage' = "rows"
  /\ LET p == forward.pass1
     IN data' = [r \in 0 .. p.count - 1 |-> ForwardRow(data[r], p)]
  /\ UNCHANGED <<size, dct_method, block, quant>>

\* Coefficients the size has no room for stay at the zeros the routine began with.
ForwardColumns ==
  /\ stage = "rows" /\ stage' = "transform"
  /\ LET p == forward.pass2
         column(u) == [r \in 0 .. p.points - 1 |-> data[r][u]]
         k == [u \in 0 .. p.count - 1 |-> IF fast THEN ForwardFast(column(u))
                                          ELSE F!ForwardKernel(p.points, FALSE, column(u))]
     IN data' = [u \in Freq |-> IF u < p.count
                                THEN [v \in Freq |-> IF v < p.points
                                        THEN DESCALE(k[u][v + 1], IF fast THEN 0 ELSE p.shift)
                                        ELSE 0]
                                ELSE [v \in Freq |-> 0]]
  /\ UNCHANGED <<size, dct_method, block, quant>>

Quantize ==
  /\ stage = "transform" /\ stage' = "quantized"
  /\ data' = [v \in Freq |-> [u \in Freq |-> Quantized(data[u][v], divisors(v, u))]]
  /\ UNCHANGED <<size, dct_method, block, quant>>

Next == InverseColumns \/ InverseRows \/ ForwardRows \/ ForwardColumns \/ Quantize
Spec == Init /\ [][Next]_vars

-------------------------------------------------------------------------------
(* Reference: the DCT by its definition.  RefCos(j, N) is cos(j * pi / (2 * N))   *)
(* with 14 fractional bits, by the Taylor series in the first quadrant.           *)
RefCos(j, N) ==
  LET S == 2 ^ 14
      m == j % (4 * N)
      q == IF m > 2 * N THEN 4 * N - m ELSE m
      x == (25736 * (IF q > N THEN 2 * N - q ELSE q)) \div N
      x2 == (x * x) \div S
      H(t, d) == S - ((x2 * t) \div S) \div d
      c == H(H(H(H(H(S, 90), 56), 30), 12), 2)
  IN IF q > N THEN -c ELSE c

\* The basis function of frequency k at sample n of N, 13 fractional bits.
RefBasis(N, k, n) == IF k = 0 THEN 8192 ELSE (11585 * RefCos((2 * n + 1) * k, N)) \div 2 ^ 14

\* The sample at row r, column c before rounding, less the centre; 17 fractional bits.
RefSample(r, c) ==
  MapThenSumSet(LAMBDA b : b[3] * quantval(b[1], b[2])
                           * ((RefBasis(size[2], b[1], r) * RefBasis(size[1], b[2], c)) \div 2 ^ 12),
                {b \in block : b[1] < size[2] /\ b[2] < size[1]})

Clamp(x, lo, hi) == IF x < lo THEN lo ELSE IF x > hi THEN hi ELSE x

(* Whatever the size a block is expanded to, each sample is the value the inverse *)
(* DCT has by its definition, clamped to the range of samples: the rounding of    *)
(* the two passes and of the constants costs less than a quarter of a step more   *)
(* than the rounding to a sample does (and the fast transform at most two).       *)
SamplesAreTheDct ==
  stage = "samples" =>
    LET tolerance == IF fast THEN 5 * 2 ^ 16 ELSE 3 * 2 ^ 15
    IN \A r \in DOMAIN data : \A c \in DOMAIN data[r] :
         LET exact == Clamp(RefSample(r, c), -CENTERJSAMPLE * 2 ^ 17, (MAXJSAMPLE - CENTERJSAMPLE) * 2 ^ 17)
             error == exact - (data[r][c] - CENTERJSAMPLE) * 2 ^ 17
         IN -tolerance < error /\ error < tolerance

(* Saving a picture again with its own table changes no coefficient, as long as   *)
(* no sample was clamped: the forward routine of a size inverts the inverse one   *)
(* to within half a quantization step at every frequency the size has room for,   *)
(* and leaves zero at the others.  The steps must be coarse: rounding each sample *)
(* of a small block by half moves a coefficient by up to 8.                       *)
Unclamped ==
  \A r \in 0 .. size[2] - 1, c \in 0 .. size[1] - 1 :
    RefSample(r, c) \in -127 * 2 ^ 17 .. 126 * 2 ^ 17

Coarse == quant > 16

Stable ==
  \A v, u \in Freq :
    data[v][u] = IF v < size[2] /\ u < size[1] THEN Coefficient(v, u) ELSE 0

\* The row pass for widths 12 and 14 is wrong at two frequencies: see RecompressionIsStable.
TrueRowPass == size[1] \notin {12, 14}

SavedAgainUnchanged == stage = "quantized" /\ TrueRowPass /\ Coarse /\ Unclamped => Stable

(* The comments of jpeg_fdct_12x12, 12x6, 14x14 and 14x7 describe their row pass  *)
(* as the DCT kernel of 12 and 14 points, cK being sqrt(2) * cos(K*pi/24) and     *)
(* sqrt(2) * cos(K*pi/28); if it were, no width would need the exception above.   *)
RecompressionIsStable == stage = "quantized" /\ Coarse /\ Unclamped => Stable
=================================================================================
