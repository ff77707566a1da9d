-------------------------------- MODULE JpegIdct --------------------------------
(* The inverse DCT of the bundled libjpeg (jpeg-8c/jidctint.c): one routine for   *)
(* each size an 8x8 block of coefficients is expanded to.  Every routine is two   *)
(* passes of one-dimensional kernels, down the columns into a workspace and then  *)
(* along its rows.  The N-point kernel, given the coefficients x[0], x[1], ... of *)
(* one column or row, is the same in every routine that uses it; it is written    *)
(* here without its scaling, which belongs to the pass.                           *)
EXTENDS JpegFixed

(* The result of an N-point kernel: the even and the odd part added for the first *)
(* half of the outputs, subtracted for the mirrored half.                         *)
Unfold(N, even, odd) ==
  [n \in 0 .. N - 1 |-> IF n < Len(odd) THEN even[n + 1] + odd[n + 1]
                        ELSE IF n < Len(even) THEN even[n + 1]
                        ELSE even[N - n] - odd[N - n]]

\* jpeg_idct_1x1, jpeg_idct_2x2
Idct1(x) == Unfold(1, <<x[0]>>, <<>>)
Idct2(x) == Unfold(2, <<x[0]>>, <<x[1]>>)

\* jpeg_idct_3x3, pass 1
Idct3(x) ==
  LET t0 == ONE * x[0]    t12 == FIX(0, 707106781) * x[2]
  IN Unfold(3,
       <<t0 + t12, t0 - t12 - t12>>,
       <<FIX(1, 224744871) * x[1]>>)

\* jpeg_idct_4x4, pass 1
Odd4(x) ==
  LET z1 == FIX(0, 541196100) * (x[1] + x[3])
  IN <<z1 + FIX(0, 765366865) * x[1], z1 - FIX(1, 847759065) * x[3]>>
Idct4(x) == Unfold(4, <<ONE * (x[0] + x[2]), ONE * (x[0] - x[2])>>, Odd4(x))

\* The column pass of jpeg_idct_4x4 and 8x4 rounds the odd part before it is added.
Columns4(x, shift) ==
  Unfold(4, <<(x[0] + x[2]) * 2 ^ PASS1_BITS, (x[0] - x[2]) * 2 ^ PASS1_BITS>>,
         [i \in 1 .. 2 |-> DESCALE(Odd4(x)[i], shift)])

\* jpeg_idct_5x5, pass 1
Idct5(x) ==
  LET t12 == ONE * x[0]    z1 == FIX(0, 790569415) * (x[2] + x[4])
      z2 == FIX(0, 353553391) * (x[2] - x[4])    z3 == t12 + z2
      z1a == FIX(0, 831253876) * (x[1] + x[3])
  IN Unfold(5,
       <<z3 + z1, z3 - z1, t12 - 4 * z2>>,
       <<z1a + FIX(0, 513743148) * x[1], z1a - FIX(2, 176250899) * x[3]>>)

\* jpeg_idct_6x6, pass 1
Idct6(x) ==
  LET t0 == ONE * x[0]    t10 == FIX(0, 707106781) * x[4]    t1 == t0 + t10
      t0a == FIX(1, 224744871) * x[2]    t1a == FIX(0, 366025404) * (x[1] + x[5])
  IN Unfold(6,
       <<t1 + t0a, t0 - t10 - t10, t1 - t0a>>,
       <<t1a + ONE * (x[1] + x[3]), ONE * (x[1] - x[3] - x[5]),
         t1a + ONE * (x[5] - x[3])>>)

\* jpeg_idct_7x7, pass 1
Idct7(x) ==
  LET t13 == ONE * x[0]    t10 == FIX(0, 881747734) * (x[4] - x[6])
      t12 == FIX(0, 314692123) * (x[2] - x[4])    t0 == x[2] + x[6]
      t0a == FIX(1, 274162392) * t0 + t13    t1 == FIX(0, 935414347) * (x[1] + x[3])
      t2 == FIX(0, 170262339) * (x[1] - x[3])    t2a == -(FIX(1, 378756276) * (x[3] + x[5]))
      z2 == FIX(0, 613604268) * (x[1] + x[5])
  IN Unfold(7,
       <<t10 + t0a - FIX(0, 077722536) * x[6],
         t10 + t12 + t13 - FIX(1, 841218003) * x[4],
         t12 + t0a - FIX(2, 470602249) * x[2], t13 + FIX(1, 414213562) * (x[4] - t0)>>,
       <<t1 - t2 + z2, t1 + t2 + t2a, t2a + z2 + FIX(1, 870828693) * x[5]>>)

\* jpeg_idct_islow, pass 1
Idct8(x) ==
  LET z1 == FIX(0, 541196100) * (x[2] + x[6])    t2 == z1 + FIX(0, 765366865) * x[2]
      t3 == z1 - FIX(1, 847759065) * x[6]    z2 == ONE * x[0]
      z3 == ONE * x[4]    t0 == z2 + z3    t1 == z2 - z3    z2a == x[7] + x[3]
      z3a == x[5] + x[1]    z1a == FIX(1, 175875602) * (z2a + z3a)
      z2b == z1a - FIX(1, 961570560) * z2a    z3b == z1a - FIX(0, 390180644) * z3a
      z1b == -(FIX(0, 899976223) * (x[7] + x[1]))    z1c == -(FIX(2, 562915447) * (x[5] + x[3]))
  IN Unfold(8,
       <<t0 + t2, t1 + t3, t1 - t3, t0 - t2>>,
       <<FIX(1, 501321110) * x[1] + z1b + z3b, FIX(3, 072711026) * x[3] + z1c + z2b,
         FIX(2, 053119869) * x[5] + z1c + z3b, FIX(0, 298631336) * x[7] + z1b + z2b>>)

\* jpeg_idct_9x9, pass 1
Idct9(x) ==
  LET t0 == ONE * x[0]    t3 == FIX(0, 707106781) * x[6]    t1 == t0 + t3
      t2 == t0 - t3 - t3    t0a == FIX(0, 707106781) * (x[2] - x[4])
      t0b == FIX(1, 328926049) * (x[2] + x[4])    t2a == FIX(1, 083350441) * x[2]
      t3a == FIX(0, 245575608) * x[4]    z2 == -(FIX(1, 224744871) * x[3])
      t2b == FIX(0, 909038955) * (x[1] + x[5])    t3b == FIX(0, 483689525) * (x[1] + x[7])
      t1a == FIX(1, 392728481) * (x[5] - x[7])
  IN Unfold(9,
       <<t1 + t0b - t3a, t2 + t0a, t1 - t0b + t2a, t1 - t2a + t3a, t2 - t0a - t0a>>,
       <<t2b + t3b - z2, FIX(1, 224744871) * (x[1] - x[5] - x[7]), t2b + z2 - t1a,
         t3b + z2 + t1a>>)

\* jpeg_idct_10x10, pass 1
Idct10(x) ==
  LET z3 == ONE * x[0]    z1 == FIX(1, 144122806) * x[4]    z2 == FIX(0, 437016024) * x[4]
      t10 == z3 + z1    t11 == z3 - z2    z1a == FIX(0, 831253876) * (x[2] + x[6])
      t12 == z1a + FIX(0, 513743148) * x[2]    t13 == z1a - FIX(2, 176250899) * x[6]
      t11a == x[3] + x[7]    t13a == x[3] - x[7]    t12a == FIX(0, 309016994) * t13a
      z5 == ONE * x[5]    z2a == FIX(0, 951056516) * t11a    z4 == z5 + t12a
      z2b == FIX(0, 587785252) * t11a    z4a == z5 - t12a - (ONE \div 2) * t13a
  IN Unfold(10,
       <<t10 + t12, t11 + t13, z3 - 2 * (z1 - z2), t11 - t13, t10 - t12>>,
       <<FIX(1, 396802247) * x[1] + z2a + z4, FIX(1, 260073511) * x[1] - z2b - z4a,
         ONE * (x[1] - t13a - x[5]), FIX(0, 642039522) * x[1] - z2b + z4a,
         FIX(0, 221231742) * x[1] - z2a + z4>>)

\* jpeg_idct_11x11, pass 1
Idct11(x) ==
  LET t10 == ONE * x[0]    t20 == FIX(2, 546640132) * (x[4] - x[6])
      t23 == FIX(0, 430815045) * (x[4] - x[2])    z4 == x[2] + x[6]
      z4a == z4 - x[4]    t25 == t10 + FIX(1, 356927976) * z4a
      t24 == t25 - FIX(1, 155664402) * z4    t11 == x[1] + x[3]
      t14 == FIX(0, 398430003) * (t11 + x[5] + x[7])    t11a == FIX(0, 887983902) * t11
      t12 == FIX(0, 670361295) * (x[1] + x[5])    t13 == t14 + FIX(0, 366151574) * (x[1] + x[7])
      z1 == t14 - FIX(1, 163011579) * (x[3] + x[5])
      z1a == -(FIX(1, 798248910) * (x[3] + x[7]))
  IN Unfold(11,
       <<t20 + t25 + FIX(2, 115825087) * x[6],
         t20 + t23 + t25 - FIX(1, 821790775) * x[4], t24 - FIX(0, 788749120) * x[6],
         t23 + t25 - FIX(1, 513598477) * x[2],
         t24 + FIX(1, 944413522) * x[4] - FIX(1, 390975730) * x[2],
         t10 - FIX(1, 414213562) * z4a>>,
       <<t11a + t12 + t13 - FIX(0, 923107866) * x[1],
         t11a + z1 + FIX(2, 073276588) * x[3] + z1a,
         t12 + z1 - FIX(1, 192193623) * x[5], t13 + z1a + FIX(2, 102458632) * x[7],
         t14 + FIX(1, 001388905) * x[5] - FIX(1, 467221301) * x[3] - FIX(1, 684843907) * x[7]>>)

\* jpeg_idct_12x12, pass 1
Idct12(x) ==
  LET z3 == ONE * x[0]    z4 == FIX(1, 224744871) * x[4]    t10 == z3 + z4
      t11 == z3 - z4    z4a == FIX(1, 366025404) * x[2]    z1 == ONE * x[2]
      z2 == ONE * x[6]    t12 == z1 - z2    t12a == z4a + z2
      t12b == z4a - z1 - z2    t11a == FIX(1, 306562965) * x[3]
      t14 == -(FIX(0, 541196100) * x[3])    t10a == x[1] + x[5]
      t15 == FIX(0, 860918669) * (t10a + x[7])    t12c == t15 + FIX(0, 261052384) * t10a
      t13 == -(FIX(1, 045510580) * (x[5] + x[7]))    z1a == x[1] - x[7]
      z2a == x[3] - x[5]    z3a == FIX(0, 541196100) * (z1a + z2a)
  IN Unfold(12,
       <<t10 + t12a, z3 + t12, t11 + t12b, t11 - t12b, z3 - t12, t10 - t12a>>,
       <<t12c + t11a + FIX(0, 280143716) * x[1], z3a + FIX(0, 765366865) * z1a,
         t12c + t13 + t14 - FIX(1, 478575242) * x[5],
         t13 + t15 - t11a + FIX(1, 586706681) * x[7], z3a - FIX(1, 847759065) * z2a,
         t15 + t14 - FIX(0, 676326758) * x[1] - FIX(1, 982889723) * x[7]>>)

\* jpeg_idct_13x13, pass 1
Idct13(x) ==
  LET z1 == ONE * x[0]    t10 == x[4] + x[6]    t11 == x[4] - x[6]
      t12 == FIX(1, 155388986) * t10    t13 == FIX(0, 096834934) * t11 + z1
      t12a == FIX(0, 316450131) * t10    t13a == FIX(0, 486914739) * t11 + z1
      t12b == FIX(0, 435816023) * t10    t13b == FIX(0, 937303064) * t11 - z1
      t11a == FIX(1, 322312651) * (x[1] + x[3])    t12c == FIX(1, 163874945) * (x[1] + x[5])
      t15 == x[1] + x[7]    t13c == FIX(0, 937797057) * t15
      t14 == -(FIX(0, 338443458) * (x[3] + x[5]))
      t14a == -(FIX(1, 163874945) * (x[3] + x[7]))
      t14b == -(FIX(0, 657217813) * (x[5] + x[7]))    t15a == FIX(0, 338443458) * t15
      z1a == FIX(0, 937797057) * (x[5] - x[3])
  IN Unfold(13,
       <<FIX(1, 373119086) * x[2] + t12 + t13, FIX(1, 058554052) * x[2] - t12a + t13a,
         FIX(0, 501487041) * x[2] - t12 + t13,
         (-(FIX(0, 170464608) * x[2])) - t12b - t13b,
         t12b - FIX(0, 803364869) * x[2] - t13b,
         t12a - FIX(1, 252223920) * x[2] + t13a,
         FIX(1, 414213562) * (t11 - x[2]) + z1>>,
       <<t11a + t12c + t13c - FIX(2, 020082300) * x[1],
         t11a + t14 + FIX(0, 837223564) * x[3] + t14a,
         t12c + t14 - FIX(1, 572116027) * x[5] + t14b,
         t13c + t14a + FIX(2, 205608352) * x[7] + t14b,
         t15a + FIX(0, 318774355) * x[1] - FIX(0, 466105296) * x[3] + z1a,
         t15a + z1a + FIX(0, 384515595) * x[5] - FIX(1, 742345811) * x[7]>>)

\* jpeg_idct_14x14, pass 1
Idct14(x) ==
  LET z1 == ONE * x[0]    z2 == FIX(1, 274162392) * x[4]    z3 == FIX(0, 314692123) * x[4]
      z4 == FIX(0, 881747734) * x[4]    t10 == z1 + z2    t11 == z1 + z3
      t12 == z1 - z4    z3a == FIX(1, 105676686) * (x[2] + x[6])
      t13 == z3a + FIX(0, 273079590) * x[2]    t14 == z3a - FIX(1, 719280954) * x[6]
      t15 == FIX(0, 613604268) * x[2] - FIX(1, 378756276) * x[6]
      t13a == ONE * x[7]    t14a == x[1] + x[5]    t11a == FIX(1, 334852607) * (x[1] + x[3])
      t12a == FIX(1, 197448846) * t14a    t14b == FIX(0, 752406978) * t14a
      z1a == x[1] - x[3]    t15a == FIX(0, 467085129) * z1a - t13a
      z4a == (-(FIX(0, 158341681) * (x[3] + x[5]))) - t13a
      z4b == FIX(1, 405321284) * (x[5] - x[3])
  IN Unfold(14,
       <<t10 + t13, t11 + t14, t12 + t15, z1 - 2 * (z2 + z3 - z4), t12 - t15,
         t11 - t14, t10 - t13>>,
       <<t11a + t12a + t13a - FIX(1, 126980169) * x[1],
         t11a + z4a - FIX(0, 424103948) * x[3], t12a + z4a - FIX(2, 373959773) * x[5],
         ONE * (z1a + x[7] - x[5]), t14b + z4b + t13a - FIX(1, 690643133) * x[5],
         t15a + z4b + FIX(0, 674957567) * x[3],
         t14b - FIX(1, 061150426) * x[1] + t15a>>)

\* jpeg_idct_15x15, pass 1
Idct15(x) ==
  LET z1 == ONE * x[0]    t10 == FIX(0, 437016024) * x[6]    t11 == FIX(1, 144122806) * x[6]
      t12 == z1 - t10    t13 == z1 + t11    z1a == z1 - 2 * (t11 - t10)
      z4 == x[2] - x[4]    z3 == x[4] + x[2]    t10a == FIX(1, 337628990) * z3
      t11a == FIX(0, 045680613) * z4    z2 == FIX(1, 439773946) * x[2]
      t10b == FIX(0, 547059574) * z3    t11b == FIX(0, 399234004) * z4
      t10c == FIX(0, 790569415) * z3    t11c == FIX(0, 353553391) * z4
      t11d == t11c + t11c    z3a == FIX(1, 224744871) * x[5]
      t13a == x[3] - x[7]    t15 == FIX(0, 831253876) * (x[1] + t13a)
      t13b == -(FIX(0, 831253876) * x[3])    t15a == -(FIX(1, 344997024) * x[3])
      z2a == x[1] - x[7]    t12a == z3a + FIX(1, 406466353) * z2a
      z2b == FIX(0, 575212477) * (x[1] + x[7])
  IN Unfold(15,
       <<t13 + t10a + t11a, t12 + t10c + t11c, z1a + t11d, t12 - t10a + t11a + z2,
         t13 - t10c + t11c, t13 - t10b - t11b, t12 + t10b - t11b - z2,
         z1a - t11d - t11d>>,
       <<t12a + FIX(2, 457431844) * x[7] - t15a, t15 + FIX(0, 513743148) * x[1],
         FIX(1, 224744871) * z2a - z3a, t13b + z2b + FIX(0, 475753014) * x[1] - z3a,
         t15 - FIX(2, 176250899) * t13a, t15a + z2b - FIX(0, 869244010) * x[7] + z3a,
         t12a - FIX(1, 112434820) * x[1] + t13b>>)

\* jpeg_idct_16x16, pass 1
Idct16(x) ==
  LET t0 == ONE * x[0]    t1 == FIX(1, 306562965) * x[4]    t2 == FIX(0, 541196100) * x[4]
      t10 == t0 + t1    t11 == t0 - t1    t12 == t0 + t2    t13 == t0 - t2
      z3 == x[2] - x[6]    z4 == FIX(0, 275899379) * z3    z3a == FIX(1, 387039845) * z3
      t0a == z3a + FIX(2, 562915447) * x[6]    t1a == z4 + FIX(0, 899976223) * x[2]
      t2a == z3a - FIX(0, 601344887) * x[2]    t3 == z4 - FIX(0, 509795579) * x[6]
      t11a == x[1] + x[5]    t1b == FIX(1, 353318001) * (x[1] + x[3])
      t2b == FIX(1, 247225013) * t11a    t3a == FIX(1, 093201867) * (x[1] + x[7])
      t10a == FIX(0, 897167586) * (x[1] - x[7])    t11b == FIX(0, 666655658) * t11a
      t12a == FIX(0, 410524528) * (x[1] - x[3])    z1 == FIX(0, 138617169) * (x[3] + x[5])
      z1a == FIX(1, 407403738) * (x[5] - x[3])    z2 == x[3] + x[7]
      z1b == -(FIX(0, 666655658) * z2)    z2a == -(FIX(1, 247225013) * z2)
      z2b == -(FIX(1, 353318001) * (x[5] + x[7]))    z2c == FIX(0, 410524528) * (x[7] - x[5])
  IN Unfold(16,
       <<t10 + t0a, t12 + t1a, t13 + t2a, t11 + t3, t11 - t3, t13 - t2a, t12 - t1a,
         t10 - t0a>>,
       <<t1b + t2b + t3a - FIX(2, 286341144) * x[1],
         t1b + z1 + FIX(0, 071888074) * x[3] + z1b,
         t2b + z1 - FIX(1, 125726048) * x[5] + z2b,
         t3a + z1b + FIX(1, 065388962) * x[7] + z2b,
         t10a + z2a + FIX(3, 141271809) * x[7] + z2c,
         t11b + z1a - FIX(0, 766367282) * x[5] + z2c,
         t12a + z1a + FIX(1, 971951411) * x[3] + z2a,
         t10a + t11b + t12a - FIX(1, 835730603) * x[1]>>)

InverseKernel(N, x) ==
  CASE N = 1 -> Idct1(x)    [] N = 2 -> Idct2(x)    [] N = 3 -> Idct3(x)
    [] N = 4 -> Idct4(x)    [] N = 5 -> Idct5(x)    [] N = 6 -> Idct6(x)
    [] N = 7 -> Idct7(x)    [] N = 8 -> Idct8(x)    [] N = 9 -> Idct9(x)
    [] N = 10 -> Idct10(x)  [] N = 11 -> Idct11(x)  [] N = 12 -> Idct12(x)
    [] N = 13 -> Idct13(x)  [] N = 14 -> Idct14(x)  [] N = 15 -> Idct15(x)
    [] N = 16 -> Idct16(x)

(* A routine: its two passes, each with the points of its kernel, the number of   *)
(* columns or rows it is applied to and the bits its results are shifted right by. *)
Routine(p1, p2) ==
  [pass1 |-> [points |-> p1[1], count |-> p1[2], shift |-> p1[3]],
   pass2 |-> [points |-> p2[1], count |-> p2[2], shift |-> p2[3]]]

jpeg_idct_1x1   == Routine(<<1, 1, 0>>, <<1, 1, 3>>)
jpeg_idct_2x2   == Routine(<<2, 2, 0>>, <<2, 2, 3>>)
jpeg_idct_3x3   == Routine(<<3, 3, 11>>, <<3, 3, 18>>)
jpeg_idct_4x4   == Routine(<<4, 4, 11>>, <<4, 4, 18>>)
jpeg_idct_5x5   == Routine(<<5, 5, 11>>, <<5, 5, 18>>)
jpeg_idct_6x6   == Routine(<<6, 6, 11>>, <<6, 6, 18>>)
jpeg_idct_7x7   == Routine(<<7, 7, 11>>, <<7, 7, 18>>)
jpeg_idct_islow == Routine(<<8, 8, 11>>, <<8, 8, 18>>)
jpeg_idct_9x9   == Routine(<<9, 8, 11>>, <<9, 9, 18>>)
jpeg_idct_10x10 == Routine(<<10, 8, 11>>, <<10, 10, 18>>)
jpeg_idct_11x11 == Routine(<<11, 8, 11>>, <<11, 11, 18>>)
jpeg_idct_12x12 == Routine(<<12, 8, 11>>, <<12, 12, 18>>)
jpeg_idct_13x13 == Routine(<<13, 8, 11>>, <<13, 13, 18>>)
jpeg_idct_14x14 == Routine(<<14, 8, 11>>, <<14, 14, 18>>)
jpeg_idct_15x15 == Routine(<<15, 8, 11>>, <<15, 15, 18>>)
jpeg_idct_16x16 == Routine(<<16, 8, 11>>, <<16, 16, 18>>)
jpeg_idct_16x8  == Routine(<<8, 8, 11>>, <<16, 8, 18>>)
jpeg_idct_14x7  == Routine(<<7, 8, 11>>, <<14, 7, 18>>)
jpeg_idct_12x6  == Routine(<<6, 8, 11>>, <<12, 6, 18>>)
jpeg_idct_10x5  == Routine(<<5, 8, 11>>, <<10, 5, 18>>)
jpeg_idct_8x4   == Routine(<<4, 8, 11>>, <<8, 4, 18>>)
jpeg_idct_6x3   == Routine(<<3, 6, 11>>, <<6, 3, 18>>)
jpeg_idct_4x2   == Routine(<<2, 4, 0>>, <<4, 2, 16>>)
jpeg_idct_2x1   == Routine(<<1, 2, 0>>, <<2, 1, 3>>)
jpeg_idct_8x16  == Routine(<<16, 8, 11>>, <<8, 16, 18>>)
jpeg_idct_7x14  == Routine(<<14, 7, 11>>, <<7, 14, 18>>)
jpeg_idct_6x12  == Routine(<<12, 6, 11>>, <<6, 12, 18>>)
jpeg_idct_5x10  == Routine(<<10, 5, 11>>, <<5, 10, 18>>)
jpeg_idct_4x8   == Routine(<<8, 4, 11>>, <<4, 8, 18>>)
jpeg_idct_3x6   == Routine(<<6, 3, 11>>, <<3, 6, 18>>)
jpeg_idct_2x4   == Routine(<<4, 2, 0>>, <<2, 4, 16>>)
jpeg_idct_1x2   == Routine(<<2, 1, 0>>, <<1, 2, 3>>)
=================================================================================
