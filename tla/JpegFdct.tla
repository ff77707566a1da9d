-------------------------------- MODULE JpegFdct --------------------------------
(* The forward DCT of the bundled libjpeg (jpeg-8c/jfdctint.c): one routine for    *)
(* each size of a block of samples.  A routine transforms the rows and then the   *)
(* columns.  The N-point kernel is applied to the sums s[i] = x[i] + x[N-1-i] (and *)
(* s[i] = x[i] in the middle) and the differences d[i] = x[i] - x[N-1-i]; it has   *)
(* the same shape in both passes, and the column pass folds the scaling of the    *)
(* output size, u/ONE, into its constants.                                        *)
EXTENDS JpegFixed

Fdct1(s, d, u, c) == <<s[0]>>
Fdct2(s, d, u, c) == <<s[0], d[0]>>

\* jpeg_fdct_3x3
Fdct3(s, d, u, c) ==
  <<u * (s[0] + s[1]), c[1] * d[0], c[2] * (s[0] - s[1] - s[1])>>

\* jpeg_fdct_4x4
Fdct4(s, d, u, c) ==
  LET t0 == c[1] * (d[0] + d[1])
  IN <<u * (s[0] + s[1]), t0 + c[2] * d[0], u * (s[0] - s[1]), t0 - c[3] * d[1]>>

\* jpeg_fdct_5x5
Fdct5(s, d, u, c) ==
  LET t10 == s[0] + s[1]    t11 == c[1] * (s[0] - s[1])    t10a == c[2] * (t10 - 4 * s[2])
      t10b == c[3] * (d[0] + d[1])
  IN <<u * (t10 + s[2]), t10b + c[4] * d[0], t11 + t10a, t10b - c[5] * d[1], t11 - t10a>>

\* jpeg_fdct_6x6
Fdct6(s, d, u, c) ==
  LET t10 == s[0] + s[2]    t10a == c[1] * (d[0] + d[2])
  IN <<u * (t10 + s[1]), t10a + u * (d[0] + d[1]), c[2] * (s[0] - s[2]),
       u * (d[0] - d[1] - d[2]), c[3] * (t10 - s[1] - s[1]), t10a + u * (d[2] - d[1])>>

\* jpeg_fdct_7x7
Fdct7(s, d, u, c) ==
  LET z1 == s[0] + s[2]    t3 == s[3] + s[3]    z1a == c[1] * (z1 - t3 - t3)
      z2 == c[2] * (s[0] - s[2])    z3 == c[3] * (s[1] - s[2])
      z2a == c[4] * (s[0] - s[1])    t1 == c[5] * (d[0] + d[1])
      t2 == c[6] * (d[0] - d[1])    t2a == -(c[7] * (d[1] + d[2]))
      t3a == c[8] * (d[0] + d[2])
  IN <<u * (z1 + s[1] + s[3]), t1 - t2 + t3a, z1a + z2 + z3, t1 + t2 + t2a,
       z2a + z3 - c[9] * (s[1] - t3), t2a + t3a + c[10] * d[2], z1a - z2 + z2a>>

\* jpeg_fdct_islow
Fdct8(s, d, u, c) ==
  LET t10 == s[0] + s[3]    t12 == s[0] - s[3]    t11 == s[1] + s[2]
      t13 == s[1] - s[2]    z1 == c[1] * (t12 + t13)    t12a == d[0] + d[2]
      t13a == d[1] + d[3]    z1a == c[2] * (t12a + t13a)    t10a == -(c[3] * (d[0] + d[3]))
      t11a == -(c[4] * (d[1] + d[2]))    t12b == z1a - c[5] * t12a
      t13b == z1a - c[6] * t13a
  IN <<u * (t10 + t11), c[7] * d[0] + t10a + t12b, z1 + c[8] * t12,
       c[9] * d[1] + t11a + t13b, u * (t10 - t11), c[10] * d[2] + t11a + t12b,
       z1 - c[11] * t13, c[12] * d[3] + t10a + t13b>>

\* jpeg_fdct_9x9
Fdct9(s, d, u, c) ==
  LET z1 == s[0] + s[2] + s[3]    z2 == s[1] + s[4]    z1a == c[1] * (s[0] - s[2])
      z2a == c[2] * (s[1] - s[4] - s[4])    t11 == c[3] * d[1]
      t0 == c[4] * (d[0] + d[2])    t1 == c[5] * (d[0] + d[3])
      t2 == c[6] * (d[2] - d[3])
  IN <<u * (z1 + z2), t11 + t0 + t1, c[7] * (s[2] - s[3]) + z1a + z2a,
       c[3] * (d[0] - d[2] - d[3]), c[8] * (s[3] - s[0]) + z1a - z2a, t0 - t11 - t2,
       c[2] * (z1 - z2 - z2), t1 - t11 + t2>>

\* jpeg_fdct_10x10
Fdct10(s, d, u, c) ==
  LET t10 == s[0] + s[4]    t13 == s[0] - s[4]    t11 == s[1] + s[3]
      t14 == s[1] - s[3]    t12 == s[2] + s[2]    t10a == c[1] * (t13 + t14)
      t10b == d[0] + d[4]    t11a == d[1] - d[3]    t2 == u * d[2]
      t12a == c[2] * (d[0] - d[4]) - c[3] * (d[1] + d[3])
      t13a == c[4] * (t10b + t11a) + c[5] * t11a - t2
  IN <<u * (t10 + t11 + s[2]), c[6] * d[0] + c[7] * d[1] + t2 + c[8] * d[3] + c[9] * d[4],
       t10a + c[10] * t13, t12a + t13a, c[11] * (t10 - t12) - c[12] * (t11 - t12),
       u * (t10b - t11a - d[2]), t10a - c[13] * t14, t12a - t13a>>

\* jpeg_fdct_11x11
Fdct11(s, d, u, c) ==
  LET t5 == s[5] + s[5]    t0 == s[0] - t5    t1 == s[1] - t5
      t2 == s[2] - t5    t3 == s[3] - t5    t4 == s[4] - t5
      z1 == c[1] * (t0 + t3) + c[2] * (t2 + t4)    z2 == c[3] * (t1 - t3)
      z3 == c[4] * (t0 - t1)    t1a == c[5] * (d[0] + d[1])    t2a == c[6] * (d[0] + d[2])
      t3a == c[7] * (d[0] + d[3])    t4a == -(c[7] * (d[1] + d[2]))
      t5a == -(c[8] * (d[1] + d[3]))    t10 == c[9] * (d[2] + d[3])
  IN <<u * (s[0] + s[1] + s[2] + s[3] + s[4] + s[5]),
       t1a + t2a + t3a - c[10] * d[0] + c[9] * d[4], z1 + z2 - c[11] * t3 - c[12] * t4,
       t1a + t4a + t5a + c[13] * d[1] - c[6] * d[4],
       z2 + z3 + c[14] * t1 - c[1] * t2 + c[15] * t4,
       t2a + t4a + t10 - c[16] * d[2] + c[8] * d[4], z1 + z3 - c[17] * t0 - c[18] * t2,
       t3a + t5a + t10 + c[19] * d[3] - c[5] * d[4]>>

\* jpeg_fdct_12x12
Fdct12(s, d, u, c) ==
  LET t10 == s[0] + s[5]    t13 == s[0] - s[5]    t14 == s[1] - s[4]
      t12 == s[2] + s[3]    t15 == s[2] - s[3]    t10a == c[1] * (d[1] + d[4])
      t14a == t10a + c[2] * d[1]    t15a == t10a - c[3] * d[4]
      t12a == c[4] * (d[0] + d[2])    t13a == c[5] * (d[0] + d[3])
      t11 == -(c[6] * (d[2] + d[3]))
  IN <<u * (t10 + s[1] + s[4] + t12), t12a + t13a + t14a - c[7] * d[0] + c[6] * d[5],
       c[8] * (t14 - t15) + c[9] * (t13 + t15),
       t15a + c[10] * (d[0] - d[3]) - c[1] * (d[2] + d[5]), c[11] * (t10 - t12),
       t12a + t11 - t15a - c[12] * d[2] + c[5] * d[5], u * (t13 - t14 - t15),
       t13a + t11 - t14a + c[13] * d[3] - c[4] * d[5]>>

\* jpeg_fdct_13x13
Fdct13(s, d, u, c) ==
  LET t6 == s[6] + s[6]    t0 == s[0] - t6    t1 == s[1] - t6
      t2 == s[2] - t6    t3 == s[3] - t6    t4 == s[4] - t6    t5 == s[5] - t6
      z1 == c[1] * (t0 - t2) - c[2] * (t3 - t4) - c[3] * (t1 - t5)
      z2 == c[4] * (t0 + t2) - c[5] * (t3 + t4) + c[6] * (t1 + t5)
      t1a == c[7] * (d[0] + d[1])    t2a == c[8] * (d[0] + d[2])
      t3a == c[9] * (d[0] + d[3]) + c[10] * (d[4] + d[5])
      t4a == c[9] * (d[4] - d[5]) - c[10] * (d[1] + d[2])    t5a == -(c[8] * (d[1] + d[3]))
      t6a == -(c[11] * (d[2] + d[3]))
  IN <<u * (s[0] + s[1] + s[2] + s[3] + s[4] + s[5] + s[6]),
       t1a + t2a + t3a - c[12] * d[0] + c[13] * d[4],
       c[14] * t0 + c[15] * t1 + c[16] * t2 - c[17] * t3 - c[18] * t4 - c[19] * t5,
       t1a + t4a + t5a + c[20] * d[1] - c[21] * d[4], z1 + z2,
       t2a + t4a + t6a - c[22] * d[2] + c[23] * d[5], z1 - z2,
       t3a + t5a + t6a + c[24] * d[3] - c[25] * d[5]>>

\* jpeg_fdct_14x14
Fdct14(s, d, u, c) ==
  LET t10 == s[0] + s[6]    t14 == s[0] - s[6]    t11 == s[1] + s[5]
      t15 == s[1] - s[5]    t12 == s[2] + s[4]    t16 == s[2] - s[4]
      t13 == s[3] + s[3]    t10a == c[1] * (t14 + t15)    t10b == d[1] + d[2]
      t11a == d[5] - d[4]    t3 == u * d[3]    t10c == c[2] * t11a - t3 - c[3] * t10b
      t11b == c[4] * (d[0] + d[2]) + c[5] * (d[4] + d[6])
      t12a == c[6] * (d[0] + d[1]) + c[7] * (d[5] - d[6])
  IN <<u * (t10 + t11 + t12 + s[3]), t11b + t12a + t3 - c[8] * d[0] - c[9] * d[6],
       t10a + c[10] * t14 + c[11] * t16, t10c + t12a - c[12] * d[1] - c[13] * d[5],
       c[14] * (t10 - t13) + c[15] * (t11 - t13) - c[16] * (t12 - t13),
       t10c + t11b - c[17] * d[2] + c[18] * d[4], t10a - c[19] * t15 - c[20] * t16,
       u * (d[0] - t10b + d[3] - t11a - d[6])>>

\* jpeg_fdct_15x15
Fdct15(s, d, u, c) ==
  LET z1 == s[0] + s[4] + s[5]    z2 == s[1] + s[3] + s[6]    z3 == s[2] + s[7]
      z3a == z3 + z3    t2 == s[2] + ((s[1] + s[4]) \div 2) - s[7] - s[7]
      z3b == c[1] * (s[0] - s[3]) + c[2] * (s[6] - s[5]) + c[3] * (s[1] - s[4])
      t12 == c[4] * d[2]
      t4 == c[5] * (d[0] - d[6]) + c[6] * (d[1] + d[4]) + c[7] * (d[3] + d[5])
  IN <<u * (z1 + z2 + z3), c[8] * d[3] - c[9] * d[4] + c[10] * d[6] + t4 + t12,
       c[11] * (s[3] - t2) - c[12] * (s[6] - t2) + z3b,
       c[6] * (d[0] - d[4] - d[5]) + c[13] * (d[1] - d[3] - d[6]),
       c[14] * (s[5] - t2) - c[15] * (s[0] - t2) + z3b,
       c[4] * (d[0] - d[2] - d[3] + d[5] + d[6]), c[16] * (z1 - z3a) - c[17] * (z2 - z3a),
       (-(c[18] * d[0])) - c[19] * d[1] - c[20] * d[5] + t4 - t12>>

\* jpeg_fdct_16x16
Fdct16(s, d, u, c) ==
  LET t10 == s[0] + s[7]    t14 == s[0] - s[7]    t11 == s[1] + s[6]
      t15 == s[1] - s[6]    t12 == s[2] + s[5]    t16 == s[2] - s[5]
      t13 == s[3] + s[4]    t17 == s[3] - s[4]
      t10a == c[1] * (t17 - t15) + c[2] * (t14 - t16)
      t11a == c[3] * (d[0] + d[1]) + c[4] * (d[6] - d[7])
      t12a == c[5] * (d[0] + d[2]) + c[6] * (d[5] + d[7])
      t13a == c[7] * (d[0] + d[3]) + c[8] * (d[4] - d[7])
      t14a == c[9] * (d[1] + d[2]) + c[10] * (d[6] - d[5])
      t15a == (-(c[6] * (d[1] + d[3]))) - c[5] * (d[4] + d[6])
      t16a == c[4] * (d[5] - d[4]) - c[3] * (d[2] + d[3])
  IN <<u * (t10 + t11 + t12 + t13), t11a + t12a + t13a - c[11] * d[0] + c[12] * d[7],
       t10a + c[13] * t15 + c[14] * t16, t11a + t14a + t15a + c[15] * d[1] - c[16] * d[6],
       c[17] * (t10 - t13) + c[18] * (t11 - t12),
       t12a + t14a + t16a - c[19] * d[2] + c[20] * d[5], t10a - c[21] * t14 - c[22] * t17,
       t13a + t15a + t16a + c[23] * d[3] + c[24] * d[4]>>

\* The multipliers of the kernels in the row pass and in the column pass.
Rows3 ==
  <<FIX(1, 224744871), FIX(0, 707106781)>>
Cols3 ==
  <<FIX(2, 177324216), FIX(1, 257078722)>>
Rows4 ==
  <<FIX(0, 541196100), FIX(0, 765366865), FIX(1, 847759065)>>
Rows5 ==
  <<FIX(0, 790569415), FIX(0, 353553391), FIX(0, 831253876), FIX(0, 513743148),
    FIX(2, 176250899)>>
Cols5 ==
  <<FIX(1, 011928851), FIX(0, 452548340), FIX(1, 064004961), FIX(0, 657591230),
    FIX(2, 785601151)>>
Rows6 ==
  <<FIX(0, 366025404), FIX(1, 224744871), FIX(0, 707106781)>>
Cols6 ==
  <<FIX(0, 650711829), FIX(2, 177324216), FIX(1, 257078722)>>
Rows7 ==
  <<FIX(0, 353553391), FIX(0, 920609002), FIX(0, 314692123), FIX(0, 881747734),
    FIX(0, 935414347), FIX(0, 170262339), FIX(1, 378756276), FIX(0, 613604268),
    FIX(0, 707106781), FIX(1, 870828693)>>
Cols7 ==
  <<FIX(0, 461784020), FIX(1, 202428084), FIX(0, 411026446), FIX(1, 151670509),
    FIX(1, 221765677), FIX(0, 222383464), FIX(1, 800824523), FIX(0, 801442310),
    FIX(0, 923568041), FIX(2, 443531355)>>
Rows8 ==
  <<FIX(0, 541196100), FIX(1, 175875602), FIX(0, 899976223), FIX(2, 562915447),
    FIX(0, 390180644), FIX(1, 961570560), FIX(1, 501321110), FIX(0, 765366865),
    FIX(3, 072711026), FIX(2, 053119869), FIX(1, 847759065), FIX(0, 298631336)>>
Rows9 ==
  <<FIX(1, 328926049), FIX(0, 707106781), FIX(1, 224744871), FIX(0, 909038955),
    FIX(0, 483689525), FIX(1, 392728481), FIX(1, 083350441), FIX(0, 245575608)>>
Cols9 ==
  <<FIX(2, 100031287), FIX(1, 117403309), FIX(1, 935399303), FIX(1, 436506004),
    FIX(0, 764348879), FIX(2, 200854883), FIX(1, 711961190), FIX(0, 388070096)>>
Rows10 ==
  <<FIX(0, 831253876), FIX(0, 951056516), FIX(0, 587785252), FIX(0, 309016994), ONE \div 2,
    FIX(1, 396802247), FIX(1, 260073511), FIX(0, 642039522), FIX(0, 221231742),
    FIX(0, 513743148), FIX(1, 144122806), FIX(0, 437016024), FIX(2, 176250899)>>
Cols10 ==
  <<FIX(1, 064004961), FIX(1, 217352341), FIX(0, 752365123), FIX(0, 395541753),
    FIX(0, 640000000), FIX(1, 787906876), FIX(1, 612894094), FIX(0, 821810588),
    FIX(0, 283176630), FIX(0, 657591230), FIX(1, 464477191), FIX(0, 559380511),
    FIX(2, 785601151)>>
Rows11 ==
  <<FIX(1, 356927976), FIX(0, 201263574), FIX(0, 926112931), FIX(1, 189712156),
    FIX(1, 286413905), FIX(1, 068791298), FIX(0, 764581576), FIX(1, 399818907),
    FIX(0, 398430003), FIX(1, 719967871), FIX(1, 018300590), FIX(1, 390975730),
    FIX(1, 276416582), FIX(0, 062335650), FIX(0, 587485545), FIX(1, 989053629),
    FIX(1, 620527200), FIX(0, 788749120), FIX(1, 305598626)>>
Cols11 ==
  <<FIX(1, 435427942), FIX(0, 212906922), FIX(0, 979689713), FIX(1, 258538479),
    FIX(1, 360834544), FIX(1, 130622199), FIX(0, 808813568), FIX(1, 480800167),
    FIX(0, 421479672), FIX(1, 819470145), FIX(1, 077210542), FIX(1, 471445400),
    FIX(1, 350258864), FIX(0, 065941844), FIX(0, 621472312), FIX(2, 104122847),
    FIX(1, 714276708), FIX(0, 834379234), FIX(1, 381129125)>>
Rows12 ==
  <<FIX(0, 541196100), FIX(0, 765366865), FIX(1, 847759065), FIX(1, 121971054),
    FIX(0, 860918669), FIX(0, 184591911), FIX(0, 580774953), 1, FIX(1, 366025404),
    FIX(1, 306562965), FIX(1, 224744871), FIX(2, 339493912), FIX(0, 725788011)>>
Cols12 ==
  <<FIX(0, 481063200), FIX(0, 680326102), FIX(1, 642452502), FIX(0, 997307603),
    FIX(0, 765261039), FIX(0, 164081699), FIX(0, 516244403), FIX(0, 888888889),
    FIX(1, 214244803), FIX(1, 161389302), FIX(1, 088662108), FIX(2, 079550144),
    FIX(0, 645144899)>>
Rows13 ==
  <<FIX(1, 155388986), FIX(0, 435816023), FIX(0, 316450131), FIX(0, 096834934),
    FIX(0, 937303064), FIX(0, 486914739), FIX(1, 322312651), FIX(1, 163874945),
    FIX(0, 937797057), FIX(0, 338443458), FIX(0, 657217813), FIX(2, 020082300),
    FIX(0, 318774355), FIX(1, 373119086), FIX(1, 058554052), FIX(0, 501487041),
    FIX(0, 170464608), FIX(0, 803364869), FIX(1, 252223920), FIX(0, 837223564),
    FIX(2, 341699410), FIX(1, 572116027), FIX(2, 260109708), FIX(2, 205608352),
    FIX(1, 742345811)>>
Cols13 ==
  <<FIX(0, 875087516), FIX(0, 330085509), FIX(0, 239678205), FIX(0, 073342435),
    FIX(0, 709910013), FIX(0, 368787494), FIX(1, 001514908), FIX(0, 881514751),
    FIX(0, 710284161), FIX(0, 256335874), FIX(0, 497774438), FIX(1, 530003162),
    FIX(0, 241438564), FIX(1, 039995521), FIX(0, 801745081), FIX(0, 379824504),
    FIX(0, 129109289), FIX(0, 608465700), FIX(0, 948429952), FIX(0, 634110155),
    FIX(1, 773594819), FIX(1, 190715098), FIX(1, 711799069), FIX(1, 670519935),
    FIX(1, 319646532)>>
Rows14 ==
  <<FIX(1, 105676686), FIX(1, 405321284), FIX(0, 158341681), FIX(1, 197448846),
    FIX(0, 752406978), FIX(1, 334852607), FIX(0, 467085129), FIX(1, 126980169),
    FIX(1, 126980169) - 1, FIX(0, 273079590), FIX(0, 613604268), FIX(0, 424103948),
    FIX(3, 069855259), FIX(1, 274162392), FIX(0, 314692123), FIX(0, 881747734),
    FIX(2, 373959773), FIX(1, 119999435), FIX(1, 719280954), FIX(1, 378756276)>>
Cols14 ==
  <<FIX(0, 722074570), FIX(0, 917760839), FIX(0, 103406812), FIX(0, 782007410),
    FIX(0, 491367823), FIX(0, 871740478), FIX(0, 305035186), FIX(0, 735987049),
    FIX(0, 082925825), FIX(0, 178337691), FIX(0, 400721155), FIX(0, 276965844),
    FIX(2, 004803435), FIX(0, 832106052), FIX(0, 205513223), FIX(0, 575835255),
    FIX(1, 550341076), FIX(0, 731428202), FIX(1, 122795725), FIX(0, 900412262)>>
Rows15 ==
  <<FIX(1, 383309603), FIX(0, 946293579), FIX(0, 790569415), FIX(1, 224744871),
    FIX(1, 406466353), FIX(1, 344997024), FIX(0, 575212477), FIX(0, 475753014),
    FIX(0, 513743148), FIX(1, 700497885), FIX(1, 531135173), FIX(2, 238241955),
    FIX(0, 831253876), FIX(0, 798468008), FIX(0, 091361227), FIX(1, 144122806),
    FIX(0, 437016024), FIX(0, 355500862), FIX(2, 176250899), FIX(0, 869244010)>>
Cols15 ==
  <<FIX(1, 573898926), FIX(1, 076671805), FIX(0, 899492312), FIX(1, 393487498),
    FIX(1, 600246161), FIX(1, 530307725), FIX(0, 654463974), FIX(0, 541301207),
    FIX(0, 584525538), FIX(1, 934788705), FIX(1, 742091575), FIX(2, 546621957),
    FIX(0, 945782187), FIX(0, 908479156), FIX(0, 103948774), FIX(1, 301757503),
    FIX(0, 497227121), FIX(0, 404480980), FIX(2, 476089912), FIX(0, 989006518)>>
Rows16 ==
  <<FIX(0, 275899379), FIX(1, 387039845), FIX(1, 353318001), FIX(0, 410524528),
    FIX(1, 247225013), FIX(0, 666655658), FIX(1, 093201867), FIX(0, 897167586),
    FIX(0, 138617169), FIX(1, 407403738), FIX(2, 286341144), FIX(0, 779653625),
    FIX(1, 451774982), FIX(2, 172734804), FIX(0, 071888074), FIX(1, 663905119),
    FIX(1, 306562965), FIX(0, 541196100), FIX(1, 125726048), FIX(1, 227391138),
    FIX(0, 211164243), FIX(1, 061594338), FIX(1, 065388962), FIX(2, 167985692)>>

RowMultipliers ==
  <<<<>>, <<>>, Rows3, Rows4, Rows5, Rows6, Rows7, Rows8, Rows9, Rows10, Rows11, Rows12,
    Rows13, Rows14, Rows15, Rows16>>
ColumnMultipliers ==
  <<<<>>, <<>>, Cols3, Rows4, Cols5, Cols6, Cols7, Rows8, Cols9, Cols10, Cols11, Cols12,
    Cols13, Cols14, Cols15, Rows16>>

\* The unit of the kernels in the column pass: 64 / (w * h) but for a power of two.
ColumnUnit ==
  <<ONE, ONE, FIX(1, 777777778), ONE, FIX(1, 280000000), FIX(1, 777777778),
    FIX(1, 306122449), ONE, FIX(1, 580246914), FIX(1, 280000000), FIX(1, 057851240),
    FIX(0, 888888889), FIX(0, 757396450), FIX(0, 653061224), FIX(1, 137777778), ONE>>

(* The kernel of a pass: row is TRUE in the first pass.                            *)
ForwardKernel(N, row, x) ==
  LET s == [i \in 0 .. (N - 1) \div 2 |-> IF 2 * i = N - 1 THEN x[i] ELSE x[i] + x[N - 1 - i]]
      d == [i \in 0 .. N \div 2 - 1 |-> x[i] - x[N - 1 - i]]
      u == IF row THEN ONE ELSE ColumnUnit[N]
      c == IF row THEN RowMultipliers[N] ELSE ColumnMultipliers[N]
  IN CASE N = 1 -> Fdct1(s, d, u, c)    [] N = 2 -> Fdct2(s, d, u, c)
       [] N = 3 -> Fdct3(s, d, u, c)    [] N = 4 -> Fdct4(s, d, u, c)
       [] N = 5 -> Fdct5(s, d, u, c)    [] N = 6 -> Fdct6(s, d, u, c)
       [] N = 7 -> Fdct7(s, d, u, c)    [] N = 8 -> Fdct8(s, d, u, c)
       [] N = 9 -> Fdct9(s, d, u, c)    [] N = 10 -> Fdct10(s, d, u, c)
       [] N = 11 -> Fdct11(s, d, u, c)  [] N = 12 -> Fdct12(s, d, u, c)
       [] N = 13 -> Fdct13(s, d, u, c)  [] N = 14 -> Fdct14(s, d, u, c)
       [] N = 15 -> Fdct15(s, d, u, c)  [] N = 16 -> Fdct16(s, d, u, c)

(* A routine: its two passes, each with the points of its kernel, the number of   *)
(* columns or rows it is applied to and the bits its results are shifted right by. *)
Routine(p1, p2) ==
  [pass1 |-> [points |-> p1[1], count |-> p1[2], shift |-> p1[3]],
   pass2 |-> [points |-> p2[1], count |-> p2[2], shift |-> p2[3]]]

jpeg_fdct_1x1   == Routine(<<1, 1, -6>>, <<1, 1, 0>>)
jpeg_fdct_2x2   == Routine(<<2, 2, -4>>, <<2, 2, 0>>)
jpeg_fdct_3x3   == Routine(<<3, 3, 9>>, <<3, 3, 15>>)
jpeg_fdct_4x4   == Routine(<<4, 4, 9>>, <<4, 4, 15>>)
jpeg_fdct_5x5   == Routine(<<5, 5, 10>>, <<5, 5, 15>>)
jpeg_fdct_6x6   == Routine(<<6, 6, 11>>, <<6, 6, 15>>)
jpeg_fdct_7x7   == Routine(<<7, 7, 11>>, <<7, 7, 15>>)
jpeg_fdct_islow == Routine(<<8, 8, 11>>, <<8, 8, 15>>)
jpeg_fdct_9x9   == Routine(<<9, 9, 12>>, <<9, 8, 15>>)
jpeg_fdct_10x10 == Routine(<<10, 10, 12>>, <<10, 8, 15>>)
jpeg_fdct_11x11 == Routine(<<11, 11, 12>>, <<11, 8, 15>>)
jpeg_fdct_12x12 == Routine(<<12, 12, 13>>, <<12, 8, 14>>)
jpeg_fdct_13x13 == Routine(<<13, 13, 13>>, <<13, 8, 14>>)
jpeg_fdct_14x14 == Routine(<<14, 14, 13>>, <<14, 8, 14>>)
jpeg_fdct_15x15 == Routine(<<15, 15, 13>>, <<15, 8, 15>>)
jpeg_fdct_16x16 == Routine(<<16, 16, 11>>, <<16, 8, 17>>)
jpeg_fdct_16x8  == Routine(<<16, 8, 11>>, <<8, 8, 16>>)
jpeg_fdct_14x7  == Routine(<<14, 7, 11>>, <<7, 8, 16>>)
jpeg_fdct_12x6  == Routine(<<12, 6, 11>>, <<6, 8, 16>>)
jpeg_fdct_10x5  == Routine(<<10, 5, 11>>, <<5, 8, 15>>)
jpeg_fdct_8x4   == Routine(<<8, 4, 10>>, <<4, 8, 15>>)
jpeg_fdct_6x3   == Routine(<<6, 3, 10>>, <<3, 6, 15>>)
jpeg_fdct_4x2   == Routine(<<4, 2, 8>>, <<2, 4, 2>>)
jpeg_fdct_2x1   == Routine(<<2, 1, -5>>, <<1, 2, 0>>)
jpeg_fdct_8x16  == Routine(<<8, 16, 11>>, <<16, 8, 16>>)
jpeg_fdct_7x14  == Routine(<<7, 14, 11>>, <<14, 7, 15>>)
jpeg_fdct_6x12  == Routine(<<6, 12, 11>>, <<12, 6, 15>>)
jpeg_fdct_5x10  == Routine(<<5, 10, 11>>, <<10, 5, 15>>)
jpeg_fdct_4x8   == Routine(<<4, 8, 10>>, <<8, 4, 15>>)
jpeg_fdct_3x6   == Routine(<<3, 6, 10>>, <<6, 3, 15>>)
jpeg_fdct_2x4   == Routine(<<2, 4, -3>>, <<4, 2, 13>>)
jpeg_fdct_1x2   == Routine(<<1, 2, -5>>, <<2, 1, 0>>)
=================================================================================
