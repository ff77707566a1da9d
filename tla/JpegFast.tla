-------------------------------- MODULE JpegFast --------------------------------
(* The fast, less accurate integer DCT of 8x8 blocks: jpeg-8c/jidctfst.c and      *)
(* jfdctfst.c.  Products keep 8 fractional bits and are truncated at once; the    *)
(* scaling of each output is left to the tables of the DCT managers.              *)
EXTENDS Integers, Sequences

\* MULTIPLY: DESCALE without rounding, USE_ACCURATE_ROUNDING being undefined
MULTIPLY(x, c) == (x * c) \div 256

(* One column or row of jpeg_idct_ifast, x[0] .. x[7] the scaled coefficients.     *)
InverseFast(x) ==
  LET t10 == x[0] + x[4]    t11 == x[0] - x[4]    t13 == x[2] + x[6]
      t12 == MULTIPLY(x[2] - x[6], 362) - t13
      z13 == x[5] + x[3]    z10 == x[5] - x[3]    z11 == x[1] + x[7]    z12 == x[1] - x[7]
      t7 == z11 + z13       z5 == MULTIPLY(z10 + z12, 473)
      t6 == MULTIPLY(z10, -669) + z5 - t7
      t5 == MULTIPLY(z11 - z13, 362) - t6
      t4 == MULTIPLY(z12, 277) - z5 + t5
      t0 == t10 + t13       t1 == t11 + t12       t2 == t11 - t12       t3 == t10 - t13
      out == <<t0 + t7, t1 + t6, t2 + t5, t3 - t4, t3 + t4, t2 - t5, t1 - t6, t0 - t7>>
  IN [n \in 0 .. 7 |-> out[n + 1]]

(* One row or column of jpeg_fdct_ifast, x[0] .. x[7] the samples.                 *)
ForwardFast(x) ==
  LET s == [i \in 0 .. 3 |-> x[i] + x[7 - i]]
      d == [i \in 0 .. 3 |-> x[i] - x[7 - i]]
      t13 == s[0] - s[3]    z1 == MULTIPLY(s[1] - s[2] + t13, 181)
      t10 == d[3] + d[2]    t11 == d[2] + d[1]    t12 == d[1] + d[0]
      z5 == MULTIPLY(t10 - t12, 98)
      z2 == MULTIPLY(t10, 139) + z5               z4 == MULTIPLY(t12, 334) + z5
      z11 == d[0] + MULTIPLY(t11, 181)            z13 == d[0] - MULTIPLY(t11, 181)
  IN <<s[0] + s[3] + s[1] + s[2], z11 + z4, t13 + z1, z13 - z2,
       s[0] + s[3] - s[1] - s[2], z13 + z2, t13 - z1, z11 - z4>>

(* The scale factors of the AA&N transform, 14 fractional bits.                    *)
aanscales ==
  LET r == <<16384, 22725, 21407, 19266, 16384, 12873, 8867, 4520>>
  IN <<r, <<22725, 31521, 29692, 26722, 22725, 17855, 12299, 6270>>,
       <<21407, 29692, 27969, 25172, 21407, 16819, 11585, 5906>>,
       <<19266, 26722, 25172, 22654, 19266, 15137, 10426, 5315>>, r,
       <<12873, 17855, 16819, 15137, 12873, 10114, 6967, 3552>>,
       <<8867, 12299, 11585, 10426, 8867, 6967, 4799, 2446>>,
       <<4520, 6270, 5906, 5315, 4520, 3552, 2446, 1247>>>>
=================================================================================
