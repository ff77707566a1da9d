-------------------------------- MODULE JpegFixed -------------------------------
(* The fixed-point arithmetic of libjpeg's integer DCT (jpeg-8c/jdct.h and the    *)
(* macros at the head of jidctint.c and jfdctint.c).                              *)
EXTENDS Integers, Sequences

CONST_BITS == 13
PASS1_BITS == 2
CENTERJSAMPLE == 128
MAXJSAMPLE == 255

\* 1.0 in fixed point
ONE == 2 ^ CONST_BITS

(* FIX(i, f) is the macro FIX(i.f): the constant i.f, f being its nine decimals,  *)
(* rounded to CONST_BITS bits.  10^9 is 512 * 1953125 and ONE is 512 * 16.        *)
FIX(i, f) == i * ONE + (f \div 1953125) * 16 + ((f % 1953125) * 16 + 976562) \div 1953125

\* DESCALE, a right shift with rounding; a negative shift is the shift to the left
\* some of the forward routines have in its place.
DESCALE(x, n) == IF n <= 0 THEN x * 2 ^ (-n) ELSE (x + 2 ^ (n - 1)) \div 2 ^ n
=================================================================================
