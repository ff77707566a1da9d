--------------------------- MODULE JpegTransformProofs --------------------------
(* Proofs about JpegTransform, for pictures of every size and sampling and every  *)
(* crop: the routines never reach beyond the source arrays into the padding or    *)
(* outside, and therefore turn every block as the tables are turned.  For lists   *)
(* of markers of every length: what is copied, in which order, and what an Exif   *)
(* marker states.                                                                 *)
EXTENDS JpegTransform, TLAPS, WellFoundedInduction

-------------------------------------------------------------------------------
(* Arithmetic.                                                                    *)

LEMMA DivFact ==
  ASSUME NEW a \in Nat, NEW b \in Nat \ {0}
  PROVE  /\ a \div b \in Nat /\ (a \div b) * b <= a /\ a < (a \div b) * b + b
         /\ a % b \in 0 .. b - 1 /\ a = (a \div b) * b + (a % b)
BY SMT

\* The blocks that cover a samples, b samples each.
LEMMA DivUpFact ==
  ASSUME NEW a \in Nat, NEW b \in Nat \ {0}
  PROVE  /\ DivUp(a, b) \in Nat
         /\ \A x \in Nat : x < DivUp(a, b) <=> x * b < a
         /\ a <= DivUp(a, b) * b
<1>1. DivUp(a, b) \in Nat BY SMT DEF DivUp
<1>2. ASSUME NEW x \in Nat PROVE x < DivUp(a, b) <=> x * b < a BY SMT DEF DivUp
<1>3. a <= DivUp(a, b) * b BY SMT DEF DivUp
<1> QED BY <1>1, <1>2, <1>3

\* The largest sampling factors are factors of some component.
LEMMA Maxima ==
  ASSUME NEW comps \in Seq(Sampling), Len(comps) > 0
  PROVE  /\ max_h(comps) \in 1 .. 4 /\ max_v(comps) \in 1 .. 4
         /\ \A ci \in DOMAIN comps : /\ comps[ci].h \in 1 .. max_h(comps)
                                     /\ comps[ci].v \in 1 .. max_v(comps)
<1>1. ASSUME NEW S \in SUBSET (1 .. 4), S # {} PROVE Max(S) \in S /\ \A y \in S : y <= Max(S)
  <2>1. \E x \in S : \A y \in S : x >= y
    <3>1. CASE 4 \in S BY <3>1
    <3>2. CASE 4 \notin S /\ 3 \in S BY <3>2
    <3>3. CASE 4 \notin S /\ 3 \notin S /\ 2 \in S BY <3>3
    <3>4. CASE 4 \notin S /\ 3 \notin S /\ 2 \notin S
      <4>1. \A y \in S : y = 1 BY <3>4
      <4>2. PICK x \in S : TRUE BY <1>1
      <4> QED BY <4>1, <4>2
    <3> QED BY <3>1, <3>2, <3>3, <3>4
  <2> DEFINE m == Max(S)
  <2>2. m \in S /\ \A y \in S : m >= y BY <2>1 DEF Max
  <2> QED BY <2>2, <1>1
<1> DEFINE H == {comps[ci].h : ci \in DOMAIN comps}
           V == {comps[ci].v : ci \in DOMAIN comps}
<1>2. \A ci \in DOMAIN comps : comps[ci] \in Sampling OBVIOUS
<1>3. DOMAIN comps # {}
  <2>1. DOMAIN comps = 1 .. Len(comps) /\ Len(comps) \in Nat OBVIOUS
  <2>2. 1 \in 1 .. Len(comps) BY <2>1
  <2> QED BY <2>1, <2>2
<1>4. H \in SUBSET (1 .. 4) /\ V \in SUBSET (1 .. 4) BY <1>2 DEF Sampling
<1>5. H # {} /\ V # {} BY <1>3
<1>6. Max(H) \in H /\ \A y \in H : y <= Max(H) BY <1>1, <1>4, <1>5
<1>7. Max(V) \in V /\ \A y \in V : y <= Max(V) BY <1>1, <1>4, <1>5
<1> HIDE DEF H, V
<1>8. max_h(comps) = Max(H) /\ max_v(comps) = Max(V) BY DEF max_h, max_v, H, V
<1>9. ASSUME NEW ci \in DOMAIN comps
      PROVE  comps[ci].h \in 1 .. max_h(comps) /\ comps[ci].v \in 1 .. max_v(comps)
  <2>1. comps[ci].h \in H /\ comps[ci].v \in V BY DEF H, V
  <2>2. comps[ci].h \in 1 .. 4 /\ comps[ci].v \in 1 .. 4 BY <1>2 DEF Sampling
  <2> QED BY <2>1, <2>2, <1>4, <1>6, <1>7, <1>8
<1> QED BY <1>4, <1>6, <1>7, <1>8, <1>9
-------------------------------------------------------------------------------
(* Sizes.                                                                         *)

\* The dimensions of a picture.
Sized(p) ==
  /\ p.width \in Nat \ {0} /\ p.height \in Nat \ {0}
  /\ p.comps \in Seq(Sampling) /\ Len(p.comps) > 0

\* Block x of a row of component ci is there if its first sample is, in the grid of the
\* component with the largest factor.
LEMMA GridFact ==
  ASSUME NEW p, Sized(p), NEW ci \in DOMAIN p.comps
  PROVE  /\ max_h(p.comps) * BlockSize \in Nat \ {0} /\ max_v(p.comps) * BlockSize \in Nat \ {0}
         /\ width_in_blocks(p, ci) \in Nat /\ height_in_blocks(p, ci) \in Nat
         /\ \A x \in Nat : x < width_in_blocks(p, ci)
              <=> x * (max_h(p.comps) * BlockSize) < p.width * p.comps[ci].h
         /\ \A y \in Nat : y < height_in_blocks(p, ci)
              <=> y * (max_v(p.comps) * BlockSize) < p.height * p.comps[ci].v
<1>1. /\ max_h(p.comps) \in 1 .. 4 /\ max_v(p.comps) \in 1 .. 4
      /\ p.comps[ci].h \in 1 .. 4 /\ p.comps[ci].v \in 1 .. 4
  <2>1. p.comps \in Seq(Sampling) /\ Len(p.comps) > 0 BY DEF Sized
  <2>2. p.comps[ci] \in Sampling BY <2>1
  <2> QED BY <2>1, <2>2, Maxima DEF Sampling
<1> DEFINE MH == max_h(p.comps) * BlockSize
           MV == max_v(p.comps) * BlockSize
           A == p.width * p.comps[ci].h
           B == p.height * p.comps[ci].v
<1>2. MH \in Nat \ {0} /\ MV \in Nat \ {0} BY <1>1, BlockSizeAssumption
<1>3. A \in Nat /\ B \in Nat
  <2>1. p.width \in Nat /\ p.height \in Nat BY DEF Sized
  <2> QED BY <1>1, <2>1
<1>4. width_in_blocks(p, ci) = DivUp(A, MH) /\ height_in_blocks(p, ci) = DivUp(B, MV)
  BY DEF width_in_blocks, height_in_blocks
<1> HIDE DEF A, B, MH, MV
<1>5. /\ DivUp(A, MH) \in Nat /\ \A x \in Nat : x < DivUp(A, MH) <=> x * MH < A
      /\ DivUp(B, MV) \in Nat /\ \A x \in Nat : x < DivUp(B, MV) <=> x * MV < B
  BY <1>2, <1>3, DivUpFact
<1> QED BY <1>2, <1>4, <1>5 DEF A, B, MH, MV

\* The source arrays hold the blocks of the picture, and padding only beyond them.
LEMMA SourceFact ==
  ASSUME NEW p, Sized(p), NEW ci \in DOMAIN p.comps, DOMAIN p.blocks[ci] = Grid(p, ci),
         NEW yx \in Grid(p, ci)
  PROVE  Source(p, ci)[yx] = p.blocks[ci][yx]
<1>1. p.comps[ci].h \in Nat \ {0} /\ p.comps[ci].v \in Nat \ {0}
  <2>1. p.comps \in Seq(Sampling) /\ Len(p.comps) > 0 BY DEF Sized
  <2>2. p.comps[ci] \in Sampling BY <2>1
  <2> QED BY <2>2 DEF Sampling
<1>2. width_in_blocks(p, ci) \in Nat /\ height_in_blocks(p, ci) \in Nat BY GridFact
<1> DEFINE rows == DivUp(height_in_blocks(p, ci), p.comps[ci].v) * p.comps[ci].v
           cols == DivUp(width_in_blocks(p, ci), p.comps[ci].h) * p.comps[ci].h
<1>3. /\ height_in_blocks(p, ci) <= rows /\ width_in_blocks(p, ci) <= cols
      /\ rows \in Nat /\ cols \in Nat
  <2>1. ASSUME NEW a \in Nat, NEW b \in Nat \ {0}
        PROVE  a <= DivUp(a, b) * b /\ DivUp(a, b) * b \in Nat
    BY DivUpFact
  <2> QED BY <1>1, <1>2, <2>1
<1>4. yx \in (0 .. rows - 1) \X (0 .. cols - 1) BY <1>2, <1>3 DEF Grid
<1> HIDE DEF rows, cols
<1> QED BY <1>4 DEF Source, rows, cols
-------------------------------------------------------------------------------
(* The routines in one formula: each takes the block from some place and turns    *)
(* it, mirroring only within the whole iMCUs.                                     *)

Across == {"flip_h", "rot90", "rot180", "transverse"}
Down == {"flip_v", "rot270", "rot180", "transverse"}

Place(code, y, x, cw, ch) ==
  LET r == IF code \in Down /\ y < ch THEN ch - y - 1 ELSE y
      c == IF code \in Across /\ x < cw THEN cw - x - 1 ELSE x
  IN IF code \in Transposing THEN <<c, r>> ELSE <<r, c>>

Turn(code, b, across, down) ==
  LET t == IF code \in Transposing THEN TransposeB(b) ELSE b
      v == IF down THEN MirrorV(t) ELSE t
  IN IF across THEN MirrorH(v) ELSE v

LEMMA BlockOfFact ==
  ASSUME NEW code \in Transforms, NEW S, NEW y \in Nat, NEW x \in Nat,
         NEW cw \in Nat, NEW ch \in Nat, NEW yo
  PROVE  BlockOf(code, S, y, x, cw, ch, yo)
           = Turn(code, S[Place(code, y, x, cw, ch)],
                  code \in Across /\ x < cw, code \in Down /\ y < ch)
<1> USE DEF Turn, Place, Across, Down, Transposing
<1>1. CASE code = "none" BY <1>1 DEF BlockOf, do_crop
<1>2. CASE code = "flip_h" /\ yo = 0
  <2>1. BlockOf(code, S, y, x, cw, ch, yo) = do_flip_h_no_crop(S, y, x, cw, ch)
    BY <1>2 DEF BlockOf
  <2>2. x < cw => (IF x <= cw - x - 1 THEN x ELSE cw - x - 1) * 2 < cw OBVIOUS
  <2>3. do_flip_h_no_crop(S, y, x, cw, ch) = IF x < cw THEN MirrorH(S[<<y, cw - x - 1>>]) ELSE S[<<y, x>>]
    BY <2>2 DEF do_flip_h_no_crop
  <2> QED BY <1>2, <2>1, <2>3
<1>3. CASE code = "flip_h" /\ yo # 0 BY <1>3 DEF BlockOf, do_flip_h
<1>4. CASE code = "flip_v" BY <1>4 DEF BlockOf, do_flip_v
<1>5. CASE code = "transpose" BY <1>5 DEF BlockOf, do_transpose
<1>6. CASE code = "transverse" BY <1>6 DEF BlockOf, do_transverse
<1>7. CASE code = "rot90" BY <1>7 DEF BlockOf, do_rot_90
<1>8. CASE code = "rot180" BY <1>8 DEF BlockOf, do_rot_180
<1>9. CASE code = "rot270" BY <1>9 DEF BlockOf, do_rot_270
<1> QED BY <1>1, <1>2, <1>3, <1>4, <1>5, <1>6, <1>7, <1>8, <1>9 DEF Transforms

Blocks == [y : Int, x : Int, tr : BOOLEAN, fh : BOOLEAN, fv : BOOLEAN]

\* What a turn does to a block.
LEMMA TurnFact ==
  ASSUME NEW code, NEW b \in Blocks, NEW across \in BOOLEAN, NEW down \in BOOLEAN
  PROVE  LET swap == code \in Transposing
         IN Turn(code, b, across, down)
              = [y |-> b.y, x |-> b.x, tr |-> (b.tr # swap),
                 fh |-> ((IF swap THEN b.fv ELSE b.fh) # across),
                 fv |-> ((IF swap THEN b.fh ELSE b.fv) # down)]
<1>1. ASSUME NEW c \in Blocks
      PROVE  /\ MirrorH(c) = [y |-> c.y, x |-> c.x, tr |-> c.tr, fh |-> ~ c.fh, fv |-> c.fv]
             /\ MirrorV(c) = [y |-> c.y, x |-> c.x, tr |-> c.tr, fh |-> c.fh, fv |-> ~ c.fv]
             /\ TransposeB(c) = [y |-> c.y, x |-> c.x, tr |-> ~ c.tr, fh |-> c.fv, fv |-> c.fh]
             /\ c = [y |-> c.y, x |-> c.x, tr |-> c.tr, fh |-> c.fh, fv |-> c.fv]
  <2>1. MirrorH(c) = [y |-> c.y, x |-> c.x, tr |-> c.tr, fh |-> ~ c.fh, fv |-> c.fv]
    BY DEF MirrorH, Blocks
  <2>2. MirrorV(c) = [y |-> c.y, x |-> c.x, tr |-> c.tr, fh |-> c.fh, fv |-> ~ c.fv]
    BY DEF MirrorV, Blocks
  <2>3. TransposeB(c) = [y |-> c.y, x |-> c.x, tr |-> ~ c.tr, fh |-> c.fv, fv |-> c.fh]
    BY DEF TransposeB, Blocks
  <2>4. c = [y |-> c.y, x |-> c.x, tr |-> c.tr, fh |-> c.fh, fv |-> c.fv] BY DEF Blocks
  <2> QED BY <2>1, <2>2, <2>3, <2>4
<1>2. \A c \in Blocks : MirrorH(c) \in Blocks /\ MirrorV(c) \in Blocks /\ TransposeB(c) \in Blocks
  BY DEF MirrorH, MirrorV, TransposeB, Blocks
<1> DEFINE t == IF code \in Transposing THEN TransposeB(b) ELSE b
           v == IF down THEN MirrorV(t) ELSE t
           u == IF across THEN MirrorH(v) ELSE v
<1>3. t \in Blocks /\ v \in Blocks BY <1>2
<1>4. t = [y |-> b.y, x |-> b.x, tr |-> (b.tr # (code \in Transposing)),
           fh |-> IF code \in Transposing THEN b.fv ELSE b.fh,
           fv |-> IF code \in Transposing THEN b.fh ELSE b.fv]
  BY <1>1 DEF Blocks
<1>5. v = [y |-> t.y, x |-> t.x, tr |-> t.tr, fh |-> t.fh, fv |-> (t.fv # down)]
  BY <1>1, <1>3 DEF Blocks
<1>6. u = [y |-> v.y, x |-> v.x, tr |-> v.tr, fh |-> (v.fh # across), fv |-> v.fv]
  BY <1>1, <1>3 DEF Blocks
<1>7. Turn(code, b, across, down) = u BY DEF Turn
<1> HIDE DEF t, v, u
<1> QED BY <1>4, <1>5, <1>6, <1>7
-------------------------------------------------------------------------------
(* Plans.                                                                         *)

\* What the program's options and the parser of crop specifications leave a request in.
Asked(r) ==
  /\ r.transform \in Transforms
  /\ r.cropped \in BOOLEAN /\ r.trim \in BOOLEAN /\ r.grayscale \in BOOLEAN
  /\ r.cropped => /\ IsCropValue(r.crop.x) /\ IsCropValue(r.crop.y)
                  /\ IsCropValue(r.crop.w) /\ IsCropValue(r.crop.h)

LEMMA UncroppedFact ==
  ASSUME NEW p, Sized(p), NEW r
  PROVE  LET u == Uncropped(p, r)
         IN /\ u.output_width \in Nat \ {0} /\ u.output_height \in Nat \ {0}
            /\ u.iMCU_width \in Nat \ {0} /\ u.iMCU_height \in Nat \ {0}
            /\ u.xo = 0 /\ u.yo = 0
            /\ u = [output_width |-> u.output_width, output_height |-> u.output_height,
                    iMCU_width |-> u.iMCU_width, iMCU_height |-> u.iMCU_height, xo |-> 0, yo |-> 0]
<1>1. max_h(p.comps) \in 1 .. 4 /\ max_v(p.comps) \in 1 .. 4 BY Maxima DEF Sized
<1>2. /\ BlockSize \in Nat \ {0} /\ max_h(p.comps) * BlockSize \in Nat \ {0}
      /\ max_v(p.comps) * BlockSize \in Nat \ {0}
  BY <1>1, BlockSizeAssumption
<1> QED BY <1>2 DEF Uncropped, Sized

\* A plan cuts the output from the picture: it begins on an iMCU boundary and ends
\* within the picture, cropped, trimmed or neither.
Fits(i, u) ==
  /\ i.output_width \in Nat \ {0} /\ i.output_height \in Nat \ {0}
  /\ i.iMCU_width = u.iMCU_width /\ i.iMCU_height = u.iMCU_height
  /\ i.xo \in Nat /\ i.yo \in Nat
  /\ i.xo * u.iMCU_width + i.output_width <= u.output_width
  /\ i.yo * u.iMCU_height + i.output_height <= u.output_height
  /\ i = [output_width |-> i.output_width, output_height |-> i.output_height,
          iMCU_width |-> i.iMCU_width, iMCU_height |-> i.iMCU_height, xo |-> i.xo, yo |-> i.yo]

\* One axis of a crop: from an offset within the size, length samples.
LEMMA CropAxis ==
  ASSUME NEW spec, IsCropValue(spec), NEW extent, IsCropValue(extent),
         NEW size \in Nat \ {0}, NEW unit \in Nat \ {0},
         LET x == CropValue(spec, 0)    w == CropValue(extent, size - x)
         IN ~ (x >= size \/ w <= 0 \/ w > size \/ x > size - w)
  PROVE  LET x == CropValue(spec, 0)    w == CropValue(extent, size - x)
             offset == CropPlace(<<spec[1], x>>, size, w)
         IN /\ w + (offset % unit) \in Nat \ {0} /\ offset \div unit \in Nat
            /\ (offset \div unit) * unit + (w + (offset % unit)) <= size
<1> DEFINE x == CropValue(spec, 0)
           w == CropValue(extent, size - x)
           offset == CropPlace(<<spec[1], x>>, size, w)
<1>1. x \in Nat BY DEF CropValue, IsCropValue
<1>2. w \in Int BY <1>1 DEF CropValue, IsCropValue
<1>3. ~ (x >= size \/ w <= 0 \/ w > size \/ x > size - w) OBVIOUS
<1>4. offset = IF spec[1] = "neg" THEN size - w - x ELSE x BY DEF CropPlace
<1> HIDE DEF x, w, offset
<1>5. w \in Nat \ {0} /\ offset \in Nat /\ offset + w <= size BY <1>1, <1>2, <1>3, <1>4
<1>6. offset \div unit \in Nat /\ offset % unit \in 0 .. unit - 1
      /\ offset = (offset \div unit) * unit + (offset % unit)
  BY <1>5, DivFact
<1>7. (offset \div unit) * unit \in Nat BY <1>6
<1> DEFINE q == (offset \div unit) * unit
           m == offset % unit
<1>8. q \in Nat /\ m \in Nat /\ offset = q + m BY <1>6, <1>7
<1> HIDE DEF q, m
<1>9. w + m \in Nat \ {0} /\ q + (w + m) <= size BY <1>5, <1>8
<1> QED BY <1>6, <1>9 DEF x, w, offset, q, m

LEMMA CroppedFact ==
  ASSUME NEW p, Sized(p), NEW r, Asked(r), ~ (r.cropped /\ BadCrop(p, r))
  PROVE  Fits(Cropped(p, r), Uncropped(p, r))
<1> DEFINE u == Uncropped(p, r)
<1>1. /\ u.output_width \in Nat \ {0} /\ u.output_height \in Nat \ {0}
      /\ u.iMCU_width \in Nat \ {0} /\ u.iMCU_height \in Nat \ {0}
      /\ u.xo = 0 /\ u.yo = 0
      /\ u = [output_width |-> u.output_width, output_height |-> u.output_height,
              iMCU_width |-> u.iMCU_width, iMCU_height |-> u.iMCU_height, xo |-> 0, yo |-> 0]
  BY UncroppedFact
<1>2. CASE ~ r.cropped
  <2>1. Cropped(p, r) = u BY <1>2 DEF Cropped
  <2> HIDE DEF u
  <2>2. Fits(u, u) BY <1>1 DEF Fits
  <2> QED BY <2>1, <2>2 DEF u
<1>3. CASE r.cropped
  <2> DEFINE x == CropValue(r.crop.x, 0)
             y == CropValue(r.crop.y, 0)
             w == CropValue(r.crop.w, u.output_width - x)
             h == CropValue(r.crop.h, u.output_height - y)
             xoffset == CropPlace(<<r.crop.x[1], x>>, u.output_width, w)
             yoffset == CropPlace(<<r.crop.y[1], y>>, u.output_height, h)
  <2>1. /\ IsCropValue(r.crop.x) /\ IsCropValue(r.crop.y)
        /\ IsCropValue(r.crop.w) /\ IsCropValue(r.crop.h)
    BY <1>3 DEF Asked
  <2>2. ~ (\/ x >= u.output_width \/ y >= u.output_height
           \/ w <= 0 \/ w > u.output_width \/ h <= 0 \/ h > u.output_height
           \/ x > u.output_width - w \/ y > u.output_height - h)
    BY <1>3 DEF BadCrop
  <2>3. Cropped(p, r) = [u EXCEPT !.output_width = w + (xoffset % u.iMCU_width),
                                  !.output_height = h + (yoffset % u.iMCU_height),
                                  !.xo = xoffset \div u.iMCU_width, !.yo = yoffset \div u.iMCU_height]
    BY <1>3 DEF Cropped
  <2> HIDE DEF u
  <2>4. /\ w + (xoffset % u.iMCU_width) \in Nat \ {0} /\ xoffset \div u.iMCU_width \in Nat
        /\ (xoffset \div u.iMCU_width) * u.iMCU_width + (w + (xoffset % u.iMCU_width)) <= u.output_width
    BY <1>1, <2>1, <2>2, CropAxis
  <2>5. /\ h + (yoffset % u.iMCU_height) \in Nat \ {0} /\ yoffset \div u.iMCU_height \in Nat
        /\ (yoffset \div u.iMCU_height) * u.iMCU_height + (h + (yoffset % u.iMCU_height)) <= u.output_height
    BY <1>1, <2>1, <2>2, CropAxis
  <2> DEFINE A == w + (xoffset % u.iMCU_width)
             B == h + (yoffset % u.iMCU_height)
             C == xoffset \div u.iMCU_width
             D == yoffset \div u.iMCU_height
  <2>6. Cropped(p, r) = [output_width |-> A, output_height |-> B, iMCU_width |-> u.iMCU_width,
                         iMCU_height |-> u.iMCU_height, xo |-> C, yo |-> D]
    <3> HIDE DEF w, h, x, y, xoffset, yoffset
    <3>1. Cropped(p, r) = [u EXCEPT !.output_width = A, !.output_height = B, !.xo = C, !.yo = D]
      BY <2>3
    <3> HIDE DEF A, B, C, D
    <3> QED BY <1>1, <3>1
  <2>7. /\ A \in Nat \ {0} /\ B \in Nat \ {0} /\ C \in Nat /\ D \in Nat
        /\ C * u.iMCU_width + A <= u.output_width /\ D * u.iMCU_height + B <= u.output_height
    BY <2>4, <2>5
  <2> HIDE DEF A, B, C, D
  <2>8. Fits(Cropped(p, r), u) BY <2>6, <2>7 DEF Fits
  <2> QED BY <2>8 DEF u
<1> QED BY <1>2, <1>3

LEMMA TrimmedFact ==
  ASSUME NEW p, Sized(p), NEW r, NEW i, Fits(i, Uncropped(p, r))
  PROVE  Fits(Trimmed(p, r, i), Uncropped(p, r))
<1> DEFINE u == Uncropped(p, r)
<1>1. /\ u.output_width \in Nat \ {0} /\ u.output_height \in Nat \ {0}
      /\ u.iMCU_width \in Nat \ {0} /\ u.iMCU_height \in Nat \ {0}
  BY UncroppedFact
<1>2. ASSUME NEW a \in Nat, NEW b \in Nat \ {0}, a \div b > 0
      PROVE  (a \div b) * b \in Nat \ {0} /\ (a \div b) * b <= a
  <2>1. (a \div b) \in Nat /\ (a \div b) * b <= a BY DivFact
  <2> QED BY <1>2, <2>1
<1> HIDE DEF u
<1>3. ASSUME NEW j, Fits(j, u), NEW full PROVE Fits(trim_right_edge(j, full), u)
  <2> DEFINE w == (j.output_width \div j.iMCU_width) * j.iMCU_width
  <2>1. CASE trim_right_edge(j, full) = j BY <1>3, <2>1
  <2>2. CASE trim_right_edge(j, full) # j
    <3>1. trim_right_edge(j, full) = [j EXCEPT !.output_width = w] /\ j.output_width \div j.iMCU_width > 0
      BY <2>2 DEF trim_right_edge
    <3>2. w \in Nat \ {0} /\ w <= j.output_width BY <1>1, <1>2, <1>3, <3>1 DEF Fits
    <3> HIDE DEF w
    <3>3. /\ j.xo * u.iMCU_width \in Nat /\ j.output_width \in Nat
          /\ j.xo * u.iMCU_width + j.output_width <= u.output_width
      BY <1>1, <1>3 DEF Fits
    <3>4. j.xo * u.iMCU_width + w <= u.output_width BY <1>1, <3>2, <3>3
    <3> QED BY <1>3, <3>1, <3>2, <3>4 DEF Fits
  <2> QED BY <2>1, <2>2
<1>4. ASSUME NEW j, Fits(j, u), NEW full PROVE Fits(trim_bottom_edge(j, full), u)
  <2> DEFINE w == (j.output_height \div j.iMCU_height) * j.iMCU_height
  <2>1. CASE trim_bottom_edge(j, full) = j BY <1>4, <2>1
  <2>2. CASE trim_bottom_edge(j, full) # j
    <3>1. trim_bottom_edge(j, full) = [j EXCEPT !.output_height = w] /\ j.output_height \div j.iMCU_height > 0
      BY <2>2 DEF trim_bottom_edge
    <3>2. w \in Nat \ {0} /\ w <= j.output_height BY <1>1, <1>2, <1>4, <3>1 DEF Fits
    <3> HIDE DEF w
    <3>3. /\ j.yo * u.iMCU_height \in Nat /\ j.output_height \in Nat
          /\ j.yo * u.iMCU_height + j.output_height <= u.output_height
      BY <1>1, <1>4 DEF Fits
    <3>4. j.yo * u.iMCU_height + w <= u.output_height BY <1>1, <3>2, <3>3
    <3> QED BY <1>4, <3>1, <3>2, <3>4 DEF Fits
  <2> QED BY <2>1, <2>2
<1>5. Fits(i, u) BY DEF u
<1> QED BY <1>3, <1>4, <1>5 DEF Trimmed, u
-------------------------------------------------------------------------------
(* From the picture read to the picture written.                                  *)

Swaps(r) == r.transform \in Transposing

\* What jtransform_adjust_parameters requires before it makes a picture gray.
Reducible(p, r) == r.grayscale => p.comps[1].h = max_h(p.comps) /\ p.comps[1].v = max_v(p.comps)

LEMMA SingleFact ==
  ASSUME NEW p, Sized(p), NEW r, Asked(r), Reducible(p, r), num_components(p, r) = 1
  PROVE  p.comps[1].h = max_h(p.comps) /\ p.comps[1].v = max_v(p.comps)
<1>1. CASE r.grayscale BY <1>1 DEF Reducible
<1>2. CASE ~ r.grayscale
  <2>1. Len(p.comps) = 1 BY <1>2 DEF num_components
  <2>2. DOMAIN p.comps = {1} BY <2>1 DEF Sized
  <2>3. p.comps[1].h \in 1 .. max_h(p.comps) /\ p.comps[1].v \in 1 .. max_v(p.comps) BY <2>2, Maxima DEF Sized
  <2>4. {p.comps[ci].h : ci \in DOMAIN p.comps} = {p.comps[1].h}
        /\ {p.comps[ci].v : ci \in DOMAIN p.comps} = {p.comps[1].v}
    BY <2>2
  <2>5. ASSUME NEW n \in Int PROVE Max({n}) = n
    <3>1. \E x \in {n} : \A y \in {n} : x >= y OBVIOUS
    <3>2. Max({n}) \in {n} BY <3>1 DEF Max
    <3> QED BY <3>2
  <2>6. p.comps[1].h \in Int /\ p.comps[1].v \in Int BY <2>3, Maxima DEF Sized
  <2> QED BY <2>4, <2>5, <2>6 DEF max_h, max_v
<1> QED BY <1>1, <1>2 DEF Asked

\* The components of the output: as many or one, and their largest factors those of the plan.
LEMMA ResampledFact ==
  ASSUME NEW p, Sized(p), NEW r, Asked(r), Reducible(p, r)
  PROVE  LET comps == Resampled(p, r)    u == Uncropped(p, r)
         IN /\ comps \in Seq(Sampling) /\ Len(comps) > 0
            /\ DOMAIN comps \subseteq DOMAIN p.comps
            /\ max_h(comps) * BlockSize = u.iMCU_width /\ max_v(comps) * BlockSize = u.iMCU_height
            /\ num_components(p, r) = 1 => comps = <<[h |-> 1, v |-> 1]>>
            /\ num_components(p, r) # 1 =>
                 /\ DOMAIN comps = DOMAIN p.comps
                 /\ \A ci \in DOMAIN comps :
                      /\ comps[ci].h = IF Swaps(r) THEN p.comps[ci].v ELSE p.comps[ci].h
                      /\ comps[ci].v = IF Swaps(r) THEN p.comps[ci].h ELSE p.comps[ci].v
<1> DEFINE comps == Resampled(p, r)
           u == Uncropped(p, r)
<1>1. /\ DOMAIN p.comps = 1 .. Len(p.comps) /\ Len(p.comps) \in Nat \ {0}
      /\ \A ci \in DOMAIN p.comps : p.comps[ci] \in Sampling
  BY DEF Sized
<1>2. max_h(p.comps) \in 1 .. 4 /\ max_v(p.comps) \in 1 .. 4 BY Maxima DEF Sized
<1>3. CASE num_components(p, r) = 1
  <2> DEFINE one == <<[h |-> 1, v |-> 1]>>
  <2>1. comps = one BY <1>3 DEF Resampled
  <2>2. one \in Seq(Sampling) /\ Len(one) = 1 /\ DOMAIN one = {1} /\ one[1] = [h |-> 1, v |-> 1]
    BY DEF Sampling
  <2>3. max_h(one) = 1 /\ max_v(one) = 1
    <3>1. one[1].h = 1 /\ one[1].v = 1 BY <2>2
    <3>2. {one[ci].h : ci \in DOMAIN one} = {1} /\ {one[ci].v : ci \in DOMAIN one} = {1} BY <2>2, <3>1
    <3>3. Max({1}) = 1
      <4>1. \E x \in {1} : \A y \in {1} : x >= y OBVIOUS
      <4> QED BY <4>1 DEF Max
    <3> QED BY <3>2, <3>3 DEF max_h, max_v
  <2> HIDE DEF one
  <2>4. max_h(comps) * BlockSize = BlockSize /\ max_v(comps) * BlockSize = BlockSize
    BY <2>1, <2>3, BlockSizeAssumption
  <2>5. u.iMCU_width = BlockSize /\ u.iMCU_height = BlockSize BY <1>3 DEF Uncropped
  <2>6. DOMAIN comps \subseteq DOMAIN p.comps BY <1>1, <2>1, <2>2
  <2> QED BY <1>3, <2>1, <2>2, <2>4, <2>5, <2>6 DEF one
<1>4. CASE num_components(p, r) # 1
  <2> DEFINE C(ci) == IF Swaps(r) THEN [h |-> p.comps[ci].v, v |-> p.comps[ci].h] ELSE p.comps[ci]
  <2>1. comps = [ci \in DOMAIN p.comps |-> C(ci)] BY <1>4 DEF Resampled, Swaps
  <2>2. ASSUME NEW ci \in DOMAIN p.comps
        PROVE  /\ C(ci) \in Sampling
               /\ C(ci).h = IF Swaps(r) THEN p.comps[ci].v ELSE p.comps[ci].h
               /\ C(ci).v = IF Swaps(r) THEN p.comps[ci].h ELSE p.comps[ci].v
    BY <1>1 DEF Sampling
  <2> HIDE DEF C, comps
  <2>3. DOMAIN comps = DOMAIN p.comps /\ \A ci \in DOMAIN comps : comps[ci] = C(ci) BY <2>1
  <2>4. comps \in [1 .. Len(p.comps) -> Sampling] BY <1>1, <2>1, <2>2
  <2>5. comps \in Seq(Sampling) /\ Len(comps) = Len(p.comps) BY <1>1, <2>4
  <2>6. \A ci \in DOMAIN p.comps :
          /\ comps[ci].h = IF Swaps(r) THEN p.comps[ci].v ELSE p.comps[ci].h
          /\ comps[ci].v = IF Swaps(r) THEN p.comps[ci].h ELSE p.comps[ci].v
    BY <2>2, <2>3
  <2>7. /\ max_h(comps) = IF Swaps(r) THEN max_v(p.comps) ELSE max_h(p.comps)
        /\ max_v(comps) = IF Swaps(r) THEN max_h(p.comps) ELSE max_v(p.comps)
    <3>1. CASE Swaps(r)
      <4>1. {comps[ci].h : ci \in DOMAIN comps} = {p.comps[ci].v : ci \in DOMAIN p.comps}
            /\ {comps[ci].v : ci \in DOMAIN comps} = {p.comps[ci].h : ci \in DOMAIN p.comps}
        BY <2>3, <2>6, <3>1
      <4> QED BY <3>1, <4>1 DEF max_h, max_v
    <3>2. CASE ~ Swaps(r)
      <4>1. {comps[ci].h : ci \in DOMAIN comps} = {p.comps[ci].h : ci \in DOMAIN p.comps}
            /\ {comps[ci].v : ci \in DOMAIN comps} = {p.comps[ci].v : ci \in DOMAIN p.comps}
        BY <2>3, <2>6, <3>2
      <4> QED BY <3>2, <4>1 DEF max_h, max_v
    <3> QED BY <3>1, <3>2
  <2>8. /\ u.iMCU_width = (IF Swaps(r) THEN max_v(p.comps) ELSE max_h(p.comps)) * BlockSize
        /\ u.iMCU_height = (IF Swaps(r) THEN max_h(p.comps) ELSE max_v(p.comps)) * BlockSize
    BY <1>4 DEF Uncropped, Swaps
  <2> HIDE DEF u
  <2>9. max_h(comps) * BlockSize = u.iMCU_width /\ max_v(comps) * BlockSize = u.iMCU_height
    BY <2>7, <2>8
  <2> QED BY <1>1, <1>4, <2>3, <2>5, <2>6, <2>9 DEF comps, u
<1> QED BY <1>3, <1>4

\* The blocks of the source, counted as the output counts them.
LEMMA SourceGrid ==
  ASSUME NEW p, Sized(p), NEW r, Asked(r), Reducible(p, r), NEW ci \in DOMAIN Resampled(p, r)
  PROVE  LET u == Uncropped(p, r)    c == Resampled(p, r)[ci]
             across == IF Swaps(r) THEN height_in_blocks(p, ci) ELSE width_in_blocks(p, ci)
             down == IF Swaps(r) THEN width_in_blocks(p, ci) ELSE height_in_blocks(p, ci)
         IN /\ across \in Nat /\ down \in Nat
            /\ \A x \in Nat : x < across <=> x * u.iMCU_width < u.output_width * c.h
            /\ \A y \in Nat : y < down <=> y * u.iMCU_height < u.output_height * c.v
<1> DEFINE u == Uncropped(p, r)
           c == Resampled(p, r)[ci]
<1>1. ci \in DOMAIN p.comps BY ResampledFact
<1>2. /\ width_in_blocks(p, ci) \in Nat /\ height_in_blocks(p, ci) \in Nat
      /\ \A x \in Nat : x < width_in_blocks(p, ci)
           <=> x * (max_h(p.comps) * BlockSize) < p.width * p.comps[ci].h
      /\ \A y \in Nat : y < height_in_blocks(p, ci)
           <=> y * (max_v(p.comps) * BlockSize) < p.height * p.comps[ci].v
  BY <1>1, GridFact
<1>3. /\ u.output_width = IF Swaps(r) THEN p.height ELSE p.width
      /\ u.output_height = IF Swaps(r) THEN p.width ELSE p.height
  BY DEF Uncropped, Swaps
<1>4. CASE num_components(p, r) # 1
  <2>1. /\ u.iMCU_width = (IF Swaps(r) THEN max_v(p.comps) ELSE max_h(p.comps)) * BlockSize
        /\ u.iMCU_height = (IF Swaps(r) THEN max_h(p.comps) ELSE max_v(p.comps)) * BlockSize
    BY <1>4 DEF Uncropped, Swaps
  <2>2. /\ c.h = IF Swaps(r) THEN p.comps[ci].v ELSE p.comps[ci].h
        /\ c.v = IF Swaps(r) THEN p.comps[ci].h ELSE p.comps[ci].v
    BY <1>4, ResampledFact
  <2> HIDE DEF u, c
  <2>3. CASE Swaps(r) BY <1>2, <1>3, <2>1, <2>2, <2>3 DEF u, c
  <2>4. CASE ~ Swaps(r) BY <1>2, <1>3, <2>1, <2>2, <2>4 DEF u, c
  <2> QED BY <2>3, <2>4
<1>5. CASE num_components(p, r) = 1
  <2>1. u.iMCU_width = BlockSize /\ u.iMCU_height = BlockSize BY <1>5 DEF Uncropped
  <2>2. ci = 1 /\ c.h = 1 /\ c.v = 1
    <3>1. Resampled(p, r) = <<[h |-> 1, v |-> 1]>> BY <1>5, ResampledFact
    <3> QED BY <3>1
  <2>3. p.comps[ci].h = max_h(p.comps) /\ p.comps[ci].v = max_v(p.comps) BY <1>5, <2>2, SingleFact
  <2>4. ASSUME NEW a \in Nat, NEW b \in Nat, NEW n \in 1 .. 4
        PROVE  a * (n * BlockSize) < b * n <=> a * BlockSize < b * 1
    <3>1. n = 1 \/ n = 2 \/ n = 3 \/ n = 4 OBVIOUS
    <3>2. a * BlockSize \in Nat BY BlockSizeAssumption
    <3>3. a * (n * BlockSize) = n * (a * BlockSize) BY BlockSizeAssumption
    <3> DEFINE m == a * BlockSize
    <3> HIDE DEF m
    <3>4. n * m < b * n <=> m < b BY <3>1, <3>2 DEF m
    <3> QED BY <3>3, <3>4 DEF m
  <2>5. max_h(p.comps) \in 1 .. 4 /\ max_v(p.comps) \in 1 .. 4 BY Maxima DEF Sized
  <2>6. p.width \in Nat /\ p.height \in Nat BY DEF Sized
  <2>7. \A x \in Nat : x < width_in_blocks(p, ci) <=> x * BlockSize < p.width * 1
    BY <1>2, <2>3, <2>4, <2>5, <2>6
  <2>8. \A y \in Nat : y < height_in_blocks(p, ci) <=> y * BlockSize < p.height * 1
    BY <1>2, <2>3, <2>4, <2>5, <2>6
  <2> HIDE DEF u, c
  <2>9. CASE Swaps(r) BY <1>2, <1>3, <2>1, <2>2, <2>7, <2>8, <2>9 DEF u, c
  <2>10. CASE ~ Swaps(r) BY <1>2, <1>3, <2>1, <2>2, <2>7, <2>8, <2>10 DEF u, c
  <2> QED BY <2>9, <2>10
<1> QED BY <1>4, <1>5
-------------------------------------------------------------------------------
(* What the routines read.                                                        *)

LEMMA CutFact ==
  ASSUME NEW x \in Nat, NEW o \in Nat, NEW part \in Nat, NEW size \in Nat, NEW unit \in Nat, NEW f \in Nat \ {0},
         o * unit + part <= size, x * unit < part * f
  PROVE  (x + o * f) * unit < size * f
<1>1. (x + o * f) * unit = x * unit + (o * unit) * f OBVIOUS
<1>2. (o * unit + part) * f <= size * f
  <2>1. o * unit \in Nat OBVIOUS
  <2> DEFINE a == o * unit + part
  <2>2. a \in Nat /\ a <= size BY <2>1
  <2> HIDE DEF a
  <2>3. a * f <= size * f BY <2>2
  <2> QED BY <2>3 DEF a
<1>3. (o * unit + part) * f = (o * unit) * f + part * f
  <2>1. \A a, b, c \in Nat : (a + b) * c = a * c + b * c OBVIOUS
  <2> QED BY <2>1
<1>4. /\ x * unit \in Nat /\ (o * unit) * f \in Nat /\ part * f \in Nat /\ size * f \in Nat OBVIOUS
<1> QED BY <1>1, <1>2, <1>3, <1>4

LEMMA MirrorFact ==
  ASSUME NEW x \in Nat, NEW size \in Nat, NEW unit \in Nat \ {0}, NEW f \in Nat \ {0},
         x < (size \div unit) * f
  PROVE  LET y == (size \div unit) * f - x - 1 IN y \in Nat /\ y * unit < size * f
<1> DEFINE n == size \div unit
           w == n * f
           y == w - x - 1
<1>1. n \in Nat /\ n * unit <= size BY DivFact
<1>2. w \in Nat BY <1>1
<1>3. w * unit <= size * f
  <2>1. w * unit = (n * unit) * f BY <1>1
  <2> DEFINE a == n * unit
  <2>2. a \in Nat /\ a <= size BY <1>1
  <2> HIDE DEF a, n, w
  <2>3. a * f <= size * f BY <2>2
  <2> QED BY <2>1, <2>3 DEF a
<1>4. x < w OBVIOUS
<1> HIDE DEF n, w
<1>5. y \in Nat /\ y < w BY <1>2, <1>4
<1>6. y * unit < w * unit BY <1>2, <1>5
<1>7. y \in Nat /\ y * unit < size * f
  <2> HIDE DEF y
  <2>1. y * unit \in Nat /\ w * unit \in Nat /\ size * f \in Nat BY <1>2, <1>5
  <2> QED BY <1>3, <1>5, <1>6, <2>1
<1> QED BY <1>7 DEF y, w, n

\* The area of whole iMCUs of a component of the output.
WholeAcross(p, r, ci) ==
  (Uncropped(p, r).output_width \div Uncropped(p, r).iMCU_width) * Resampled(p, r)[ci].h
WholeDown(p, r, ci) ==
  (Uncropped(p, r).output_height \div Uncropped(p, r).iMCU_height) * Resampled(p, r)[ci].v
PlaceIn(p, r, ci, y, x) ==
  Place(r.transform, y, x, WholeAcross(p, r, ci), WholeDown(p, r, ci))
TurnIn(p, r, ci, y, x) ==
  Turn(r.transform, p.blocks[ci][PlaceIn(p, r, ci, y, x)],
       r.transform \in Across /\ x < WholeAcross(p, r, ci),
       r.transform \in Down /\ y < WholeDown(p, r, ci))

\* A block of the transformed picture comes from a block of the picture.
LEMMA PlaceFact ==
  ASSUME NEW p, Sized(p), NEW r, Asked(r), Reducible(p, r), NEW ci \in DOMAIN Resampled(p, r),
         NEW y \in Nat, NEW x \in Nat,
         x * Uncropped(p, r).iMCU_width < Uncropped(p, r).output_width * Resampled(p, r)[ci].h,
         y * Uncropped(p, r).iMCU_height < Uncropped(p, r).output_height * Resampled(p, r)[ci].v
  PROVE  /\ PlaceIn(p, r, ci, y, x) \in Grid(p, ci)
         /\ WholeAcross(p, r, ci) \in Nat /\ WholeDown(p, r, ci) \in Nat
<1> DEFINE u == Uncropped(p, r)
           c == Resampled(p, r)[ci]
           cw == WholeAcross(p, r, ci)
           ch == WholeDown(p, r, ci)
           col == IF r.transform \in Across /\ x < cw THEN cw - x - 1 ELSE x
           row == IF r.transform \in Down /\ y < ch THEN ch - y - 1 ELSE y
           across == IF Swaps(r) THEN height_in_blocks(p, ci) ELSE width_in_blocks(p, ci)
           down == IF Swaps(r) THEN width_in_blocks(p, ci) ELSE height_in_blocks(p, ci)
<1>1. /\ u.output_width \in Nat \ {0} /\ u.output_height \in Nat \ {0}
      /\ u.iMCU_width \in Nat \ {0} /\ u.iMCU_height \in Nat \ {0}
  BY UncroppedFact
<1>2. c.h \in Nat \ {0} /\ c.v \in Nat \ {0}
  <2>1. Resampled(p, r) \in Seq(Sampling) BY ResampledFact
  <2>2. c \in Sampling BY <2>1
  <2> QED BY <2>2 DEF Sampling
<1>3. /\ across \in Nat /\ down \in Nat
      /\ \A n \in Nat : n < across <=> n * u.iMCU_width < u.output_width * c.h
      /\ \A n \in Nat : n < down <=> n * u.iMCU_height < u.output_height * c.v
  BY SourceGrid
<1>4. x * u.iMCU_width < u.output_width * c.h /\ y * u.iMCU_height < u.output_height * c.v OBVIOUS
<1>5. cw = (u.output_width \div u.iMCU_width) * c.h /\ ch = (u.output_height \div u.iMCU_height) * c.v
  BY DEF WholeAcross, WholeDown
<1>6. PlaceIn(p, r, ci, y, x) = IF Swaps(r) THEN <<col, row>> ELSE <<row, col>>
  BY DEF PlaceIn, Place, Swaps
<1> HIDE DEF u, c
<1>7. cw \in Nat /\ ch \in Nat
  <2>1. u.output_width \div u.iMCU_width \in Nat /\ u.output_height \div u.iMCU_height \in Nat
    BY <1>1, DivFact
  <2> QED BY <1>2, <1>5, <2>1
<1>8. col \in Nat /\ col < across
  <2>1. CASE r.transform \in Across /\ x < cw
    <3>1. cw - x - 1 \in Nat /\ (cw - x - 1) * u.iMCU_width < u.output_width * c.h
      BY <1>1, <1>2, <1>5, <2>1, MirrorFact
    <3> QED BY <1>3, <2>1, <3>1
  <2>2. CASE ~ (r.transform \in Across /\ x < cw) BY <1>3, <1>4, <2>2
  <2> QED BY <2>1, <2>2
<1>9. row \in Nat /\ row < down
  <2>1. CASE r.transform \in Down /\ y < ch
    <3>1. ch - y - 1 \in Nat /\ (ch - y - 1) * u.iMCU_height < u.output_height * c.v
      BY <1>1, <1>2, <1>5, <2>1, MirrorFact
    <3> QED BY <1>3, <2>1, <3>1
  <2>2. CASE ~ (r.transform \in Down /\ y < ch) BY <1>3, <1>4, <2>2
  <2> QED BY <2>1, <2>2
<1> HIDE DEF row, col, cw, ch
<1>10. width_in_blocks(p, ci) \in Nat /\ height_in_blocks(p, ci) \in Nat BY <1>3
<1>11. PlaceIn(p, r, ci, y, x) \in Grid(p, ci)
  <2>1. CASE Swaps(r) BY <1>6, <1>8, <1>9, <1>10, <2>1 DEF Grid
  <2>2. CASE ~ Swaps(r) BY <1>6, <1>8, <1>9, <1>10, <2>2 DEF Grid
  <2> QED BY <2>1, <2>2
<1> QED BY <1>7, <1>11 DEF cw, ch

\* The output of a plan for a picture.
Sent(p, r, i, d) ==
  /\ d.width = i.output_width /\ d.height = i.output_height /\ d.comps = Resampled(p, r)

LEMMA TransformedFact ==
  ASSUME NEW p, Sized(p), \A ci \in DOMAIN p.comps : DOMAIN p.blocks[ci] = Grid(p, ci),
         NEW r, Asked(r), Reducible(p, r), NEW i, Fits(i, Uncropped(p, r)), NEW d, Sent(p, r, i, d)
  PROVE  LET T == Transformed(p, d, r.transform, i.xo, i.yo)
         IN /\ Sized(d) /\ DOMAIN T = DOMAIN d.comps
            /\ \A ci \in DOMAIN d.comps : /\ DOMAIN T[ci] = Grid(d, ci)
                                          /\ d.comps[ci].h \in 1 .. 4 /\ d.comps[ci].v \in 1 .. 4
            /\ \A ci \in DOMAIN d.comps : \A yx \in Grid(d, ci) :
                 LET y == yx[1] + i.yo * d.comps[ci].v    x == yx[2] + i.xo * d.comps[ci].h
                 IN /\ y \in Nat /\ x \in Nat
                    /\ x * Uncropped(p, r).iMCU_width < Uncropped(p, r).output_width * d.comps[ci].h
                    /\ y * Uncropped(p, r).iMCU_height < Uncropped(p, r).output_height * d.comps[ci].v
                    /\ T[ci][yx] = TurnIn(p, r, ci, y, x)
<1> DEFINE T == Transformed(p, d, r.transform, i.xo, i.yo)
           u == Uncropped(p, r)
<1>1. /\ d.comps = Resampled(p, r) /\ d.comps \in Seq(Sampling) /\ Len(d.comps) > 0
      /\ DOMAIN d.comps \subseteq DOMAIN p.comps
      /\ max_h(d.comps) * BlockSize = u.iMCU_width /\ max_v(d.comps) * BlockSize = u.iMCU_height
  BY ResampledFact DEF Sent
<1>2. /\ u.output_width \in Nat \ {0} /\ u.output_height \in Nat \ {0}
      /\ u.iMCU_width \in Nat \ {0} /\ u.iMCU_height \in Nat \ {0}
  BY UncroppedFact
<1>3. /\ d.width \in Nat \ {0} /\ d.height \in Nat \ {0} /\ i.xo \in Nat /\ i.yo \in Nat
      /\ i.xo * u.iMCU_width + d.width <= u.output_width
      /\ i.yo * u.iMCU_height + d.height <= u.output_height
  BY DEF Fits, Sent
<1>4. Sized(d) BY <1>1, <1>3 DEF Sized
<1>5. /\ (IF r.transform \in Transposing THEN p.height ELSE p.width) = u.output_width
      /\ (IF r.transform \in Transposing THEN p.width ELSE p.height) = u.output_height
  BY DEF Uncropped
<1>6. T = [ci \in DOMAIN d.comps |->
             [yx \in Grid(d, ci) |->
                BlockOf(r.transform, Source(p, ci), yx[1] + i.yo * d.comps[ci].v,
                        yx[2] + i.xo * d.comps[ci].h, WholeAcross(p, r, ci), WholeDown(p, r, ci), i.yo)]]
  BY <1>1, <1>5 DEF Transformed, WholeAcross, WholeDown
<1> HIDE DEF T, u
<1>7. DOMAIN T = DOMAIN d.comps /\ \A ci \in DOMAIN d.comps : DOMAIN T[ci] = Grid(d, ci) BY <1>6
<1>8. ASSUME NEW ci \in DOMAIN d.comps
      PROVE  d.comps[ci].h \in 1 .. 4 /\ d.comps[ci].v \in 1 .. 4
  <2>1. d.comps[ci] \in Sampling BY <1>1
  <2> QED BY <2>1 DEF Sampling
<1>9. ASSUME NEW ci \in DOMAIN d.comps, NEW yx \in Grid(d, ci)
      PROVE  LET y == yx[1] + i.yo * d.comps[ci].v    x == yx[2] + i.xo * d.comps[ci].h
             IN /\ y \in Nat /\ x \in Nat
                /\ x * u.iMCU_width < u.output_width * d.comps[ci].h
                /\ y * u.iMCU_height < u.output_height * d.comps[ci].v
                /\ T[ci][yx] = TurnIn(p, r, ci, y, x)
  <2> DEFINE y == yx[1] + i.yo * d.comps[ci].v
             x == yx[2] + i.xo * d.comps[ci].h
  <2>1. /\ width_in_blocks(d, ci) \in Nat /\ height_in_blocks(d, ci) \in Nat
        /\ \A n \in Nat : n < width_in_blocks(d, ci)
             <=> n * (max_h(d.comps) * BlockSize) < d.width * d.comps[ci].h
        /\ \A n \in Nat : n < height_in_blocks(d, ci)
             <=> n * (max_v(d.comps) * BlockSize) < d.height * d.comps[ci].v
    BY <1>4, GridFact
  <2>2. yx[1] \in 0 .. height_in_blocks(d, ci) - 1 /\ yx[2] \in 0 .. width_in_blocks(d, ci) - 1 BY DEF Grid
  <2>3. /\ yx[1] \in Nat /\ yx[1] * u.iMCU_height < d.height * d.comps[ci].v
        /\ yx[2] \in Nat /\ yx[2] * u.iMCU_width < d.width * d.comps[ci].h
    BY <1>1, <2>1, <2>2
  <2>4. d.comps[ci].h \in Nat \ {0} /\ d.comps[ci].v \in Nat \ {0} BY <1>8
  <2>5. y \in Nat /\ x \in Nat BY <1>3, <2>3, <2>4
  <2>6. x * u.iMCU_width < u.output_width * d.comps[ci].h BY <1>2, <1>3, <2>3, <2>4, CutFact
  <2>7. y * u.iMCU_height < u.output_height * d.comps[ci].v BY <1>2, <1>3, <2>3, <2>4, CutFact
  <2>8. T[ci][yx] = BlockOf(r.transform, Source(p, ci), y, x, WholeAcross(p, r, ci), WholeDown(p, r, ci), i.yo)
    BY <1>6
  <2> HIDE DEF y, x
  <2>9. /\ PlaceIn(p, r, ci, y, x) \in Grid(p, ci)
        /\ WholeAcross(p, r, ci) \in Nat /\ WholeDown(p, r, ci) \in Nat
    BY <1>1, <2>5, <2>6, <2>7, PlaceFact DEF u
  <2>10. Source(p, ci)[PlaceIn(p, r, ci, y, x)] = p.blocks[ci][PlaceIn(p, r, ci, y, x)]
    <3>1. ci \in DOMAIN p.comps BY <1>1
    <3> QED BY <2>9, <3>1, SourceFact
  <2>11. T[ci][yx] = TurnIn(p, r, ci, y, x)
    BY <2>5, <2>8, <2>9, <2>10, BlockOfFact DEF TurnIn, PlaceIn, Asked
  <2> QED BY <2>5, <2>6, <2>7, <2>11 DEF y, x
<1> QED BY <1>4, <1>7, <1>8, <1>9 DEF T, u
-------------------------------------------------------------------------------
(* The inductive invariant.                                                       *)

Fields(p) ==
  p = [width |-> p.width, height |-> p.height, comps |-> p.comps, colour |-> p.colour,
       markers |-> p.markers, tables |-> p.tables, blocks |-> p.blocks]

\* A picture has all its blocks, turned as its tables are.
Whole(p) ==
  /\ Fields(p) /\ Sized(p) /\ p.tables \in BOOLEAN /\ DOMAIN p.blocks = DOMAIN p.comps
  /\ \A ci \in DOMAIN p.comps :
       /\ DOMAIN p.blocks[ci] = Grid(p, ci)
       /\ \A yx \in Grid(p, ci) : p.blocks[ci][yx] \in Blocks /\ p.blocks[ci][yx].tr = p.tables

\* But for the markers, the same picture.
Same(p, q) ==
  /\ p.width = q.width /\ p.height = q.height /\ p.comps = q.comps
  /\ p.colour = q.colour /\ p.tables = q.tables /\ p.blocks = q.blocks

Copied(p, r, i, d) ==
  /\ Asked(r) /\ Reducible(p, r) /\ Sent(p, r, i, d) /\ d.tables = (p.tables # Swaps(r))

IInv ==
  /\ stage \in {"file", "header", "requested", "adjusted", "written", "refused"}
  /\ Asked(request) /\ Whole(src)
  /\ stage \in {"requested", "adjusted", "written"} =>
       /\ ~ (request.cropped /\ BadCrop(src, request))
       /\ info = Trimmed(src, request, Cropped(src, request))
  /\ stage \in {"adjusted", "written"} => Fields(dst) /\ Copied(src, request, info, dst)
  /\ stage = "written" => dst.blocks = Transformed(src, dst, request.transform, info.xo, info.yo)

\* The picture after a run that neither crops nor trims nor makes it gray.
Made(p, r, d) ==
  /\ Copied(p, r, Uncropped(p, r), d)
  /\ d.blocks = Transformed(p, d, r.transform, 0, 0)

First == Len(applied) = IF Written THEN 1 ELSE 0
HInv ==
  /\ Whole(original) /\ original.tables = FALSE
  /\ original.blocks = [ci \in DOMAIN original.comps |->
                          [yx \in Grid(original, ci) |-> BlockAt(yx[1], yx[2])]]
  /\ request \in Requests \cup Again /\ applied \in Seq(Requests \cup Again)
  /\ Len(applied) \in IF Written THEN {1, 2} ELSE {0, 1}
  /\ Written => applied[Len(applied)] = request
  /\ First => Same(src, original)
  /\ ~ First /\ Plain(applied[1]) => Made(original, applied[1], src)

LEMMA SameFact ==
  ASSUME NEW p, NEW q, Same(p, q), NEW r
  PROVE  /\ Sized(p) => Sized(q)
         /\ \A ci : Grid(p, ci) = Grid(q, ci) /\ Source(p, ci) = Source(q, ci)
         /\ Uncropped(p, r) = Uncropped(q, r) /\ Cropped(p, r) = Cropped(q, r)
         /\ BadCrop(p, r) = BadCrop(q, r) /\ \A i : Trimmed(p, r, i) = Trimmed(q, r, i)
         /\ Resampled(p, r) = Resampled(q, r) /\ Reducible(p, r) = Reducible(q, r)
<1>1. \A ci : /\ width_in_blocks(p, ci) = width_in_blocks(q, ci)
              /\ height_in_blocks(p, ci) = height_in_blocks(q, ci)
  BY DEF Same, width_in_blocks, height_in_blocks
<1>2. \A ci : Grid(p, ci) = Grid(q, ci) BY <1>1 DEF Grid
<1>3. \A ci : Source(p, ci) = Source(q, ci) BY <1>1 DEF Same, Source
<1>4. num_components(p, r) = num_components(q, r) BY DEF Same, num_components
<1>5. Uncropped(p, r) = Uncropped(q, r) BY <1>4 DEF Same, Uncropped
<1>6. Cropped(p, r) = Cropped(q, r) /\ BadCrop(p, r) = BadCrop(q, r) BY <1>5 DEF Cropped, BadCrop
<1>7. \A i : Trimmed(p, r, i) = Trimmed(q, r, i) BY <1>5 DEF Trimmed
<1>8. Resampled(p, r) = Resampled(q, r) BY <1>4 DEF Same, Resampled
<1>9. Reducible(p, r) = Reducible(q, r) BY DEF Same, Reducible
<1>10. Sized(p) => Sized(q) BY DEF Same, Sized
<1> QED BY <1>2, <1>3, <1>5, <1>6, <1>7, <1>8, <1>9, <1>10

LEMMA SameWhole ==
  ASSUME NEW p, NEW q, Same(p, q), Fields(q), Whole(p)
  PROVE  Whole(q)
<1>1. Sized(q) BY SameFact DEF Whole
<1>2. \A ci : Grid(p, ci) = Grid(q, ci) BY SameFact
<1> QED BY <1>1, <1>2 DEF Whole, Same

\* The routines look at no more of either picture.
LEMMA SameTransformed ==
  ASSUME NEW p, NEW q, Same(p, q), NEW d, NEW e,
         d.width = e.width, d.height = e.height, d.comps = e.comps, NEW code, NEW xo, NEW yo
  PROVE  Transformed(p, d, code, xo, yo) = Transformed(q, e, code, xo, yo)
<1>1. \A ci : Grid(d, ci) = Grid(e, ci) BY DEF Grid, width_in_blocks, height_in_blocks
<1>2. \A ci : Source(p, ci) = Source(q, ci) BY SameFact
<1>3. p.width = q.width /\ p.height = q.height BY DEF Same
<1> HIDE DEF Grid, Source
<1> QED BY <1>1, <1>2, <1>3 DEF Transformed

LEMMA MarkersFact ==
  ASSUME NEW p, Fields(p), NEW m, NEW q, q = [p EXCEPT !.markers = m]
  PROVE  Same(p, q) /\ Fields(q)
<1>1. q = [width |-> p.width, height |-> p.height, comps |-> p.comps, colour |-> p.colour,
           markers |-> m, tables |-> p.tables, blocks |-> p.blocks]
  BY DEF Fields
<1> QED BY <1>1 DEF Same, Fields

LEMMA PlanFact ==
  ASSUME NEW p, Sized(p), NEW r, Asked(r), ~ (r.cropped /\ BadCrop(p, r))
  PROVE  Fits(Trimmed(p, r, Cropped(p, r)), Uncropped(p, r))
BY CroppedFact, TrimmedFact

LEMMA TurnedFact ==
  ASSUME NEW p, Whole(p), NEW r, NEW ci \in DOMAIN p.comps, NEW y, NEW x, PlaceIn(p, r, ci, y, x) \in Grid(p, ci)
  PROVE  /\ p.blocks[ci][PlaceIn(p, r, ci, y, x)] \in Blocks
         /\ TurnIn(p, r, ci, y, x) \in Blocks
         /\ TurnIn(p, r, ci, y, x).tr = (p.tables # Swaps(r))
<1> DEFINE b == p.blocks[ci][PlaceIn(p, r, ci, y, x)]
           across == r.transform \in Across /\ x < WholeAcross(p, r, ci)
           down == r.transform \in Down /\ y < WholeDown(p, r, ci)
<1>1. b \in Blocks /\ b.tr = p.tables BY DEF Whole
<1>2. TurnIn(p, r, ci, y, x) = Turn(r.transform, b, across, down) BY DEF TurnIn
<1>3. across \in BOOLEAN /\ down \in BOOLEAN OBVIOUS
<1> HIDE DEF b, across, down
<1>4. Turn(r.transform, b, across, down)
        = [y |-> b.y, x |-> b.x, tr |-> (b.tr # Swaps(r)),
           fh |-> ((IF Swaps(r) THEN b.fv ELSE b.fh) # across),
           fv |-> ((IF Swaps(r) THEN b.fh ELSE b.fv) # down)]
  BY <1>1, <1>3, TurnFact DEF Swaps
<1>5. Turn(r.transform, b, across, down) \in Blocks BY <1>1, <1>4 DEF Blocks
<1>6. Turn(r.transform, b, across, down).tr = (b.tr # Swaps(r)) BY <1>4
<1> QED BY <1>1, <1>2, <1>5, <1>6 DEF b

\* What is written is a whole picture again.
LEMMA WrittenFact ==
  ASSUME NEW p, Whole(p), NEW r, NEW i, Fits(i, Uncropped(p, r)),
         NEW d, Fields(d), Copied(p, r, i, d),
         d.blocks = Transformed(p, d, r.transform, i.xo, i.yo)
  PROVE  Whole(d)
<1> DEFINE T == Transformed(p, d, r.transform, i.xo, i.yo)
<1>1. Sized(p) /\ \A ci \in DOMAIN p.comps : DOMAIN p.blocks[ci] = Grid(p, ci) BY DEF Whole
<1>2. Asked(r) /\ Reducible(p, r) /\ Sent(p, r, i, d) BY DEF Copied
<1>3. Sized(d) /\ DOMAIN T = DOMAIN d.comps /\ \A ci \in DOMAIN d.comps : DOMAIN T[ci] = Grid(d, ci)
  BY <1>1, <1>2, TransformedFact
<1>4. ASSUME NEW ci \in DOMAIN d.comps, NEW yx \in Grid(d, ci)
      PROVE  T[ci][yx] \in Blocks /\ T[ci][yx].tr = d.tables
  <2>1. d.comps = Resampled(p, r) /\ ci \in DOMAIN p.comps BY <1>1, <1>2, ResampledFact DEF Sent
  <2> DEFINE y == yx[1] + i.yo * d.comps[ci].v
             x == yx[2] + i.xo * d.comps[ci].h
  <2>2. /\ y \in Nat /\ x \in Nat
        /\ x * Uncropped(p, r).iMCU_width < Uncropped(p, r).output_width * d.comps[ci].h
        /\ y * Uncropped(p, r).iMCU_height < Uncropped(p, r).output_height * d.comps[ci].v
        /\ T[ci][yx] = TurnIn(p, r, ci, y, x)
    BY <1>1, <1>2, TransformedFact
  <2> HIDE DEF y, x, T
  <2>3. PlaceIn(p, r, ci, y, x) \in Grid(p, ci) BY <1>1, <1>2, <2>1, <2>2, PlaceFact
  <2>4. TurnIn(p, r, ci, y, x) \in Blocks /\ TurnIn(p, r, ci, y, x).tr = (p.tables # Swaps(r))
    BY <2>1, <2>3, TurnedFact
  <2> QED BY <2>2, <2>4 DEF Copied
<1> HIDE DEF T
<1>5. d.tables \in BOOLEAN
  <2>1. d.tables = (p.tables # Swaps(r)) BY DEF Copied
  <2> QED BY <2>1
<1> QED BY <1>3, <1>4, <1>5 DEF Whole, T

LEMMA PictureFact ==
  ASSUME NEW s \in Sources
  PROVE  LET p == Picture(s)
         IN /\ Whole(p) /\ p.tables = FALSE
            /\ p.blocks = [ci \in DOMAIN p.comps |-> [yx \in Grid(p, ci) |-> BlockAt(yx[1], yx[2])]]
<1> DEFINE p == Picture(s)
           dims == [width |-> s.width, height |-> s.height, comps |-> s.comps, colour |-> s.colour,
                    markers |-> s.markers, tables |-> FALSE, blocks |-> <<>>]
           B == [ci \in DOMAIN s.comps |-> [yx \in Grid(dims, ci) |-> BlockAt(yx[1], yx[2])]]
<1>1. p = [dims EXCEPT !.blocks = B] BY DEF Picture
<1> HIDE DEF B
<1>2. p = [width |-> s.width, height |-> s.height, comps |-> s.comps, colour |-> s.colour,
           markers |-> s.markers, tables |-> FALSE, blocks |-> B]
  BY <1>1
<1> HIDE DEF p
<1>3. /\ Fields(p) /\ p.width = s.width /\ p.height = s.height /\ p.comps = s.comps
      /\ p.tables = FALSE /\ p.blocks = B
  BY <1>2 DEF Fields
<1>4. Sized(p) BY <1>3, SourcesAssumption DEF Sized
<1>5. dims.width = s.width /\ dims.height = s.height /\ dims.comps = s.comps OBVIOUS
<1> HIDE DEF dims
<1>6. \A ci : Grid(dims, ci) = Grid(p, ci) BY <1>3, <1>5 DEF Grid, width_in_blocks, height_in_blocks
<1>7. B = [ci \in DOMAIN p.comps |-> [yx \in Grid(p, ci) |-> BlockAt(yx[1], yx[2])]]
  BY <1>3, <1>6 DEF B
<1>8. ASSUME NEW ci \in DOMAIN p.comps, NEW yx \in Grid(p, ci)
      PROVE  BlockAt(yx[1], yx[2]) \in Blocks /\ BlockAt(yx[1], yx[2]).tr = FALSE
  <2>1. width_in_blocks(p, ci) \in Nat /\ height_in_blocks(p, ci) \in Nat BY <1>4, GridFact
  <2>2. yx[1] \in Int /\ yx[2] \in Int BY <2>1 DEF Grid
  <2> QED BY <2>2 DEF BlockAt, Blocks
<1>9. Whole(p)
  <2>1. DOMAIN B = DOMAIN p.comps /\ \A ci \in DOMAIN p.comps : DOMAIN B[ci] = Grid(p, ci) BY <1>7
  <2>2. ASSUME NEW ci \in DOMAIN p.comps, NEW yx \in Grid(p, ci)
        PROVE  B[ci][yx] \in Blocks /\ B[ci][yx].tr = p.tables
    <3>1. B[ci][yx] = BlockAt(yx[1], yx[2]) BY <1>7
    <3> QED BY <1>3, <1>8, <3>1
  <2>3. p.tables \in BOOLEAN BY <1>3
  <2> QED BY <1>3, <1>4, <2>1, <2>2, <2>3 DEF Whole
<1> QED BY <1>3, <1>7, <1>9 DEF p
-------------------------------------------------------------------------------
(* The invariant holds.                                                           *)

LEMMA RequestFact == \A r \in Requests \cup Again : Asked(r)
<1> SUFFICES ASSUME NEW r \in Requests \cup Again PROVE Asked(r) OBVIOUS
<1>1. r.cropped \in BOOLEAN /\ r.trim \in BOOLEAN /\ r.grayscale \in BOOLEAN BY RequestsAssumption
<1> QED BY <1>1, RequestsAssumption DEF Asked

LEMMA IInvInit == Init => IInv
<1> SUFFICES ASSUME Init PROVE IInv OBVIOUS
<1>1. Asked(request) BY RequestFact DEF Init
<1>2. PICK s \in Sources : src = Picture(s) BY DEF Init
<1>3. Whole(src) BY <1>2, PictureFact
<1>4. stage = "file" BY DEF Init
<1> QED BY <1>1, <1>3, <1>4 DEF IInv

LEMMA IInvNext == IInv /\ [Next]_vars => IInv'
<1> SUFFICES ASSUME IInv, [Next]_vars PROVE IInv' OBVIOUS
<1>1. Asked(request) /\ Whole(src) /\ Fields(src) /\ Sized(src) BY DEF IInv, Whole
<1>2. CASE ReadHeader
  <2>1. /\ stage' = "header" /\ request' = request
        /\ src' = [src EXCEPT !.markers = SavedMarkers(src.markers, request.copy)]
    BY <1>2 DEF ReadHeader
  <2>2. Same(src, src') /\ Fields(src') BY <1>1, <2>1, MarkersFact
  <2>3. Whole(src') BY <1>1, <2>2, SameWhole
  <2>4. Asked(request)' /\ Whole(src)' BY <1>1, <2>1, <2>3
  <2> QED BY <2>1, <2>4 DEF IInv
<1>3. CASE Request
  <2>1. /\ src' = src /\ request' = request /\ dst' = dst
        /\ \/ stage' = "refused"
           \/ /\ stage' = "requested" /\ ~ (request.cropped /\ BadCrop(src, request))
              /\ info' = Trimmed(src, request, Cropped(src, request))
    BY <1>3 DEF Request
  <2>2. Asked(request)' /\ Whole(src)' BY <1>1, <2>1
  <2>3. CASE stage' = "refused" BY <2>2, <2>3 DEF IInv
  <2>4. CASE stage' = "requested"
    <3>1. (/\ ~ (request.cropped /\ BadCrop(src, request))
           /\ info = Trimmed(src, request, Cropped(src, request)))'
      BY <2>1, <2>4
    <3> QED BY <2>2, <2>4, <3>1 DEF IInv
  <2> QED BY <2>1, <2>3, <2>4
<1>4. CASE Adjust
  <2>1. /\ stage = "requested" /\ request' = request /\ info' = info BY <1>4 DEF Adjust
  <2>2. ~ (request.cropped /\ BadCrop(src, request)) /\ info = Trimmed(src, request, Cropped(src, request))
    BY <2>1 DEF IInv
  <2>3. CASE stage' = "refused"
    <3>1. src' = src BY <1>4, <2>3 DEF Adjust
    <3>2. Asked(request)' /\ Whole(src)' BY <1>1, <2>1, <3>1
    <3> QED BY <2>3, <3>2 DEF IInv
  <2>4. CASE stage' # "refused"
    <3>1. /\ stage' = "adjusted"
          /\ request.grayscale => FullResolution
          /\ \E m : src' = [src EXCEPT !.markers = m]
          /\ \E c, n : dst' = [width |-> info.output_width, height |-> info.output_height,
                               comps |-> Resampled(src, request), colour |-> c,
                               tables |-> (src.tables # (request.transform \in Transposing)),
                               blocks |-> <<>>, markers |-> n]
      <4> DEFINE colour == IF request.grayscale THEN "gray" ELSE src.colour
                 own == OwnMarkers(colour, HasExif)
                 resized == info.output_width # src.width \/ info.output_height # src.height
                 saved == IF HasExif /\ resized
                          THEN [src.markers EXCEPT ![1].data =
                                  adjust_exif_parameters(@, info.output_width, info.output_height)]
                          ELSE src.markers
                 markers == own \o CopiedMarkers(saved, own)
      <4>1. /\ stage' = "adjusted"
            /\ ~ (request.grayscale /\ ~ (src.colour \in {"gray", "ycc"} /\ FullResolution))
            /\ src' = [src EXCEPT !.markers = saved]
            /\ dst' = [width |-> info.output_width, height |-> info.output_height,
                       comps |-> Resampled(src, request), colour |-> colour,
                       tables |-> (src.tables # (request.transform \in Transposing)),
                       blocks |-> <<>>, markers |-> markers]
        BY <1>4, <2>4, Zenon DEF Adjust
      <4> HIDE DEF saved, markers, colour, own
      <4> QED BY <4>1
    <3>2. Same(src, src') /\ Fields(src') BY <1>1, <3>1, MarkersFact
    <3>3. Whole(src)' BY <1>1, <3>2, SameWhole
    <3>4. Asked(request)' BY <1>1, <2>1
    <3>5. (/\ ~ (request.cropped /\ BadCrop(src, request))
           /\ info = Trimmed(src, request, Cropped(src, request)))'
      BY <2>1, <2>2, <3>2, SameFact
    <3>6. Reducible(src, request)'
      <4>1. Reducible(src, request) BY <3>1 DEF Reducible, FullResolution
      <4> QED BY <2>1, <3>2, <4>1, SameFact
    <3>7. Resampled(src, request) = Resampled(src', request) BY <3>2, SameFact
    <3>8. Fields(dst') /\ dst'.width = info.output_width /\ dst'.height = info.output_height
          /\ dst'.comps = Resampled(src, request)
          /\ dst'.tables = (src.tables # (request.transform \in Transposing))
      BY <3>1 DEF Fields
    <3>9. Sent(src, request, info, dst)' BY <2>1, <3>7, <3>8 DEF Sent
    <3>10. (dst.tables = (src.tables # Swaps(request)))' BY <2>1, <3>2, <3>8 DEF Swaps, Same
    <3>11. (Fields(dst) /\ Copied(src, request, info, dst))'
      BY <3>4, <3>6, <3>8, <3>9, <3>10 DEF Copied
    <3> QED BY <3>1, <3>3, <3>4, <3>5, <3>11 DEF IInv
  <2> QED BY <2>3, <2>4
<1>5. CASE Execute
  <2>1. /\ stage = "adjusted" /\ stage' = "written"
        /\ src' = src /\ request' = request /\ info' = info
        /\ dst' = [dst EXCEPT !.blocks = Transformed(src, dst, request.transform, info.xo, info.yo)]
    BY <1>5 DEF Execute
  <2>2. /\ ~ (request.cropped /\ BadCrop(src, request)) /\ info = Trimmed(src, request, Cropped(src, request))
        /\ Fields(dst) /\ Copied(src, request, info, dst)
    BY <2>1 DEF IInv
  <2> DEFINE T == Transformed(src, dst, request.transform, info.xo, info.yo)
  <2>3. dst' = [dst EXCEPT !.blocks = T] BY <2>1
  <2> HIDE DEF T
  <2>4. dst' = [width |-> dst.width, height |-> dst.height, comps |-> dst.comps, colour |-> dst.colour,
                markers |-> dst.markers, tables |-> dst.tables, blocks |-> T]
    BY <2>2, <2>3 DEF Fields
  <2>5. /\ Fields(dst') /\ dst'.width = dst.width /\ dst'.height = dst.height
        /\ dst'.comps = dst.comps /\ dst'.tables = dst.tables /\ dst'.blocks = T
    BY <2>4 DEF Fields
  <2>6. T = Transformed(src, dst', request.transform, info.xo, info.yo)
    <3>1. Same(src, src) BY DEF Same
    <3> QED BY <2>5, <3>1, SameTransformed DEF T
  <2>7. (dst.blocks = Transformed(src, dst, request.transform, info.xo, info.yo))'
    BY <2>1, <2>5, <2>6
  <2>8. Copied(src, request, info, dst)' BY <2>1, <2>2, <2>5 DEF Copied, Sent
  <2>9. Asked(request)' /\ Whole(src)' BY <1>1, <2>1
  <2>10. (/\ ~ (request.cropped /\ BadCrop(src, request))
          /\ info = Trimmed(src, request, Cropped(src, request)))'
    BY <2>1, <2>2
  <2> QED BY <2>1, <2>5, <2>7, <2>8, <2>9, <2>10 DEF IInv
<1>6. CASE NextRun
  <2>1. stage = "written" /\ stage' = "file" /\ src' = dst /\ request' \in Again BY <1>6 DEF NextRun
  <2>2. Asked(request)' BY <2>1, RequestFact
  <2>3. /\ ~ (request.cropped /\ BadCrop(src, request)) /\ info = Trimmed(src, request, Cropped(src, request))
        /\ Fields(dst) /\ Copied(src, request, info, dst)
        /\ dst.blocks = Transformed(src, dst, request.transform, info.xo, info.yo)
    BY <2>1 DEF IInv
  <2>4. Fits(info, Uncropped(src, request)) BY <1>1, <2>3, PlanFact
  <2>5. Whole(dst) BY <1>1, <2>3, <2>4, WrittenFact
  <2>6. Whole(src)' BY <2>1, <2>5
  <2> QED BY <2>1, <2>2, <2>6 DEF IInv
<1>7. CASE UNCHANGED vars
  <2>1. /\ stage' = stage /\ src' = src /\ request' = request /\ info' = info /\ dst' = dst
    BY <1>7 DEF vars
  <2> QED BY <2>1 DEF IInv, Whole, Copied, Sent, Reducible
<1> QED BY <1>2, <1>3, <1>4, <1>5, <1>6, <1>7 DEF Next

\* Every picture read and every picture written is whole, its blocks turned as its tables.
THEOREM PicturesWhole == Spec => []IInv
BY IInvInit, IInvNext, PTL DEF Spec

LEMMA WrittenPlan ==
  IInv /\ Written =>
    /\ Asked(request) /\ Reducible(src, request) /\ Whole(src) /\ Sized(src)
    /\ \A ci \in DOMAIN src.comps : DOMAIN src.blocks[ci] = Grid(src, ci)
    /\ Fits(info, Uncropped(src, request)) /\ Sent(src, request, info, dst)
    /\ dst.blocks = Transformed(src, dst, request.transform, info.xo, info.yo)
    /\ Whole(dst)
<1> SUFFICES ASSUME IInv, Written
             PROVE  /\ Asked(request) /\ Reducible(src, request) /\ Whole(src) /\ Sized(src)
                    /\ \A ci \in DOMAIN src.comps : DOMAIN src.blocks[ci] = Grid(src, ci)
                    /\ Fits(info, Uncropped(src, request)) /\ Sent(src, request, info, dst)
                    /\ dst.blocks = Transformed(src, dst, request.transform, info.xo, info.yo)
                    /\ Whole(dst)
  OBVIOUS
<1>1. /\ Asked(request) /\ Whole(src) /\ ~ (request.cropped /\ BadCrop(src, request))
      /\ info = Trimmed(src, request, Cropped(src, request))
      /\ Fields(dst) /\ Copied(src, request, info, dst)
      /\ dst.blocks = Transformed(src, dst, request.transform, info.xo, info.yo)
  BY DEF IInv, Written
<1>2. /\ Sized(src) /\ \A ci \in DOMAIN src.comps : DOMAIN src.blocks[ci] = Grid(src, ci) BY <1>1 DEF Whole
<1>3. Fits(info, Uncropped(src, request)) BY <1>1, <1>2, PlanFact
<1>4. Whole(dst) BY <1>1, <1>3, WrittenFact
<1> QED BY <1>1, <1>2, <1>3, <1>4 DEF Copied

\* No block written ever meets a quantization table of the other orientation: for every
\* picture, sampling, crop and number of runs, the blocks are transposed where the tables are.
THEOREM TablesAlwaysFitBlocks == Spec => []TablesFitBlocks
<1>1. IInv => TablesFitBlocks
  <2> SUFFICES ASSUME IInv, Written, NEW ci \in DOMAIN dst.blocks, NEW yx \in DOMAIN dst.blocks[ci]
               PROVE  dst.blocks[ci][yx].tr = dst.tables
    BY DEF TablesFitBlocks
  <2>1. Whole(dst) BY WrittenPlan
  <2> QED BY <2>1 DEF Whole
<1> QED BY <1>1, PicturesWhole, PTL
-------------------------------------------------------------------------------
(* Whole transforms, and crops of them.                                           *)

\* A picture whose tables may be any.
Gridded(p) ==
  /\ Sized(p) /\ DOMAIN p.blocks = DOMAIN p.comps
  /\ \A ci \in DOMAIN p.comps : /\ DOMAIN p.blocks[ci] = Grid(p, ci)
                               /\ \A yx \in Grid(p, ci) : p.blocks[ci][yx] \in Blocks

LEMMA WholeGridded ==
  ASSUME NEW p, Whole(p)
  PROVE  Gridded(p)
BY DEF Whole, Gridded

\* Where nothing is cropped, the blocks of the output are those within its dimensions, each
\* turned from its place.
LEMMA UncutFact ==
  ASSUME NEW p, Gridded(p), NEW r, Asked(r), Reducible(p, r), NEW d, Sent(p, r, Uncropped(p, r), d),
         d.blocks = Transformed(p, d, r.transform, 0, 0)
  PROVE  /\ Sized(d) /\ DOMAIN d.blocks = DOMAIN d.comps /\ DOMAIN d.comps \subseteq DOMAIN p.comps
         /\ \A ci \in DOMAIN d.comps : \A y, x \in Nat :
              /\ x * Uncropped(p, r).iMCU_width < Uncropped(p, r).output_width * d.comps[ci].h
              /\ y * Uncropped(p, r).iMCU_height < Uncropped(p, r).output_height * d.comps[ci].v
              => <<y, x>> \in Grid(d, ci)
         /\ \A ci \in DOMAIN d.comps : \A yx \in Grid(d, ci) :
              /\ yx[1] \in Nat /\ yx[2] \in Nat
              /\ d.blocks[ci][yx] = TurnIn(p, r, ci, yx[1], yx[2])
              /\ PlaceIn(p, r, ci, yx[1], yx[2]) \in Grid(p, ci)
              /\ WholeAcross(p, r, ci) \in Nat /\ WholeDown(p, r, ci) \in Nat
<1> DEFINE u == Uncropped(p, r)
<1>1. Sized(p) /\ \A ci \in DOMAIN p.comps : DOMAIN p.blocks[ci] = Grid(p, ci) BY DEF Gridded
<1>2. /\ u.output_width \in Nat \ {0} /\ u.output_height \in Nat \ {0}
      /\ u.iMCU_width \in Nat \ {0} /\ u.iMCU_height \in Nat \ {0} /\ u.xo = 0 /\ u.yo = 0
      /\ Fits(u, u)
  <2>1. /\ u.output_width \in Nat \ {0} /\ u.output_height \in Nat \ {0}
        /\ u.iMCU_width \in Nat \ {0} /\ u.iMCU_height \in Nat \ {0} /\ u.xo = 0 /\ u.yo = 0
        /\ u = [output_width |-> u.output_width, output_height |-> u.output_height,
                iMCU_width |-> u.iMCU_width, iMCU_height |-> u.iMCU_height, xo |-> 0, yo |-> 0]
    BY <1>1, UncroppedFact
  <2> HIDE DEF u
  <2> QED BY <2>1 DEF Fits
<1>3. /\ d.width = u.output_width /\ d.height = u.output_height /\ d.comps = Resampled(p, r)
      /\ max_h(d.comps) * BlockSize = u.iMCU_width /\ max_v(d.comps) * BlockSize = u.iMCU_height
      /\ DOMAIN d.comps \subseteq DOMAIN p.comps
  BY <1>1, ResampledFact DEF Sent
<1> HIDE DEF u
<1>4. /\ Sized(d) /\ DOMAIN d.blocks = DOMAIN d.comps
      /\ \A ci \in DOMAIN d.comps : d.comps[ci].h \in 1 .. 4 /\ d.comps[ci].v \in 1 .. 4
      /\ \A ci \in DOMAIN d.comps : \A yx \in Grid(d, ci) :
           LET y == yx[1] + 0 * d.comps[ci].v    x == yx[2] + 0 * d.comps[ci].h
           IN /\ y \in Nat /\ x \in Nat
              /\ x * u.iMCU_width < u.output_width * d.comps[ci].h
              /\ y * u.iMCU_height < u.output_height * d.comps[ci].v
              /\ d.blocks[ci][yx] = TurnIn(p, r, ci, y, x)
  BY <1>1, <1>2, TransformedFact DEF u
<1>6. ASSUME NEW ci \in DOMAIN d.comps
      PROVE  /\ width_in_blocks(d, ci) \in Nat /\ height_in_blocks(d, ci) \in Nat
             /\ \A n \in Nat : n < width_in_blocks(d, ci) <=> n * u.iMCU_width < u.output_width * d.comps[ci].h
             /\ \A n \in Nat : n < height_in_blocks(d, ci) <=> n * u.iMCU_height < u.output_height * d.comps[ci].v
  BY <1>3, <1>4, GridFact
<1>7. ASSUME NEW ci \in DOMAIN d.comps, NEW y \in Nat, NEW x \in Nat,
             x * u.iMCU_width < u.output_width * d.comps[ci].h,
             y * u.iMCU_height < u.output_height * d.comps[ci].v
      PROVE  <<y, x>> \in Grid(d, ci)
  BY <1>6, <1>7 DEF Grid
<1>8. ASSUME NEW ci \in DOMAIN d.comps, NEW yx \in Grid(d, ci)
      PROVE  /\ yx[1] \in Nat /\ yx[2] \in Nat
             /\ d.blocks[ci][yx] = TurnIn(p, r, ci, yx[1], yx[2])
             /\ PlaceIn(p, r, ci, yx[1], yx[2]) \in Grid(p, ci)
             /\ WholeAcross(p, r, ci) \in Nat /\ WholeDown(p, r, ci) \in Nat
  <2>1. yx[1] \in Nat /\ yx[2] \in Nat BY <1>6 DEF Grid
  <2>2. yx[1] + 0 * d.comps[ci].v = yx[1] /\ yx[2] + 0 * d.comps[ci].h = yx[2]
    <3>1. d.comps[ci].h \in Int /\ d.comps[ci].v \in Int BY <1>4
    <3> QED BY <2>1, <3>1
  <2>3. /\ yx[2] * u.iMCU_width < u.output_width * d.comps[ci].h
        /\ yx[1] * u.iMCU_height < u.output_height * d.comps[ci].v
        /\ d.blocks[ci][yx] = TurnIn(p, r, ci, yx[1], yx[2])
    BY <1>4, <2>2
  <2>4. /\ PlaceIn(p, r, ci, yx[1], yx[2]) \in Grid(p, ci)
        /\ WholeAcross(p, r, ci) \in Nat /\ WholeDown(p, r, ci) \in Nat
    BY <1>1, <1>3, <2>1, <2>3, PlaceFact DEF u
  <2> QED BY <2>1, <2>3, <2>4
<1> QED BY <1>3, <1>4, <1>7, <1>8 DEF u

\* The whole transform that a run is compared with, when it keeps several components.
LEMMA ApplyFact ==
  ASSUME NEW p, Fields(p), NEW r, Asked(r), Reducible(p, r), num_components(p, r) # 1
  PROVE  LET q == Apply(p, r.transform)
         IN /\ Fields(q) /\ Sent(p, r, Uncropped(p, r), q)
            /\ q.colour = p.colour /\ q.blocks = Transformed(p, q, r.transform, 0, 0)
<1> DEFINE code == r.transform
           swap == code \in Transposing
           comps == [ci \in DOMAIN p.comps |->
                       IF swap THEN [h |-> p.comps[ci].v, v |-> p.comps[ci].h] ELSE p.comps[ci]]
           W == IF swap THEN p.height ELSE p.width
           H == IF swap THEN p.width ELSE p.height
           q0 == [p EXCEPT !.width = W, !.height = H, !.comps = comps]
           T == Transformed(p, q0, code, 0, 0)
           q == Apply(p, code)
<1>1. q = [q0 EXCEPT !.blocks = T] BY DEF Apply
<1>2. comps = Resampled(p, r) BY DEF Resampled
<1>3. W = Uncropped(p, r).output_width /\ H = Uncropped(p, r).output_height BY DEF Uncropped
<1> HIDE DEF T, comps, W, H, q
<1>4. q0 = [width |-> W, height |-> H, comps |-> comps, colour |-> p.colour,
            markers |-> p.markers, tables |-> p.tables, blocks |-> p.blocks]
  <2>1. p = [width |-> p.width, height |-> p.height, comps |-> p.comps, colour |-> p.colour,
             markers |-> p.markers, tables |-> p.tables, blocks |-> p.blocks]
    BY DEF Fields
  <2>2. q0 = [p EXCEPT !.width = W, !.height = H, !.comps = comps] OBVIOUS
  <2> HIDE DEF q0
  <2> QED BY <2>1, <2>2
<1>5. q0.width = W /\ q0.height = H /\ q0.comps = comps BY <1>4
<1>6. q = [width |-> W, height |-> H, comps |-> comps, colour |-> p.colour,
           markers |-> p.markers, tables |-> p.tables, blocks |-> T]
  BY <1>1, <1>4
<1>7. /\ Fields(q) /\ q.width = W /\ q.height = H /\ q.comps = comps /\ q.colour = p.colour /\ q.blocks = T
  BY <1>6 DEF Fields
<1> HIDE DEF q0
<1>8. T = Transformed(p, q, code, 0, 0)
  <2>1. Same(p, p) BY DEF Same
  <2> QED BY <1>5, <1>7, <2>1, SameTransformed DEF T
<1> QED BY <1>2, <1>3, <1>7, <1>8 DEF Sent, q

\* A transform of a crop is the crop of the transform, partial iMCUs included.
THEOREM CropsAreOfTheWhole == Spec => []CropOfTheWhole
<1>1. IInv => CropOfTheWhole
  <2> SUFFICES ASSUME IInv, Written, Len(dst.comps) > 1,
                      NEW ci \in DOMAIN dst.blocks, NEW yx \in DOMAIN dst.blocks[ci]
               PROVE  dst.blocks[ci][yx]
                        = Apply(src, request.transform).blocks[ci]
                            [<<yx[1] + info.yo * dst.comps[ci].v, yx[2] + info.xo * dst.comps[ci].h>>]
    BY DEF CropOfTheWhole
  <2> DEFINE u == Uncropped(src, request)
             q == Apply(src, request.transform)
             y == yx[1] + info.yo * dst.comps[ci].v
             x == yx[2] + info.xo * dst.comps[ci].h
  <2>1. /\ Asked(request) /\ Reducible(src, request) /\ Whole(src) /\ Sized(src)
        /\ \A cj \in DOMAIN src.comps : DOMAIN src.blocks[cj] = Grid(src, cj)
        /\ Fits(info, u) /\ Sent(src, request, info, dst)
        /\ dst.blocks = Transformed(src, dst, request.transform, info.xo, info.yo)
        /\ Whole(dst)
    BY WrittenPlan
  <2>2. ci \in DOMAIN dst.comps /\ yx \in Grid(dst, ci) BY <2>1 DEF Whole
  <2>3. /\ y \in Nat /\ x \in Nat
        /\ x * u.iMCU_width < u.output_width * dst.comps[ci].h
        /\ y * u.iMCU_height < u.output_height * dst.comps[ci].v
        /\ dst.blocks[ci][yx] = TurnIn(src, request, ci, y, x)
    BY <2>1, <2>2, TransformedFact
  <2>4. num_components(src, request) # 1
    <3>1. ASSUME num_components(src, request) = 1 PROVE Len(dst.comps) <= 1
      <4>1. dst.comps = <<[h |-> 1, v |-> 1]>> BY <2>1, <3>1, ResampledFact DEF Sent
      <4> QED BY <4>1
    <3>2. Len(dst.comps) \in Nat BY <2>1 DEF Whole, Sized
    <3> QED BY <3>1, <3>2
  <2>5. Sent(src, request, u, q) /\ q.blocks = Transformed(src, q, request.transform, 0, 0)
    BY <2>1, <2>4, ApplyFact DEF Whole
  <2>6. q.comps = dst.comps BY <2>1, <2>5 DEF Sent
  <2> HIDE DEF q, y, x, u
  <2>7. <<y, x>> \in Grid(q, ci) BY <2>1, <2>2, <2>3, <2>5, <2>6, WholeGridded, UncutFact DEF u
  <2>8. \A zx \in Grid(q, ci) : q.blocks[ci][zx] = TurnIn(src, request, ci, zx[1], zx[2])
    <3>1. Sent(src, request, Uncropped(src, request), q) BY <2>5 DEF u
    <3>2. \A cj \in DOMAIN q.comps : \A zx \in Grid(q, cj) :
            q.blocks[cj][zx] = TurnIn(src, request, cj, zx[1], zx[2])
      <4> SUFFICES ASSUME NEW cj \in DOMAIN q.comps, NEW zx \in Grid(q, cj)
                   PROVE  q.blocks[cj][zx] = TurnIn(src, request, cj, zx[1], zx[2])
        OBVIOUS
      <4>1. Asked(request) /\ Reducible(src, request) /\ Gridded(src) BY <2>1, WholeGridded
      <4>2. q.blocks = Transformed(src, q, request.transform, 0, 0) BY <2>5
      <4> QED BY <4>1, <4>2, <3>1, UncutFact
    <3> QED BY <2>2, <2>6, <3>2
  <2>9. <<y, x>>[1] = y /\ <<y, x>>[2] = x OBVIOUS
  <2>10. q.blocks[ci][<<y, x>>] = TurnIn(src, request, ci, y, x) BY <2>7, <2>8, <2>9
  <2> QED BY <2>3, <2>10 DEF q, y, x
<1> QED BY <1>1, PicturesWhole, PTL
-------------------------------------------------------------------------------
(* What has been done to the original so far.                                     *)

LEMMA MadeFact ==
  ASSUME NEW p, NEW q, Same(p, q), NEW d, NEW e, Same(d, e), NEW r, Made(p, r, d)
  PROVE  Made(q, r, e)
<1>1. /\ Asked(r) /\ Reducible(p, r) /\ Sent(p, r, Uncropped(p, r), d) /\ d.tables = (p.tables # Swaps(r))
      /\ d.blocks = Transformed(p, d, r.transform, 0, 0)
  BY DEF Made, Copied
<1>2. /\ d.width = e.width /\ d.height = e.height /\ d.comps = e.comps
      /\ d.tables = e.tables /\ d.blocks = e.blocks /\ p.tables = q.tables
  BY DEF Same
<1>3. /\ Reducible(q, r) /\ Uncropped(p, r) = Uncropped(q, r) /\ Resampled(p, r) = Resampled(q, r)
  BY <1>1, SameFact
<1>4. Transformed(p, d, r.transform, 0, 0) = Transformed(q, e, r.transform, 0, 0)
  BY <1>2, SameTransformed
<1>5. Sent(q, r, Uncropped(q, r), e) BY <1>1, <1>2, <1>3 DEF Sent
<1>6. e.tables = (q.tables # Swaps(r)) /\ e.blocks = Transformed(q, e, r.transform, 0, 0)
  BY <1>1, <1>2, <1>4
<1> QED BY <1>1, <1>3, <1>5, <1>6 DEF Made, Copied

\* A plain run makes of the picture what it should.
LEMMA PlainRun ==
  IInv /\ Written /\ Plain(request) => Made(src, request, dst)
<1> SUFFICES ASSUME IInv, Written, Plain(request) PROVE Made(src, request, dst) OBVIOUS
<1>1. /\ Whole(src) /\ info = Trimmed(src, request, Cropped(src, request))
      /\ Copied(src, request, info, dst)
      /\ dst.blocks = Transformed(src, dst, request.transform, info.xo, info.yo)
  BY DEF IInv, Written
<1>2. ~ request.cropped /\ ~ request.trim BY DEF Plain
<1>3. info = Uncropped(src, request) BY <1>1, <1>2 DEF Trimmed, Cropped
<1>4. Uncropped(src, request).xo = 0 /\ Uncropped(src, request).yo = 0 BY DEF Uncropped
<1> QED BY <1>1, <1>3, <1>4 DEF Made

LEMMA HInvInit == Init => HInv
<1> SUFFICES ASSUME Init PROVE HInv OBVIOUS
<1>1. PICK s \in Sources : src = Picture(s) BY DEF Init
<1>2. original = src /\ applied = <<>> /\ ~ Written BY DEF Init, Written
<1>3. /\ Whole(original) /\ original.tables = FALSE
      /\ original.blocks = [ci \in DOMAIN original.comps |->
                              [yx \in Grid(original, ci) |-> BlockAt(yx[1], yx[2])]]
  BY <1>1, <1>2, PictureFact
<1>4. Same(src, original) BY <1>2 DEF Same
<1>5. applied \in Seq(Requests \cup Again) /\ Len(applied) = 0 /\ request \in Requests \cup Again
  BY <1>2 DEF Init
<1>6. First BY <1>2, <1>5 DEF First
<1> QED BY <1>2, <1>3, <1>4, <1>5, <1>6 DEF HInv

\* Before a run is written the picture changes in its markers only.
LEMMA HInvKept ==
  ASSUME HInv, ~ Written, ~ Written', applied' = applied, original' = original,
         request' = request, Same(src', src)
  PROVE  HInv'
<1>1. /\ Whole(original) /\ original.tables = FALSE
      /\ original.blocks = [ci \in DOMAIN original.comps |->
                              [yx \in Grid(original, ci) |-> BlockAt(yx[1], yx[2])]]
      /\ request \in Requests \cup Again
      /\ applied \in Seq(Requests \cup Again) /\ Len(applied) \in {0, 1}
      /\ First => Same(src, original)
      /\ ~ First /\ Plain(applied[1]) => Made(original, applied[1], src)
  BY DEF HInv
<1>2. First' <=> First BY DEF First
<1>3. (First => Same(src, original))' BY <1>1, <1>2 DEF Same
<1>4. ASSUME ~ First', Plain(applied'[1]) PROVE Made(original', applied'[1], src')
  <2>1. Made(original, applied[1], src) BY <1>1, <1>2, <1>4
  <2>2. Same(original, original') /\ Same(src, src') BY DEF Same
  <2> QED BY <2>1, <2>2, MadeFact
<1>5. (~ First /\ Plain(applied[1]) => Made(original, applied[1], src))' BY <1>4
<1>6. (/\ Whole(original) /\ original.tables = FALSE
       /\ original.blocks = [ci \in DOMAIN original.comps |->
                               [yx \in Grid(original, ci) |-> BlockAt(yx[1], yx[2])]]
       /\ request \in Requests \cup Again
       /\ applied \in Seq(Requests \cup Again) /\ Len(applied) \in {0, 1})'
  BY <1>1
<1> QED BY <1>3, <1>5, <1>6 DEF HInv

LEMMA HInvNext == IInv /\ HInv /\ [Next]_vars => HInv'
<1> SUFFICES ASSUME IInv, HInv, [Next]_vars PROVE HInv' OBVIOUS
<1>1. Fields(src) BY DEF IInv, Whole
<1>2. CASE ReadHeader
  <2>1. /\ stage = "file" /\ stage' = "header" /\ applied' = applied /\ original' = original
        /\ request' = request
        /\ src' = [src EXCEPT !.markers = SavedMarkers(src.markers, request.copy)]
    BY <1>2 DEF ReadHeader
  <2>2. Same(src', src) BY <1>1, <2>1, MarkersFact DEF Same
  <2> QED BY <2>1, <2>2, HInvKept DEF Written
<1>3. CASE Request
  <2>1. /\ stage = "header" /\ stage' \in {"refused", "requested"}
        /\ applied' = applied /\ original' = original /\ request' = request /\ src' = src
    BY <1>3 DEF Request
  <2>2. Same(src', src) BY <2>1 DEF Same
  <2> QED BY <2>1, <2>2, HInvKept DEF Written
<1>4. CASE Adjust
  <2>1. /\ stage = "requested" /\ stage' \in {"refused", "adjusted"}
        /\ applied' = applied /\ original' = original /\ request' = request
    BY <1>4 DEF Adjust
  <2>2. src' = src \/ \E m : src' = [src EXCEPT !.markers = m] BY <1>4 DEF Adjust
  <2>3. Same(src', src) BY <1>1, <2>2, MarkersFact DEF Same
  <2> QED BY <2>1, <2>3, HInvKept DEF Written
<1>5. CASE Execute
  <2>1. /\ ~ Written /\ Written' /\ src' = src /\ request' = request /\ original' = original
        /\ applied' = Append(applied, request)
    BY <1>5 DEF Execute, Written
  <2>2. /\ applied \in Seq(Requests \cup Again) /\ Len(applied) \in {0, 1}
        /\ First => Same(src, original)
        /\ ~ First /\ Plain(applied[1]) => Made(original, applied[1], src)
    BY <2>1 DEF HInv
  <2>3. request \in Requests \cup Again BY DEF HInv
  <2>4. /\ applied' \in Seq(Requests \cup Again) /\ Len(applied') = Len(applied) + 1
        /\ applied'[Len(applied')] = request
        /\ Len(applied) = 1 => applied'[1] = applied[1]
    BY <2>1, <2>2, <2>3
  <2>5. Len(applied)' \in {1, 2} /\ (First' <=> First) BY <2>1, <2>2, <2>4 DEF First
  <2>6. First \/ Len(applied) = 1 BY <2>1, <2>2 DEF First
  <2>7. (First => Same(src, original))' BY <2>1, <2>2, <2>5
  <2>8. (~ First /\ Plain(applied[1]) => Made(original, applied[1], src))'
    BY <2>1, <2>2, <2>4, <2>5, <2>6
  <2>9. (/\ Whole(original) /\ original.tables = FALSE
         /\ original.blocks = [ci \in DOMAIN original.comps |->
                                 [yx \in Grid(original, ci) |-> BlockAt(yx[1], yx[2])]])'
    BY <2>1 DEF HInv
  <2> QED BY <2>1, <2>3, <2>4, <2>5, <2>7, <2>8, <2>9 DEF HInv
<1>6. CASE NextRun
  <2>1. /\ Written /\ Len(applied) = 1 /\ ~ Written' /\ src' = dst /\ request' \in Again
        /\ applied' = applied /\ original' = original
    BY <1>6 DEF NextRun, Written
  <2>2. First /\ ~ First' BY <2>1 DEF First
  <2>3. Same(src, original) /\ applied[1] = request BY <2>1, <2>2 DEF HInv
  <2>4. ASSUME Plain(applied[1]) PROVE Made(original, applied[1], dst)
    <3>1. Made(src, request, dst) BY <2>1, <2>3, <2>4, PlainRun
    <3>2. Same(dst, dst) BY DEF Same
    <3> QED BY <2>3, <3>1, <3>2, MadeFact
  <2>5. (~ First /\ Plain(applied[1]) => Made(original, applied[1], src))' BY <2>1, <2>4
  <2>6. (/\ Whole(original) /\ original.tables = FALSE
         /\ original.blocks = [ci \in DOMAIN original.comps |->
                                 [yx \in Grid(original, ci) |-> BlockAt(yx[1], yx[2])]])'
    BY <2>1 DEF HInv
  <2>7. applied' \in Seq(Requests \cup Again) /\ Len(applied)' \in {0, 1} BY <2>1 DEF HInv
  <2>8. (request \in Requests \cup Again)' BY <2>1
  <2> QED BY <2>1, <2>2, <2>5, <2>6, <2>7, <2>8 DEF HInv
<1>7. CASE UNCHANGED vars
  <2>1. /\ stage' = stage /\ src' = src /\ request' = request /\ original' = original /\ applied' = applied
    BY <1>7 DEF vars
  <2>2. (Written' <=> Written) /\ (First' <=> First) BY <2>1 DEF Written, First
  <2>3. (/\ Whole(original) /\ original.tables = FALSE
         /\ original.blocks = [ci \in DOMAIN original.comps |->
                                 [yx \in Grid(original, ci) |-> BlockAt(yx[1], yx[2])]]
         /\ request \in Requests \cup Again /\ applied \in Seq(Requests \cup Again))'
    BY <2>1 DEF HInv
  <2>4. (First => Same(src, original))' BY <2>1, <2>2 DEF HInv
  <2>5. (~ First /\ Plain(applied[1]) => Made(original, applied[1], src))' BY <2>1, <2>2 DEF HInv
  <2>6. (/\ Len(applied) \in IF Written THEN {1, 2} ELSE {0, 1}
         /\ Written => applied[Len(applied)] = request)'
    BY <2>1, <2>2 DEF HInv
  <2> QED BY <2>3, <2>4, <2>5, <2>6 DEF HInv
<1> QED BY <1>2, <1>3, <1>4, <1>5, <1>6, <1>7 DEF Next

\* The picture read is the original or, after a plain first run, what that run makes of it.
THEOREM RunsFollowTheOriginal == Spec => [](IInv /\ HInv)
<1>1. Init => IInv /\ HInv BY IInvInit, HInvInit
<1>2. IInv /\ HInv /\ [Next]_vars => (IInv /\ HInv)' BY IInvNext, HInvNext
<1> QED BY <1>1, <1>2, PTL DEF Spec
-------------------------------------------------------------------------------
(* Samples.                                                                       *)

\* One axis: a sample lies in a block; the block and the sample in it are mirrored alike.
LEMMA SampleFact ==
  ASSUME NEW n \in Nat, NEW o \in 0 .. BlockSize - 1
  PROVE  /\ (n * BlockSize + o) \div BlockSize = n /\ (n * BlockSize + o) % BlockSize = o
         /\ \A w \in Nat : (w - n - 1) * BlockSize + (BlockSize - 1 - o) = w * BlockSize - 1 - (n * BlockSize + o)
<1>1. BlockSize \in Nat \ {0} BY BlockSizeAssumption
<1>2. (n * BlockSize + o) \div BlockSize = n /\ (n * BlockSize + o) % BlockSize = o BY <1>1
<1>3. ASSUME NEW w \in Nat
      PROVE  (w - n - 1) * BlockSize + (BlockSize - 1 - o) = w * BlockSize - 1 - (n * BlockSize + o)
  BY <1>1
<1> QED BY <1>2, <1>3

\* One axis of the output: what the plan keeps of the whole iMCUs lies within them.
LEMMA KeptFact ==
  ASSUME NEW n \in Nat, NEW o \in Nat, NEW part \in Nat, NEW size \in Nat, NEW unit \in Nat \ {0},
         NEW f \in Nat \ {0}, n * unit < part * f, o * unit + part <= (size \div unit) * unit
  PROVE  n + o * f < (size \div unit) * f
<1> DEFINE q == size \div unit
           x == n + o * f
<1>1. q \in Nat BY DivFact
<1>2. x \in Nat OBVIOUS
<1> HIDE DEF q
<1>3. q * unit \in Nat BY <1>1
<1>4. o * unit + part <= q * unit BY DEF q
<1>5. (n + o * f) * unit < (q * unit) * f BY <1>3, <1>4, CutFact
<1> HIDE DEF x
<1>6. x * unit < (q * f) * unit
  <2>1. (q * unit) * f = (q * f) * unit BY <1>1
  <2> QED BY <1>5, <2>1 DEF x
<1>7. q * f \in Nat BY <1>1
<1> DEFINE z == q * f
<1> HIDE DEF z
<1>8. x < z
  <2>1. x * unit < z * unit /\ z \in Nat BY <1>6, <1>7 DEF z
  <2>2. z <= x => z * unit <= x * unit BY <1>2, <2>1
  <2>3. z * unit \in Nat /\ x * unit \in Nat BY <1>2, <2>1
  <2> QED BY <1>2, <2>1, <2>2, <2>3
<1> QED BY <1>8 DEF x, z, q

\* Every sample of a transformed picture is the one geometry puts there, unless a partial
\* iMCU is in the way of the mirror: for every size, sampling, crop and trim.
THEOREM EverySampleInPlace == Spec => []SamplesInPlace
<1>1. IInv /\ HInv => SamplesInPlace
  <2> DEFINE u == Uncropped(src, request)
             swap == request.transform \in Transposing
             wholeX == (IF swap THEN src.height ELSE src.width) \div info.iMCU_width
             wholeY == (IF swap THEN src.width ELSE src.height) \div info.iMCU_height
  <2>1. ASSUME IInv, HInv, Written, Len(applied) = 1, NEW ci \in DOMAIN dst.blocks,
               ~ (MirrorsX /\ info.xo * info.iMCU_width + dst.width > wholeX * info.iMCU_width),
               ~ (MirrorsY /\ info.yo * info.iMCU_height + dst.height > wholeY * info.iMCU_height),
               NEW yx \in DOMAIN dst.blocks[ci], NEW oy \in 0 .. BlockSize - 1, NEW ox \in 0 .. BlockSize - 1
        PROVE  LET c == dst.comps[ci]
                   fullX == wholeX * c.h * BlockSize    fullY == wholeY * c.v * BlockSize
                   y == yx[1] * BlockSize + oy    x == yx[2] * BlockSize + ox
                   Y == y + info.yo * c.v * BlockSize    X == x + info.xo * c.h * BlockSize
                   row == IF MirrorsY THEN fullY - 1 - Y ELSE Y
                   col == IF MirrorsX THEN fullX - 1 - X ELSE X
               IN Pixel(dst, ci, y, x) = IF swap THEN <<col, row>> ELSE <<row, col>>
    <3> DEFINE c == dst.comps[ci]
               y == yx[1] + info.yo * c.v
               x == yx[2] + info.xo * c.h
               cw == wholeX * c.h
               ch == wholeY * c.v
    <3>1. /\ Asked(request) /\ Reducible(src, request) /\ Whole(src) /\ Sized(src)
          /\ \A cj \in DOMAIN src.comps : DOMAIN src.blocks[cj] = Grid(src, cj)
          /\ Fits(info, u) /\ Sent(src, request, info, dst)
          /\ dst.blocks = Transformed(src, dst, request.transform, info.xo, info.yo)
          /\ Whole(dst)
      BY <2>1, WrittenPlan
    <3>2. ci \in DOMAIN dst.comps /\ yx \in Grid(dst, ci) BY <2>1, <3>1 DEF Whole
    <3>3. /\ y \in Nat /\ x \in Nat
          /\ x * u.iMCU_width < u.output_width * c.h
          /\ y * u.iMCU_height < u.output_height * c.v
          /\ dst.blocks[ci][yx] = TurnIn(src, request, ci, y, x)
      BY <3>1, <3>2, TransformedFact
    <3>4. /\ u.output_width \in Nat \ {0} /\ u.output_height \in Nat \ {0}
          /\ u.iMCU_width \in Nat \ {0} /\ u.iMCU_height \in Nat \ {0}
      BY <3>1, UncroppedFact
    <3>5. c.h \in Nat \ {0} /\ c.v \in Nat \ {0}
      <4>1. dst.comps \in Seq(Sampling) BY <3>1 DEF Whole, Sized
      <4>2. c \in Sampling BY <3>2, <4>1
      <4> QED BY <4>2 DEF Sampling
    <3>6. /\ dst.comps = Resampled(src, request) /\ ci \in DOMAIN src.comps
          /\ max_h(dst.comps) * BlockSize = u.iMCU_width /\ max_v(dst.comps) * BlockSize = u.iMCU_height
      BY <3>1, <3>2, ResampledFact DEF Sent
    <3>7. WholeAcross(src, request, ci) = cw /\ WholeDown(src, request, ci) = ch
      BY <3>1, <3>6 DEF WholeAcross, WholeDown, Fits, Uncropped
    <3>7a. /\ info.iMCU_width = u.iMCU_width /\ wholeX = u.output_width \div u.iMCU_width
           /\ info.iMCU_height = u.iMCU_height /\ wholeY = u.output_height \div u.iMCU_height
      BY <3>1 DEF Fits, Uncropped
    <3> HIDE DEF u, c, y, x, wholeX, wholeY
    <3>8. PlaceIn(src, request, ci, y, x) \in Grid(src, ci) /\ cw \in Nat /\ ch \in Nat
      BY <3>1, <3>2, <3>3, <3>6, <3>7, PlaceFact DEF u, c
    <3>9. /\ yx[1] \in Nat /\ yx[1] * u.iMCU_height < dst.height * c.v
          /\ yx[2] \in Nat /\ yx[2] * u.iMCU_width < dst.width * c.h
          /\ yx = <<yx[1], yx[2]>>
      <4>1. /\ width_in_blocks(dst, ci) \in Nat /\ height_in_blocks(dst, ci) \in Nat
            /\ \A n \in Nat : n < width_in_blocks(dst, ci) <=> n * u.iMCU_width < dst.width * c.h
            /\ \A n \in Nat : n < height_in_blocks(dst, ci) <=> n * u.iMCU_height < dst.height * c.v
        BY <3>1, <3>2, <3>6, GridFact DEF Whole, c
      <4>2. /\ yx[1] \in 0 .. height_in_blocks(dst, ci) - 1 /\ yx[2] \in 0 .. width_in_blocks(dst, ci) - 1
            /\ yx = <<yx[1], yx[2]>>
        BY <3>2 DEF Grid
      <4> QED BY <4>1, <4>2
    <3>10. info.xo \in Nat /\ info.yo \in Nat /\ dst.width \in Nat /\ dst.height \in Nat
      BY <3>1 DEF Fits, Sent
    <3>11. MirrorsX => x < cw
      <4> SUFFICES ASSUME MirrorsX PROVE x < cw OBVIOUS
      <4>1. info.xo * u.iMCU_width + dst.width <= wholeX * u.iMCU_width
        <5>1. wholeX \in Nat BY <3>4, <3>7a, DivFact
        <5>2. wholeX * u.iMCU_width \in Nat /\ info.xo * u.iMCU_width + dst.width \in Nat
          BY <3>4, <3>10, <5>1
        <5> QED BY <2>1, <3>7a, <5>2
      <4> QED BY <3>4, <3>5, <3>9, <3>10, <3>7a, <4>1, KeptFact DEF x
    <3>12. MirrorsY => y < ch
      <4> SUFFICES ASSUME MirrorsY PROVE y < ch OBVIOUS
      <4>1. info.yo * u.iMCU_height + dst.height <= wholeY * u.iMCU_height
        <5>1. wholeY \in Nat BY <3>4, <3>7a, DivFact
        <5>2. wholeY * u.iMCU_height \in Nat /\ info.yo * u.iMCU_height + dst.height \in Nat
          BY <3>4, <3>10, <5>1
        <5> QED BY <2>1, <3>7a, <5>2
      <4> QED BY <3>4, <3>5, <3>9, <3>10, <3>7a, <4>1, KeptFact DEF y
    <3> DEFINE across == request.transform \in Across /\ x < cw
               down == request.transform \in Down /\ y < ch
               r == IF down THEN ch - y - 1 ELSE y
               cc == IF across THEN cw - x - 1 ELSE x
               P == IF swap THEN <<cc, r>> ELSE <<r, cc>>
    <3>13. (across <=> MirrorsX) /\ (down <=> MirrorsY)
      BY <3>11, <3>12 DEF MirrorsX, MirrorsY, Across, Down
    <3>14. PlaceIn(src, request, ci, y, x) = P BY <3>7 DEF PlaceIn, Place
    <3>15. src.blocks[ci][P] = BlockAt(P[1], P[2])
      <4>1. Same(src, original) BY <2>1 DEF HInv, First
      <4>2. Grid(src, ci) = Grid(original, ci) /\ src.blocks = original.blocks /\ src.comps = original.comps
        BY <4>1, SameFact DEF Same
      <4>3. original.blocks = [cj \in DOMAIN original.comps |->
                                 [zx \in Grid(original, cj) |-> BlockAt(zx[1], zx[2])]]
        BY <2>1 DEF HInv
      <4>4. P \in Grid(original, ci) BY <3>8, <3>14, <4>2
      <4> HIDE DEF P
      <4> QED BY <3>6, <4>2, <4>3, <4>4
    <3>16. dst.blocks[ci][yx] = [y |-> P[1], x |-> P[2], tr |-> swap, fh |-> across, fv |-> down]
      <4>1. dst.blocks[ci][yx] = Turn(request.transform, src.blocks[ci][P], across, down)
        BY <3>3, <3>7, <3>14 DEF TurnIn
      <4>2. BlockAt(P[1], P[2]) \in Blocks
        BY <3>1, <3>6, <3>8, <3>14, <3>15 DEF Whole
      <4>3. across \in BOOLEAN /\ down \in BOOLEAN OBVIOUS
      <4> DEFINE b == BlockAt(P[1], P[2])
      <4>4. b.y = P[1] /\ b.x = P[2] /\ b.tr = FALSE /\ b.fh = FALSE /\ b.fv = FALSE BY DEF BlockAt
      <4> HIDE DEF across, down, P, b
      <4>5. Turn(request.transform, b, across, down)
              = [y |-> b.y, x |-> b.x, tr |-> (b.tr # swap),
                 fh |-> ((IF swap THEN b.fv ELSE b.fh) # across),
                 fv |-> ((IF swap THEN b.fh ELSE b.fv) # down)]
        BY <4>2, <4>3, TurnFact DEF b
      <4>6. /\ (b.tr # swap) = swap /\ ((IF swap THEN b.fv ELSE b.fh) # across) = across
            /\ ((IF swap THEN b.fh ELSE b.fv) # down) = down
        <5>1. \A v \in BOOLEAN : (FALSE # v) = v OBVIOUS
        <5>2. swap \in BOOLEAN /\ (IF swap THEN b.fv ELSE b.fh) = FALSE /\ (IF swap THEN b.fh ELSE b.fv) = FALSE
          BY <4>4
        <5> QED BY <4>3, <4>4, <5>1, <5>2, Zenon
      <4>7. Turn(request.transform, b, across, down)
              = [y |-> P[1], x |-> P[2], tr |-> swap, fh |-> across, fv |-> down]
        BY <4>4, <4>5, <4>6, Zenon
      <4> QED BY <3>15, <4>1, <4>7 DEF b
    <3> DEFINE b == dst.blocks[ci][yx]
    <3>17. /\ b.y = (IF swap THEN cc ELSE r) /\ b.x = (IF swap THEN r ELSE cc)
           /\ b.tr = swap /\ b.fh = across /\ b.fv = down
      <4>1. P[1] = (IF swap THEN cc ELSE r) /\ P[2] = (IF swap THEN r ELSE cc)
        <5> HIDE DEF cc, r
        <5> QED OBVIOUS
      <4>2. b = [y |-> P[1], x |-> P[2], tr |-> swap, fh |-> across, fv |-> down] BY <3>16
      <4> HIDE DEF P, cc, r, across, down, b
      <4> QED BY <4>1, <4>2
    <3> DEFINE row == IF down THEN ch * BlockSize - 1 - (y * BlockSize + oy) ELSE y * BlockSize + oy
               col == IF across THEN cw * BlockSize - 1 - (x * BlockSize + ox) ELSE x * BlockSize + ox
    <3>18. Pixel(dst, ci, yx[1] * BlockSize + oy, yx[2] * BlockSize + ox)
             = IF swap THEN <<col, row>> ELSE <<row, col>>
      <4> DEFINE sr == IF down THEN BlockSize - 1 - oy ELSE oy
                 sc == IF across THEN BlockSize - 1 - ox ELSE ox
                 Y == yx[1] * BlockSize + oy
                 X == yx[2] * BlockSize + ox
      <4>1. /\ Y \div BlockSize = yx[1] /\ Y % BlockSize = oy
            /\ X \div BlockSize = yx[2] /\ X % BlockSize = ox
        BY <3>9, SampleFact
      <4>2. r * BlockSize + sr = row
        <5> HIDE DEF ch, down
        <5> QED BY <3>3, <3>8, SampleFact
      <4>3. cc * BlockSize + sc = col
        <5> HIDE DEF cw, across
        <5> QED BY <3>3, <3>8, SampleFact
      <4> HIDE DEF across, down, r, cc, sr, sc, row, col, Y, X, b
      <4>4. dst.blocks[ci][<<Y \div BlockSize, X \div BlockSize>>] = b BY <3>9, <4>1 DEF b
      <4>5. Pixel(dst, ci, Y, X) = IF b.tr THEN <<b.y * BlockSize + sc, b.x * BlockSize + sr>>
                                   ELSE <<b.y * BlockSize + sr, b.x * BlockSize + sc>>
        BY <3>17, <4>1, <4>4 DEF Pixel, sr, sc
      <4>6. Pixel(dst, ci, Y, X) = IF swap THEN <<col, row>> ELSE <<row, col>>
        <5>1. CASE swap BY <3>17, <4>2, <4>3, <4>5, <5>1
        <5>2. CASE ~ swap BY <3>17, <4>2, <4>3, <4>5, <5>2
        <5> QED BY <5>1, <5>2
      <4> QED BY <4>6 DEF row, col, Y, X
    <3>19. /\ y * BlockSize + oy = yx[1] * BlockSize + oy + info.yo * c.v * BlockSize
           /\ x * BlockSize + ox = yx[2] * BlockSize + ox + info.xo * c.h * BlockSize
      <4>1. \A n, z, k, l \in Nat : (n + z) * k + l = n * k + l + z * k OBVIOUS
      <4>2. info.yo * c.v \in Nat /\ info.xo * c.h \in Nat BY <3>5, <3>10
      <4>3. BlockSize \in Nat BY BlockSizeAssumption
      <4> QED BY <3>9, <4>1, <4>2, <4>3 DEF y, x
    <3> HIDE DEF across, down
    <3> QED BY <3>13, <3>18, <3>19 DEF c, cw, ch
  <2> QED BY <2>1 DEF SamplesInPlace
<1> QED BY <1>1, RunsFollowTheOriginal, PTL
-------------------------------------------------------------------------------
(* Transforms one after the other.                                                *)

LEMMA BlockAlgebra ==
  ASSUME NEW b \in Blocks
  PROVE  /\ MirrorH(b) \in Blocks /\ MirrorV(b) \in Blocks /\ TransposeB(b) \in Blocks
         /\ MirrorH(MirrorH(b)) = b /\ MirrorV(MirrorV(b)) = b /\ TransposeB(TransposeB(b)) = b
         /\ MirrorH(MirrorV(b)) = MirrorV(MirrorH(b))
         /\ TransposeB(MirrorH(b)) = MirrorV(TransposeB(b))
         /\ TransposeB(MirrorV(b)) = MirrorH(TransposeB(b))
<1>1. ASSUME NEW c \in Blocks
      PROVE  /\ MirrorH(c) = [y |-> c.y, x |-> c.x, tr |-> c.tr, fh |-> ~ c.fh, fv |-> c.fv]
             /\ MirrorV(c) = [y |-> c.y, x |-> c.x, tr |-> c.tr, fh |-> c.fh, fv |-> ~ c.fv]
             /\ c = [y |-> c.y, x |-> c.x, tr |-> c.tr, fh |-> c.fh, fv |-> c.fv]
  <2>1. MirrorH(c) = [y |-> c.y, x |-> c.x, tr |-> c.tr, fh |-> ~ c.fh, fv |-> c.fv]
    BY DEF MirrorH, Blocks
  <2>2. MirrorV(c) = [y |-> c.y, x |-> c.x, tr |-> c.tr, fh |-> c.fh, fv |-> ~ c.fv]
    BY DEF MirrorV, Blocks
  <2>3. c = [y |-> c.y, x |-> c.x, tr |-> c.tr, fh |-> c.fh, fv |-> c.fv] BY DEF Blocks
  <2> QED BY <2>1, <2>2, <2>3
<1>2. \A c \in Blocks : MirrorH(c) \in Blocks /\ MirrorV(c) \in Blocks /\ TransposeB(c) \in Blocks
  BY DEF MirrorH, MirrorV, TransposeB, Blocks
<1>3. b.fh \in BOOLEAN /\ b.fv \in BOOLEAN /\ b.tr \in BOOLEAN BY DEF Blocks
<1>4. ~ ~ b.fh = b.fh /\ ~ ~ b.fv = b.fv /\ ~ ~ b.tr = b.tr BY <1>3
<1> DEFINE mh == MirrorH(b)
           mv == MirrorV(b)
           t == TransposeB(b)
<1>5. /\ mh.y = b.y /\ mh.x = b.x /\ mh.tr = b.tr /\ mh.fh = ~ b.fh /\ mh.fv = b.fv
      /\ mv.y = b.y /\ mv.x = b.x /\ mv.tr = b.tr /\ mv.fh = b.fh /\ mv.fv = ~ b.fv
      /\ t.y = b.y /\ t.x = b.x /\ t.tr = ~ b.tr /\ t.fh = b.fv /\ t.fv = b.fh
  BY <1>1 DEF TransposeB
<1>6. mh \in Blocks /\ mv \in Blocks /\ t \in Blocks BY <1>2
<1> HIDE DEF mh, mv, t
<1>7. /\ MirrorH(mh) = [y |-> b.y, x |-> b.x, tr |-> b.tr, fh |-> ~ ~ b.fh, fv |-> b.fv]
      /\ MirrorV(mv) = [y |-> b.y, x |-> b.x, tr |-> b.tr, fh |-> b.fh, fv |-> ~ ~ b.fv]
      /\ MirrorH(mv) = [y |-> b.y, x |-> b.x, tr |-> b.tr, fh |-> ~ b.fh, fv |-> ~ b.fv]
      /\ MirrorV(mh) = [y |-> b.y, x |-> b.x, tr |-> b.tr, fh |-> ~ b.fh, fv |-> ~ b.fv]
      /\ MirrorH(t) = [y |-> b.y, x |-> b.x, tr |-> ~ b.tr, fh |-> ~ b.fv, fv |-> b.fh]
      /\ MirrorV(t) = [y |-> b.y, x |-> b.x, tr |-> ~ b.tr, fh |-> b.fv, fv |-> ~ b.fh]
  <2>1. MirrorH(mh) = [y |-> b.y, x |-> b.x, tr |-> b.tr, fh |-> ~ ~ b.fh, fv |-> b.fv]
    <3>1. MirrorH(mh) = [y |-> mh.y, x |-> mh.x, tr |-> mh.tr, fh |-> ~ mh.fh, fv |-> mh.fv] BY <1>1, <1>6
    <3> QED BY <1>5, <3>1, Zenon
  <2>2. MirrorV(mv) = [y |-> b.y, x |-> b.x, tr |-> b.tr, fh |-> b.fh, fv |-> ~ ~ b.fv]
    <3>1. MirrorV(mv) = [y |-> mv.y, x |-> mv.x, tr |-> mv.tr, fh |-> mv.fh, fv |-> ~ mv.fv] BY <1>1, <1>6
    <3> QED BY <1>5, <3>1, Zenon
  <2>3. MirrorH(mv) = [y |-> b.y, x |-> b.x, tr |-> b.tr, fh |-> ~ b.fh, fv |-> ~ b.fv]
    <3>1. MirrorH(mv) = [y |-> mv.y, x |-> mv.x, tr |-> mv.tr, fh |-> ~ mv.fh, fv |-> mv.fv] BY <1>1, <1>6
    <3> QED BY <1>5, <3>1, Zenon
  <2>4. MirrorV(mh) = [y |-> b.y, x |-> b.x, tr |-> b.tr, fh |-> ~ b.fh, fv |-> ~ b.fv]
    <3>1. MirrorV(mh) = [y |-> mh.y, x |-> mh.x, tr |-> mh.tr, fh |-> mh.fh, fv |-> ~ mh.fv] BY <1>1, <1>6
    <3> QED BY <1>5, <3>1, Zenon
  <2>5. MirrorH(t) = [y |-> b.y, x |-> b.x, tr |-> ~ b.tr, fh |-> ~ b.fv, fv |-> b.fh]
    <3>1. MirrorH(t) = [y |-> t.y, x |-> t.x, tr |-> t.tr, fh |-> ~ t.fh, fv |-> t.fv] BY <1>1, <1>6
    <3> QED BY <1>5, <3>1, Zenon
  <2>6. MirrorV(t) = [y |-> b.y, x |-> b.x, tr |-> ~ b.tr, fh |-> b.fv, fv |-> ~ b.fh]
    <3>1. MirrorV(t) = [y |-> t.y, x |-> t.x, tr |-> t.tr, fh |-> t.fh, fv |-> ~ t.fv] BY <1>1, <1>6
    <3> QED BY <1>5, <3>1, Zenon
  <2> QED BY <2>1, <2>2, <2>3, <2>4, <2>5, <2>6
<1>8. /\ TransposeB(t) = [y |-> b.y, x |-> b.x, tr |-> ~ ~ b.tr, fh |-> b.fh, fv |-> b.fv]
      /\ TransposeB(mh) = [y |-> b.y, x |-> b.x, tr |-> ~ b.tr, fh |-> b.fv, fv |-> ~ b.fh]
      /\ TransposeB(mv) = [y |-> b.y, x |-> b.x, tr |-> ~ b.tr, fh |-> ~ b.fv, fv |-> b.fh]
  BY <1>5, Zenon DEF TransposeB
<1>9. b = [y |-> b.y, x |-> b.x, tr |-> b.tr, fh |-> b.fh, fv |-> b.fv] BY <1>1
<1>10. MirrorH(mh) = b /\ MirrorV(mv) = b /\ TransposeB(t) = b
  <2>1. MirrorH(mh) = b BY <1>3, <1>7, <1>9, SMT
  <2>2. MirrorV(mv) = b BY <1>3, <1>7, <1>9, SMT
  <2>3. TransposeB(t) = b BY <1>3, <1>8, <1>9, SMT
  <2> QED BY <2>1, <2>2, <2>3
<1>11. MirrorH(mv) = MirrorV(mh) /\ TransposeB(mh) = MirrorV(t) /\ TransposeB(mv) = MirrorH(t)
  BY <1>7, <1>8, Zenon
<1> QED BY <1>2, <1>10, <1>11 DEF mh, mv, t

\* The axes of the output, in a component: samples, samples of an iMCU, blocks of an iMCU.
Horizontal(p, r, ci) ==
  [size |-> Uncropped(p, r).output_width, unit |-> Uncropped(p, r).iMCU_width,
   factor |-> Resampled(p, r)[ci].h]
Vertical(p, r, ci) ==
  [size |-> Uncropped(p, r).output_height, unit |-> Uncropped(p, r).iMCU_height,
   factor |-> Resampled(p, r)[ci].v]
Plainly(code) == [transform |-> code, cropped |-> FALSE, trim |-> FALSE, grayscale |-> FALSE]
Wide(p, ci) == WholeAcross(p, Plainly("none"), ci)
Tall(p, ci) == WholeDown(p, Plainly("none"), ci)

LEMMA PlainlyFact ==
  ASSUME NEW code \in Transforms, NEW p
  PROVE  Asked(Plainly(code)) /\ Reducible(p, Plainly(code)) /\ Plainly(code).transform = code
BY DEF Plainly, Asked, Reducible

\* A transposition exchanges the axes.
LEMMA AxesFact ==
  ASSUME NEW p, Sized(p), NEW r, Asked(r), ~ r.grayscale, NEW ci \in DOMAIN Resampled(p, r)
  PROVE  LET none == Plainly("none")
         IN /\ ci \in DOMAIN Resampled(p, none)
            /\ Horizontal(p, r, ci) = IF Swaps(r) THEN Vertical(p, none, ci) ELSE Horizontal(p, none, ci)
            /\ Vertical(p, r, ci) = IF Swaps(r) THEN Horizontal(p, none, ci) ELSE Vertical(p, none, ci)
            /\ WholeAcross(p, r, ci) = IF Swaps(r) THEN Tall(p, ci) ELSE Wide(p, ci)
            /\ WholeDown(p, r, ci) = IF Swaps(r) THEN Wide(p, ci) ELSE Tall(p, ci)
<1> DEFINE none == Plainly("none")
<1>1. /\ Asked(none) /\ Reducible(p, none) /\ ~ none.grayscale /\ ~ Swaps(none)
  BY PlainlyFact DEF Transforms, Plainly, Swaps, Transposing
<1>2. num_components(p, r) = num_components(p, none) BY <1>1 DEF num_components
<1>3. Reducible(p, r) BY DEF Reducible
<1> HIDE DEF none
<1>4. /\ Uncropped(p, r).output_width = IF Swaps(r) THEN p.height ELSE p.width
      /\ Uncropped(p, r).output_height = IF Swaps(r) THEN p.width ELSE p.height
      /\ Uncropped(p, none).output_width = p.width /\ Uncropped(p, none).output_height = p.height
  BY <1>1 DEF Uncropped, Swaps
<1> DEFINE mw == IF num_components(p, r) = 1 THEN BlockSize ELSE max_h(p.comps) * BlockSize
           mh == IF num_components(p, r) = 1 THEN BlockSize ELSE max_v(p.comps) * BlockSize
<1>5. /\ Uncropped(p, r).iMCU_width = IF Swaps(r) THEN mh ELSE mw
      /\ Uncropped(p, r).iMCU_height = IF Swaps(r) THEN mw ELSE mh
      /\ Uncropped(p, none).iMCU_width = mw /\ Uncropped(p, none).iMCU_height = mh
  BY <1>1, <1>2 DEF Uncropped, Swaps
<1>6. /\ ci \in DOMAIN Resampled(p, none)
      /\ Resampled(p, r)[ci].h = IF Swaps(r) THEN Resampled(p, none)[ci].v ELSE Resampled(p, none)[ci].h
      /\ Resampled(p, r)[ci].v = IF Swaps(r) THEN Resampled(p, none)[ci].h ELSE Resampled(p, none)[ci].v
  <2>1. CASE num_components(p, r) = 1
    <3>1. Resampled(p, r) = <<[h |-> 1, v |-> 1]>> /\ Resampled(p, none) = <<[h |-> 1, v |-> 1]>>
      BY <1>1, <1>2, <1>3, <2>1, ResampledFact
    <3> QED BY <3>1
  <2>2. CASE num_components(p, r) # 1
    <3>1. /\ DOMAIN Resampled(p, r) = DOMAIN p.comps /\ DOMAIN Resampled(p, none) = DOMAIN p.comps
          /\ Resampled(p, r)[ci].h = IF Swaps(r) THEN p.comps[ci].v ELSE p.comps[ci].h
          /\ Resampled(p, r)[ci].v = IF Swaps(r) THEN p.comps[ci].h ELSE p.comps[ci].v
      BY <1>1, <1>2, <1>3, <2>2, ResampledFact
    <3>2. Resampled(p, none)[ci].h = p.comps[ci].h /\ Resampled(p, none)[ci].v = p.comps[ci].v
      BY <1>1, <1>2, <2>2, <3>1, ResampledFact
    <3> QED BY <3>1, <3>2
  <2> QED BY <2>1, <2>2
<1> HIDE DEF mw, mh
<1>7. /\ Horizontal(p, r, ci) = IF Swaps(r) THEN Vertical(p, none, ci) ELSE Horizontal(p, none, ci)
      /\ Vertical(p, r, ci) = IF Swaps(r) THEN Horizontal(p, none, ci) ELSE Vertical(p, none, ci)
  BY <1>4, <1>5, <1>6 DEF Horizontal, Vertical
<1>8. /\ WholeAcross(p, r, ci) = IF Swaps(r) THEN Tall(p, ci) ELSE Wide(p, ci)
      /\ WholeDown(p, r, ci) = IF Swaps(r) THEN Wide(p, ci) ELSE Tall(p, ci)
  BY <1>4, <1>5, <1>6 DEF WholeAcross, WholeDown, Wide, Tall, none
<1> QED BY <1>6, <1>7, <1>8 DEF none

\* The output, read again, has the axes it was written with.
LEMMA ChainFact ==
  ASSUME NEW p, Sized(p), NEW r, Asked(r), ~ r.grayscale, NEW d, Sized(d), Sent(p, r, Uncropped(p, r), d),
         NEW ci \in DOMAIN d.comps
  PROVE  LET none == Plainly("none")
         IN /\ ci \in DOMAIN Resampled(d, none)
            /\ DOMAIN Resampled(d, none) = DOMAIN d.comps
            /\ DOMAIN d.comps = DOMAIN p.comps
            /\ Horizontal(d, none, ci) = Horizontal(p, r, ci) /\ Vertical(d, none, ci) = Vertical(p, r, ci)
            /\ Wide(d, ci) = WholeAcross(p, r, ci) /\ Tall(d, ci) = WholeDown(p, r, ci)
<1> DEFINE none == Plainly("none")
<1>1. /\ Asked(none) /\ Reducible(d, none) /\ ~ none.grayscale /\ ~ Swaps(none) /\ Reducible(p, r)
  BY PlainlyFact DEF Transforms, Plainly, Swaps, Transposing, Reducible
<1>2. num_components(p, r) = Len(p.comps) /\ num_components(d, none) = Len(d.comps)
  BY <1>1 DEF num_components
<1> HIDE DEF none
<1>3. d.comps = Resampled(p, r) /\ d.width = Uncropped(p, r).output_width
      /\ d.height = Uncropped(p, r).output_height
  BY DEF Sent
<1>4. max_h(d.comps) * BlockSize = Uncropped(p, r).iMCU_width
      /\ max_v(d.comps) * BlockSize = Uncropped(p, r).iMCU_height
  BY <1>1, <1>3, ResampledFact
<1>5. /\ Len(p.comps) \in Nat /\ Len(p.comps) > 0 /\ DOMAIN p.comps = 1 .. Len(p.comps)
      /\ Len(d.comps) \in Nat /\ Len(d.comps) > 0 /\ DOMAIN d.comps = 1 .. Len(d.comps)
  BY DEF Sized
<1>6. Uncropped(d, none).output_width = d.width /\ Uncropped(d, none).output_height = d.height
  BY <1>1 DEF Uncropped, Swaps
<1>7. CASE num_components(p, r) = 1
  <2>1. d.comps = <<[h |-> 1, v |-> 1]>> BY <1>1, <1>3, <1>7, ResampledFact
  <2>2. DOMAIN d.comps = {1} BY <2>1
  <2>3. num_components(d, none) = 1
    <3> DEFINE n == Len(d.comps)
               m == num_components(d, none)
    <3>1. m = n /\ n \in Nat /\ 1 .. n = {1} BY <1>2, <1>5, <2>2
    <3> HIDE DEF n, m
    <3>2. n = 1 BY <3>1
    <3>3. m = 1 BY <3>1, <3>2
    <3> QED BY <3>3 DEF m
  <2>4. DOMAIN p.comps = {1}
    <3> DEFINE n == Len(p.comps)
    <3>1. n = 1 /\ DOMAIN p.comps = 1 .. n BY <1>2, <1>5, <1>7
    <3> HIDE DEF n
    <3> QED BY <3>1
  <2>5. Resampled(d, none) = <<[h |-> 1, v |-> 1]>> BY <1>1, <2>3, ResampledFact
  <2>6. Resampled(d, none) = Resampled(p, r) BY <1>3, <2>1, <2>5
  <2>7. /\ Uncropped(d, none).iMCU_width = BlockSize /\ Uncropped(d, none).iMCU_height = BlockSize
        /\ Uncropped(p, r).iMCU_width = BlockSize /\ Uncropped(p, r).iMCU_height = BlockSize
    BY <1>7, <2>3 DEF Uncropped
  <2> QED BY <1>3, <1>6, <2>2, <2>4, <2>6, <2>7 DEF Horizontal, Vertical, Wide, Tall, WholeAcross, WholeDown, none
<1>8. CASE num_components(p, r) # 1
  <2>1. DOMAIN d.comps = DOMAIN p.comps BY <1>1, <1>3, <1>8, ResampledFact
  <2>2. num_components(d, none) # 1
    <3> DEFINE n == Len(d.comps)
               k == Len(p.comps)
               m == num_components(d, none)
               j == num_components(p, r)
    <3>1. m = n /\ j = k /\ n \in Nat /\ k \in Nat /\ 1 .. n = 1 .. k /\ j # 1 /\ n > 0 /\ k > 0
      BY <1>2, <1>5, <1>8, <2>1
    <3> HIDE DEF n, m, k, j
    <3>2. n \in 1 .. n /\ k \in 1 .. k BY <3>1
    <3>3. n = k BY <3>1, <3>2
    <3>4. m # 1 BY <3>1, <3>3
    <3> QED BY <3>4 DEF m
  <2>3. /\ DOMAIN Resampled(d, none) = DOMAIN d.comps
        /\ Resampled(d, none)[ci].h = d.comps[ci].h /\ Resampled(d, none)[ci].v = d.comps[ci].v
    BY <1>1, <2>2, ResampledFact
  <2>4. /\ Uncropped(d, none).iMCU_width = max_h(d.comps) * BlockSize
        /\ Uncropped(d, none).iMCU_height = max_v(d.comps) * BlockSize
    BY <1>1, <2>2 DEF Uncropped, Swaps
  <2> QED BY <1>3, <1>4, <1>6, <2>1, <2>3, <2>4 DEF Horizontal, Vertical, Wide, Tall, WholeAcross, WholeDown, none
<1> QED BY <1>7, <1>8

\* The place and the turn of a block in a component whose whole iMCUs are W by H blocks.
CwOf(code, W, H) == IF code \in Transposing THEN H ELSE W
ChOf(code, W, H) == IF code \in Transposing THEN W ELSE H
At(code, y, x, W, H) == Place(code, y, x, CwOf(code, W, H), ChOf(code, W, H))
Turned(code, b, y, x, W, H) ==
  Turn(code, b, code \in Across /\ x < CwOf(code, W, H), code \in Down /\ y < ChOf(code, W, H))
Mirrored(n, w) == IF n < w THEN w - n - 1 ELSE n
MirroredH(n, w, b) == IF n < w THEN MirrorH(b) ELSE b
MirroredV(n, w, b) == IF n < w THEN MirrorV(b) ELSE b

LEMMA RoutinesFact ==
  ASSUME NEW y, NEW x, NEW W, NEW H
  PROVE  /\ At("none", y, x, W, H) = <<y, x>>
         /\ At("flip_h", y, x, W, H) = <<y, Mirrored(x, W)>>
         /\ At("flip_v", y, x, W, H) = <<Mirrored(y, H), x>>
         /\ At("rot180", y, x, W, H) = <<Mirrored(y, H), Mirrored(x, W)>>
         /\ At("transpose", y, x, W, H) = <<x, y>>
         /\ At("transverse", y, x, W, H) = <<Mirrored(x, H), Mirrored(y, W)>>
         /\ At("rot90", y, x, W, H) = <<Mirrored(x, H), y>>
         /\ At("rot270", y, x, W, H) = <<x, Mirrored(y, W)>>
<1> USE DEF At, Place, CwOf, ChOf, Transposing, Across, Down, Mirrored
<1>1. At("none", y, x, W, H) = <<y, x>> OBVIOUS
<1>2. At("flip_h", y, x, W, H) = <<y, Mirrored(x, W)>> OBVIOUS
<1>3. At("flip_v", y, x, W, H) = <<Mirrored(y, H), x>> OBVIOUS
<1>4. At("rot180", y, x, W, H) = <<Mirrored(y, H), Mirrored(x, W)>> OBVIOUS
<1>5. At("transpose", y, x, W, H) = <<x, y>> OBVIOUS
<1>6. At("transverse", y, x, W, H) = <<Mirrored(x, H), Mirrored(y, W)>> OBVIOUS
<1>7. At("rot90", y, x, W, H) = <<Mirrored(x, H), y>> OBVIOUS
<1>8. At("rot270", y, x, W, H) = <<x, Mirrored(y, W)>> OBVIOUS
<1> HIDE DEF At, Mirrored
<1> QED BY <1>1, <1>2, <1>3, <1>4, <1>5, <1>6, <1>7, <1>8

\* A block once mirrored is mirrored where its mirror image was.
LEMMA MirroredFact ==
  ASSUME NEW n \in Nat, NEW w \in Nat
  PROVE  /\ Mirrored(n, w) \in Nat /\ Mirrored(Mirrored(n, w), w) = n
         /\ Mirrored(n, w) < w <=> n < w
BY DEF Mirrored

LEMMA TurnsFact ==
  ASSUME NEW b, NEW y, NEW x, NEW W, NEW H
  PROVE  /\ Turned("none", b, y, x, W, H) = b
         /\ Turned("flip_h", b, y, x, W, H) = MirroredH(x, W, b)
         /\ Turned("flip_v", b, y, x, W, H) = MirroredV(y, H, b)
         /\ Turned("rot180", b, y, x, W, H) = MirroredH(x, W, MirroredV(y, H, b))
         /\ Turned("transpose", b, y, x, W, H) = TransposeB(b)
         /\ Turned("transverse", b, y, x, W, H) = MirroredH(x, H, MirroredV(y, W, TransposeB(b)))
         /\ Turned("rot90", b, y, x, W, H) = MirroredH(x, H, TransposeB(b))
         /\ Turned("rot270", b, y, x, W, H) = MirroredV(y, W, TransposeB(b))
<1> USE DEF Turned, Turn, CwOf, ChOf, Transposing, Across, Down, MirroredH, MirroredV
<1>1. Turned("none", b, y, x, W, H) = b OBVIOUS
<1>2. Turned("flip_h", b, y, x, W, H) = MirroredH(x, W, b) OBVIOUS
<1>3. Turned("flip_v", b, y, x, W, H) = MirroredV(y, H, b) OBVIOUS
<1>4. Turned("rot180", b, y, x, W, H) = MirroredH(x, W, MirroredV(y, H, b)) OBVIOUS
<1>5. Turned("transpose", b, y, x, W, H) = TransposeB(b) OBVIOUS
<1>6. Turned("transverse", b, y, x, W, H) = MirroredH(x, H, MirroredV(y, W, TransposeB(b))) OBVIOUS
<1>7. Turned("rot90", b, y, x, W, H) = MirroredH(x, H, TransposeB(b)) OBVIOUS
<1>8. Turned("rot270", b, y, x, W, H) = MirroredV(y, W, TransposeB(b)) OBVIOUS
<1> HIDE DEF Turned, MirroredH, MirroredV
<1> QED BY <1>1, <1>2, <1>3, <1>4, <1>5, <1>6, <1>7, <1>8

\* A block mirrored at its place and again at its mirror image is as it was; mirroring rows
\* and mirroring columns commute, and transposing exchanges them.
LEMMA MirrorsFact ==
  ASSUME NEW b \in Blocks, NEW n \in Nat, NEW w \in Nat
  PROVE  /\ MirroredH(n, w, b) \in Blocks /\ MirroredV(n, w, b) \in Blocks
         /\ MirroredH(n, w, MirroredH(Mirrored(n, w), w, b)) = b
         /\ MirroredV(n, w, MirroredV(Mirrored(n, w), w, b)) = b
         /\ \A m, v : MirroredV(m, v, MirroredH(n, w, b)) = MirroredH(n, w, MirroredV(m, v, b))
         /\ TransposeB(MirroredH(n, w, b)) = MirroredV(n, w, TransposeB(b))
         /\ TransposeB(MirroredV(n, w, b)) = MirroredH(n, w, TransposeB(b))
<1>1. /\ MirrorH(b) \in Blocks /\ MirrorV(b) \in Blocks
      /\ MirrorH(MirrorH(b)) = b /\ MirrorV(MirrorV(b)) = b
      /\ MirrorH(MirrorV(b)) = MirrorV(MirrorH(b))
      /\ TransposeB(MirrorH(b)) = MirrorV(TransposeB(b))
      /\ TransposeB(MirrorV(b)) = MirrorH(TransposeB(b))
  BY BlockAlgebra
<1>2. Mirrored(n, w) < w <=> n < w BY MirroredFact
<1> QED BY <1>1, <1>2 DEF MirroredH, MirroredV

\* first, then second: together code.
Composed(first, second, code) ==
  <<first, second, code>> \in
    {<<"transpose", "flip_h", "rot90">>, <<"flip_h", "transpose", "rot270">>,
     <<"flip_v", "flip_h", "rot180">>, <<"rot180", "transpose", "transverse">>,
     <<"none", "none", "none">>, <<"flip_h", "flip_h", "none">>, <<"flip_v", "flip_v", "none">>,
     <<"rot180", "rot180", "none">>, <<"transpose", "transpose", "none">>,
     <<"transverse", "transverse", "none">>, <<"rot90", "rot270", "none">>,
     <<"rot270", "rot90", "none">>}

\* The block at y, x has come from the same place, turned the same way.
Agree(first, second, code, y, x, W, H, b) ==
  LET V == CwOf(first, W, H)    G == ChOf(first, W, H)
      P == At(second, y, x, V, G)
  IN /\ At(first, P[1], P[2], W, H) = At(code, y, x, W, H)
     /\ Turned(second, Turned(first, b, P[1], P[2], W, H), y, x, V, G) = Turned(code, b, y, x, W, H)

LEMMA ComposedFact ==
  ASSUME NEW first, NEW second, NEW code, Composed(first, second, code),
         NEW y \in Nat, NEW x \in Nat, NEW W \in Nat, NEW H \in Nat, NEW b \in Blocks
  PROVE  Agree(first, second, code, y, x, W, H, b)
<1> DEFINE V == CwOf(first, W, H)
           G == ChOf(first, W, H)
           P == At(second, y, x, V, G)
           Goal == /\ At(first, P[1], P[2], W, H) = At(code, y, x, W, H)
                   /\ Turned(second, Turned(first, b, P[1], P[2], W, H), y, x, V, G) = Turned(code, b, y, x, W, H)
<1> SUFFICES Goal BY DEF Agree
<1>1. \A n, w \in Nat : Mirrored(n, w) \in Nat /\ Mirrored(Mirrored(n, w), w) = n
  BY MirroredFact
<1>2. \A c \in Blocks, n, w \in Nat :
        /\ MirroredH(n, w, c) \in Blocks /\ MirroredV(n, w, c) \in Blocks /\ TransposeB(c) \in Blocks
        /\ MirroredH(n, w, MirroredH(Mirrored(n, w), w, c)) = c
        /\ MirroredV(n, w, MirroredV(Mirrored(n, w), w, c)) = c
        /\ TransposeB(TransposeB(c)) = c
        /\ TransposeB(MirroredH(n, w, c)) = MirroredV(n, w, TransposeB(c))
        /\ TransposeB(MirroredV(n, w, c)) = MirroredH(n, w, TransposeB(c))
        /\ \A m, v \in Nat : MirroredV(m, v, MirroredH(n, w, c)) = MirroredH(n, w, MirroredV(m, v, c))
  BY MirrorsFact, BlockAlgebra
<1>3. CASE first = "transpose" /\ second = "flip_h" /\ code = "rot90"
  <2>1. V = H /\ G = W BY <1>3 DEF CwOf, ChOf, Transposing
  <2>2. P = <<y, Mirrored(x, H)>> BY <1>3, <2>1, RoutinesFact
  <2>3. P[1] = y /\ P[2] = Mirrored(x, H) BY <2>2
  <2>4. At("transpose", y, Mirrored(x, H), W, H) = At("rot90", y, x, W, H)
    <3>1. At("transpose", y, Mirrored(x, H), W, H) = <<Mirrored(x, H), y>> BY RoutinesFact
    <3>2. At("rot90", y, x, W, H) = <<Mirrored(x, H), y>> BY RoutinesFact
    <3> QED BY <1>1, <3>1, <3>2, Zenon
  <2>5. Turned("flip_h", Turned("transpose", b, y, Mirrored(x, H), W, H), y, x, H, W)
          = Turned("rot90", b, y, x, W, H)
    <3>1. Turned("transpose", b, y, Mirrored(x, H), W, H) = TransposeB(b) BY TurnsFact
    <3>2. Turned("flip_h", TransposeB(b), y, x, H, W)
            = MirroredH(x, H, TransposeB(b))
      BY TurnsFact
    <3>3. Turned("rot90", b, y, x, W, H) = MirroredH(x, H, TransposeB(b)) BY TurnsFact
    <3>4. MirroredH(x, H, TransposeB(b))
            = MirroredH(x, H, TransposeB(b))
      OBVIOUS
    <3> QED BY <3>1, <3>2, <3>3, <3>4, Zenon
  <2> HIDE DEF V, G, P
  <2> QED BY <1>3, <2>1, <2>3, <2>4, <2>5, Zenon
<1>4. CASE first = "flip_h" /\ second = "transpose" /\ code = "rot270"
  <2>1. V = W /\ G = H BY <1>4 DEF CwOf, ChOf, Transposing
  <2>2. P = <<x, y>> BY <1>4, <2>1, RoutinesFact
  <2>3. P[1] = x /\ P[2] = y BY <2>2
  <2>4. At("flip_h", x, y, W, H) = At("rot270", y, x, W, H)
    <3>1. At("flip_h", x, y, W, H) = <<x, Mirrored(y, W)>> BY RoutinesFact
    <3>2. At("rot270", y, x, W, H) = <<x, Mirrored(y, W)>> BY RoutinesFact
    <3> QED BY <1>1, <3>1, <3>2, Zenon
  <2>5. Turned("transpose", Turned("flip_h", b, x, y, W, H), y, x, W, H)
          = Turned("rot270", b, y, x, W, H)
    <3>1. Turned("flip_h", b, x, y, W, H) = MirroredH(y, W, b) BY TurnsFact
    <3>2. Turned("transpose", MirroredH(y, W, b), y, x, W, H)
            = TransposeB(MirroredH(y, W, b))
      BY TurnsFact
    <3>3. Turned("rot270", b, y, x, W, H) = MirroredV(y, W, TransposeB(b)) BY TurnsFact
    <3>4. TransposeB(MirroredH(y, W, b))
            = MirroredV(y, W, TransposeB(b))
      BY <1>2
    <3> QED BY <3>1, <3>2, <3>3, <3>4, Zenon
  <2> HIDE DEF V, G, P
  <2> QED BY <1>4, <2>1, <2>3, <2>4, <2>5, Zenon
<1>5. CASE first = "flip_v" /\ second = "flip_h" /\ code = "rot180"
  <2>1. V = W /\ G = H BY <1>5 DEF CwOf, ChOf, Transposing
  <2>2. P = <<y, Mirrored(x, W)>> BY <1>5, <2>1, RoutinesFact
  <2>3. P[1] = y /\ P[2] = Mirrored(x, W) BY <2>2
  <2>4. At("flip_v", y, Mirrored(x, W), W, H) = At("rot180", y, x, W, H)
    <3>1. At("flip_v", y, Mirrored(x, W), W, H) = <<Mirrored(y, H), Mirrored(x, W)>> BY RoutinesFact
    <3>2. At("rot180", y, x, W, H) = <<Mirrored(y, H), Mirrored(x, W)>> BY RoutinesFact
    <3> QED BY <1>1, <3>1, <3>2, Zenon
  <2>5. Turned("flip_h", Turned("flip_v", b, y, Mirrored(x, W), W, H), y, x, W, H)
          = Turned("rot180", b, y, x, W, H)
    <3>1. Turned("flip_v", b, y, Mirrored(x, W), W, H) = MirroredV(y, H, b) BY TurnsFact
    <3>2. Turned("flip_h", MirroredV(y, H, b), y, x, W, H)
            = MirroredH(x, W, MirroredV(y, H, b))
      BY TurnsFact
    <3>3. Turned("rot180", b, y, x, W, H) = MirroredH(x, W, MirroredV(y, H, b)) BY TurnsFact
    <3>4. MirroredH(x, W, MirroredV(y, H, b))
            = MirroredH(x, W, MirroredV(y, H, b))
      OBVIOUS
    <3> QED BY <3>1, <3>2, <3>3, <3>4, Zenon
  <2> HIDE DEF V, G, P
  <2> QED BY <1>5, <2>1, <2>3, <2>4, <2>5, Zenon
<1>6. CASE first = "rot180" /\ second = "transpose" /\ code = "transverse"
  <2>1. V = W /\ G = H BY <1>6 DEF CwOf, ChOf, Transposing
  <2>2. P = <<x, y>> BY <1>6, <2>1, RoutinesFact
  <2>3. P[1] = x /\ P[2] = y BY <2>2
  <2>4. At("rot180", x, y, W, H) = At("transverse", y, x, W, H)
    <3>1. At("rot180", x, y, W, H) = <<Mirrored(x, H), Mirrored(y, W)>> BY RoutinesFact
    <3>2. At("transverse", y, x, W, H) = <<Mirrored(x, H), Mirrored(y, W)>> BY RoutinesFact
    <3> QED BY <1>1, <3>1, <3>2, Zenon
  <2>5. Turned("transpose", Turned("rot180", b, x, y, W, H), y, x, W, H)
          = Turned("transverse", b, y, x, W, H)
    <3>1. Turned("rot180", b, x, y, W, H) = MirroredH(y, W, MirroredV(x, H, b)) BY TurnsFact
    <3>2. Turned("transpose", MirroredH(y, W, MirroredV(x, H, b)), y, x, W, H)
            = TransposeB(MirroredH(y, W, MirroredV(x, H, b)))
      BY TurnsFact
    <3>3. Turned("transverse", b, y, x, W, H) = MirroredH(x, H, MirroredV(y, W, TransposeB(b))) BY TurnsFact
    <3>4. TransposeB(MirroredH(y, W, MirroredV(x, H, b)))
            = MirroredH(x, H, MirroredV(y, W, TransposeB(b)))
      BY <1>2
    <3> QED BY <3>1, <3>2, <3>3, <3>4, Zenon
  <2> HIDE DEF V, G, P
  <2> QED BY <1>6, <2>1, <2>3, <2>4, <2>5, Zenon
<1>7. CASE first = "none" /\ second = "none" /\ code = "none"
  <2>1. V = W /\ G = H BY <1>7 DEF CwOf, ChOf, Transposing
  <2>2. P = <<y, x>> BY <1>7, <2>1, RoutinesFact
  <2>3. P[1] = y /\ P[2] = x BY <2>2
  <2>4. At("none", y, x, W, H) = At("none", y, x, W, H)
    <3>1. At("none", y, x, W, H) = <<y, x>> BY RoutinesFact
    <3>2. At("none", y, x, W, H) = <<y, x>> BY RoutinesFact
    <3> QED BY <1>1, <3>1, <3>2, Zenon
  <2>5. Turned("none", Turned("none", b, y, x, W, H), y, x, W, H)
          = Turned("none", b, y, x, W, H)
    <3>1. Turned("none", b, y, x, W, H) = b BY TurnsFact
    <3>2. Turned("none", b, y, x, W, H)
            = b
      BY TurnsFact
    <3>3. Turned("none", b, y, x, W, H) = b BY TurnsFact
    <3>4. b
            = b
      OBVIOUS
    <3> QED BY <3>1, <3>2, <3>3, <3>4, Zenon
  <2> HIDE DEF V, G, P
  <2> QED BY <1>7, <2>1, <2>3, <2>4, <2>5, Zenon
<1>8. CASE first = "flip_h" /\ second = "flip_h" /\ code = "none"
  <2>1. V = W /\ G = H BY <1>8 DEF CwOf, ChOf, Transposing
  <2>2. P = <<y, Mirrored(x, W)>> BY <1>8, <2>1, RoutinesFact
  <2>3. P[1] = y /\ P[2] = Mirrored(x, W) BY <2>2
  <2>4. At("flip_h", y, Mirrored(x, W), W, H) = At("none", y, x, W, H)
    <3>1. At("flip_h", y, Mirrored(x, W), W, H) = <<y, Mirrored(Mirrored(x, W), W)>> BY RoutinesFact
    <3>2. At("none", y, x, W, H) = <<y, x>> BY RoutinesFact
    <3> QED BY <1>1, <3>1, <3>2, Zenon
  <2>5. Turned("flip_h", Turned("flip_h", b, y, Mirrored(x, W), W, H), y, x, W, H)
          = Turned("none", b, y, x, W, H)
    <3>1. Turned("flip_h", b, y, Mirrored(x, W), W, H) = MirroredH(Mirrored(x, W), W, b) BY TurnsFact
    <3>2. Turned("flip_h", MirroredH(Mirrored(x, W), W, b), y, x, W, H)
            = MirroredH(x, W, MirroredH(Mirrored(x, W), W, b))
      BY TurnsFact
    <3>3. Turned("none", b, y, x, W, H) = b BY TurnsFact
    <3>4. MirroredH(x, W, MirroredH(Mirrored(x, W), W, b))
            = b
      BY <1>2
    <3> QED BY <3>1, <3>2, <3>3, <3>4, Zenon
  <2> HIDE DEF V, G, P
  <2> QED BY <1>8, <2>1, <2>3, <2>4, <2>5, Zenon
<1>9. CASE first = "flip_v" /\ second = "flip_v" /\ code = "none"
  <2>1. V = W /\ G = H BY <1>9 DEF CwOf, ChOf, Transposing
  <2>2. P = <<Mirrored(y, H), x>> BY <1>9, <2>1, RoutinesFact
  <2>3. P[1] = Mirrored(y, H) /\ P[2] = x BY <2>2
  <2>4. At("flip_v", Mirrored(y, H), x, W, H) = At("none", y, x, W, H)
    <3>1. At("flip_v", Mirrored(y, H), x, W, H) = <<Mirrored(Mirrored(y, H), H), x>> BY RoutinesFact
    <3>2. At("none", y, x, W, H) = <<y, x>> BY RoutinesFact
    <3> QED BY <1>1, <3>1, <3>2, Zenon
  <2>5. Turned("flip_v", Turned("flip_v", b, Mirrored(y, H), x, W, H), y, x, W, H)
          = Turned("none", b, y, x, W, H)
    <3>1. Turned("flip_v", b, Mirrored(y, H), x, W, H) = MirroredV(Mirrored(y, H), H, b) BY TurnsFact
    <3>2. Turned("flip_v", MirroredV(Mirrored(y, H), H, b), y, x, W, H)
            = MirroredV(y, H, MirroredV(Mirrored(y, H), H, b))
      BY TurnsFact
    <3>3. Turned("none", b, y, x, W, H) = b BY TurnsFact
    <3>4. MirroredV(y, H, MirroredV(Mirrored(y, H), H, b))
            = b
      BY MirrorsFact
    <3> QED BY <3>1, <3>2, <3>3, <3>4, Zenon
  <2> HIDE DEF V, G, P
  <2> QED BY <1>9, <2>1, <2>3, <2>4, <2>5, Zenon
<1>10. CASE first = "rot180" /\ second = "rot180" /\ code = "none"
  <2>1. V = W /\ G = H BY <1>10 DEF CwOf, ChOf, Transposing
  <2>2. P = <<Mirrored(y, H), Mirrored(x, W)>> BY <1>10, <2>1, RoutinesFact
  <2>3. P[1] = Mirrored(y, H) /\ P[2] = Mirrored(x, W) BY <2>2
  <2>4. At("rot180", Mirrored(y, H), Mirrored(x, W), W, H) = At("none", y, x, W, H)
    <3>1. At("rot180", Mirrored(y, H), Mirrored(x, W), W, H) = <<Mirrored(Mirrored(y, H), H), Mirrored(Mirrored(x, W), W)>> BY RoutinesFact
    <3>2. At("none", y, x, W, H) = <<y, x>> BY RoutinesFact
    <3> QED BY <1>1, <3>1, <3>2, Zenon
  <2>5. Turned("rot180", Turned("rot180", b, Mirrored(y, H), Mirrored(x, W), W, H), y, x, W, H)
          = Turned("none", b, y, x, W, H)
    <3>1. Turned("rot180", b, Mirrored(y, H), Mirrored(x, W), W, H) = MirroredH(Mirrored(x, W), W, MirroredV(Mirrored(y, H), H, b)) BY TurnsFact
    <3>2. Turned("rot180", MirroredH(Mirrored(x, W), W, MirroredV(Mirrored(y, H), H, b)), y, x, W, H)
            = MirroredH(x, W, MirroredV(y, H, MirroredH(Mirrored(x, W), W, MirroredV(Mirrored(y, H), H, b))))
      BY TurnsFact
    <3>3. Turned("none", b, y, x, W, H) = b BY TurnsFact
    <3>4. MirroredH(x, W, MirroredV(y, H, MirroredH(Mirrored(x, W), W, MirroredV(Mirrored(y, H), H, b))))
            = b
      <4> DEFINE c == MirroredV(Mirrored(y, H), H, b)
      <4>1. c \in Blocks /\ Mirrored(x, W) \in Nat /\ Mirrored(y, H) \in Nat BY <1>1, <1>2
      <4>2. MirroredV(y, H, c) = b BY MirrorsFact
      <4> HIDE DEF c
      <4>3. MirroredV(y, H, MirroredH(Mirrored(x, W), W, c)) = MirroredH(Mirrored(x, W), W, MirroredV(y, H, c))
        BY <1>2, <4>1
      <4>4. MirroredH(x, W, MirroredH(Mirrored(x, W), W, b)) = b BY MirrorsFact
      <4> QED BY <4>2, <4>3, <4>4, Zenon DEF c
    <3> QED BY <3>1, <3>2, <3>3, <3>4, Zenon
  <2> HIDE DEF V, G, P
  <2> QED BY <1>10, <2>1, <2>3, <2>4, <2>5, Zenon
<1>11. CASE first = "transpose" /\ second = "transpose" /\ code = "none"
  <2>1. V = H /\ G = W BY <1>11 DEF CwOf, ChOf, Transposing
  <2>2. P = <<x, y>> BY <1>11, <2>1, RoutinesFact
  <2>3. P[1] = x /\ P[2] = y BY <2>2
  <2>4. At("transpose", x, y, W, H) = At("none", y, x, W, H)
    <3>1. At("transpose", x, y, W, H) = <<y, x>> BY RoutinesFact
    <3>2. At("none", y, x, W, H) = <<y, x>> BY RoutinesFact
    <3> QED BY <1>1, <3>1, <3>2, Zenon
  <2>5. Turned("transpose", Turned("transpose", b, x, y, W, H), y, x, H, W)
          = Turned("none", b, y, x, W, H)
    <3>1. Turned("transpose", b, x, y, W, H) = TransposeB(b) BY TurnsFact
    <3>2. Turned("transpose", TransposeB(b), y, x, H, W)
            = TransposeB(TransposeB(b))
      BY TurnsFact
    <3>3. Turned("none", b, y, x, W, H) = b BY TurnsFact
    <3>4. TransposeB(TransposeB(b))
            = b
      BY <1>2
    <3> QED BY <3>1, <3>2, <3>3, <3>4, Zenon
  <2> HIDE DEF V, G, P
  <2> QED BY <1>11, <2>1, <2>3, <2>4, <2>5, Zenon
<1>12. CASE first = "transverse" /\ second = "transverse" /\ code = "none"
  <2>1. V = H /\ G = W BY <1>12 DEF CwOf, ChOf, Transposing
  <2>2. P = <<Mirrored(x, W), Mirrored(y, H)>> BY <1>12, <2>1, RoutinesFact
  <2>3. P[1] = Mirrored(x, W) /\ P[2] = Mirrored(y, H) BY <2>2
  <2>4. At("transverse", Mirrored(x, W), Mirrored(y, H), W, H) = At("none", y, x, W, H)
    <3>1. At("transverse", Mirrored(x, W), Mirrored(y, H), W, H) = <<Mirrored(Mirrored(y, H), H), Mirrored(Mirrored(x, W), W)>> BY RoutinesFact
    <3>2. At("none", y, x, W, H) = <<y, x>> BY RoutinesFact
    <3> QED BY <1>1, <3>1, <3>2, Zenon
  <2>5. Turned("transverse", Turned("transverse", b, Mirrored(x, W), Mirrored(y, H), W, H), y, x, H, W)
          = Turned("none", b, y, x, W, H)
    <3>1. Turned("transverse", b, Mirrored(x, W), Mirrored(y, H), W, H) = MirroredH(Mirrored(y, H), H, MirroredV(Mirrored(x, W), W, TransposeB(b))) BY TurnsFact
    <3>2. Turned("transverse", MirroredH(Mirrored(y, H), H, MirroredV(Mirrored(x, W), W, TransposeB(b))), y, x, H, W)
            = MirroredH(x, W, MirroredV(y, H, TransposeB(MirroredH(Mirrored(y, H), H, MirroredV(Mirrored(x, W), W, TransposeB(b))))))
      BY TurnsFact
    <3>3. Turned("none", b, y, x, W, H) = b BY TurnsFact
    <3>4. MirroredH(x, W, MirroredV(y, H, TransposeB(MirroredH(Mirrored(y, H), H, MirroredV(Mirrored(x, W), W, TransposeB(b))))))
            = b
      <4> DEFINE c == TransposeB(b)
                 d == MirroredV(Mirrored(x, W), W, c)
      <4>1. Mirrored(x, W) \in Nat /\ Mirrored(y, H) \in Nat BY <1>1
      <4>2. c \in Blocks /\ TransposeB(c) = b BY <1>2
      <4> HIDE DEF c
      <4>3. d \in Blocks BY <1>2, <4>1, <4>2
      <4>4. TransposeB(d) = MirroredH(Mirrored(x, W), W, b) BY <1>2, <4>1, <4>2
      <4> HIDE DEF d
      <4>5. TransposeB(MirroredH(Mirrored(y, H), H, d)) = MirroredV(Mirrored(y, H), H, TransposeB(d))
        BY <1>2, <4>1, <4>3
      <4>6. MirroredV(Mirrored(y, H), H, MirroredH(Mirrored(x, W), W, b))
              = MirroredH(Mirrored(x, W), W, MirroredV(Mirrored(y, H), H, b))
        BY <1>2, <4>1
      <4> DEFINE e == MirroredV(Mirrored(y, H), H, b)
      <4>7. e \in Blocks /\ MirroredV(y, H, e) = b BY <1>2, <4>1, MirrorsFact
      <4> HIDE DEF e
      <4>8. MirroredV(y, H, MirroredH(Mirrored(x, W), W, e)) = MirroredH(Mirrored(x, W), W, MirroredV(y, H, e))
        BY <1>2, <4>1, <4>7
      <4>9. MirroredH(x, W, MirroredH(Mirrored(x, W), W, b)) = b BY MirrorsFact
      <4> QED BY <4>4, <4>5, <4>6, <4>7, <4>8, <4>9, Zenon DEF c, d, e
    <3> QED BY <3>1, <3>2, <3>3, <3>4, Zenon
  <2> HIDE DEF V, G, P
  <2> QED BY <1>12, <2>1, <2>3, <2>4, <2>5, Zenon
<1>13. CASE first = "rot90" /\ second = "rot270" /\ code = "none"
  <2>1. V = H /\ G = W BY <1>13 DEF CwOf, ChOf, Transposing
  <2>2. P = <<x, Mirrored(y, H)>> BY <1>13, <2>1, RoutinesFact
  <2>3. P[1] = x /\ P[2] = Mirrored(y, H) BY <2>2
  <2>4. At("rot90", x, Mirrored(y, H), W, H) = At("none", y, x, W, H)
    <3>1. At("rot90", x, Mirrored(y, H), W, H) = <<Mirrored(Mirrored(y, H), H), x>> BY RoutinesFact
    <3>2. At("none", y, x, W, H) = <<y, x>> BY RoutinesFact
    <3> QED BY <1>1, <3>1, <3>2, Zenon
  <2>5. Turned("rot270", Turned("rot90", b, x, Mirrored(y, H), W, H), y, x, H, W)
          = Turned("none", b, y, x, W, H)
    <3>1. Turned("rot90", b, x, Mirrored(y, H), W, H) = MirroredH(Mirrored(y, H), H, TransposeB(b)) BY TurnsFact
    <3>2. Turned("rot270", MirroredH(Mirrored(y, H), H, TransposeB(b)), y, x, H, W)
            = MirroredV(y, H, TransposeB(MirroredH(Mirrored(y, H), H, TransposeB(b))))
      BY TurnsFact
    <3>3. Turned("none", b, y, x, W, H) = b BY TurnsFact
    <3>4. MirroredV(y, H, TransposeB(MirroredH(Mirrored(y, H), H, TransposeB(b))))
            = b
      BY <1>1, <1>2
    <3> QED BY <3>1, <3>2, <3>3, <3>4, Zenon
  <2> HIDE DEF V, G, P
  <2> QED BY <1>13, <2>1, <2>3, <2>4, <2>5, Zenon
<1>14. CASE first = "rot270" /\ second = "rot90" /\ code = "none"
  <2>1. V = H /\ G = W BY <1>14 DEF CwOf, ChOf, Transposing
  <2>2. P = <<Mirrored(x, W), y>> BY <1>14, <2>1, RoutinesFact
  <2>3. P[1] = Mirrored(x, W) /\ P[2] = y BY <2>2
  <2>4. At("rot270", Mirrored(x, W), y, W, H) = At("none", y, x, W, H)
    <3>1. At("rot270", Mirrored(x, W), y, W, H) = <<y, Mirrored(Mirrored(x, W), W)>> BY RoutinesFact
    <3>2. At("none", y, x, W, H) = <<y, x>> BY RoutinesFact
    <3> QED BY <1>1, <3>1, <3>2, Zenon
  <2>5. Turned("rot90", Turned("rot270", b, Mirrored(x, W), y, W, H), y, x, H, W)
          = Turned("none", b, y, x, W, H)
    <3>1. Turned("rot270", b, Mirrored(x, W), y, W, H) = MirroredV(Mirrored(x, W), W, TransposeB(b)) BY TurnsFact
    <3>2. Turned("rot90", MirroredV(Mirrored(x, W), W, TransposeB(b)), y, x, H, W)
            = MirroredH(x, W, TransposeB(MirroredV(Mirrored(x, W), W, TransposeB(b))))
      BY TurnsFact
    <3>3. Turned("none", b, y, x, W, H) = b BY TurnsFact
    <3>4. MirroredH(x, W, TransposeB(MirroredV(Mirrored(x, W), W, TransposeB(b))))
            = b
      BY <1>1, <1>2
    <3> QED BY <3>1, <3>2, <3>3, <3>4, Zenon
  <2> HIDE DEF V, G, P
  <2> QED BY <1>14, <2>1, <2>3, <2>4, <2>5, Zenon
<1> HIDE DEF Goal
<1> QED BY <1>3, <1>4, <1>5, <1>6, <1>7, <1>8, <1>9, <1>10, <1>11, <1>12, <1>13, <1>14 DEF Composed

\* Place and turn of a block, in the whole iMCUs of the picture transformed.
LEMMA InFact ==
  ASSUME NEW p, Sized(p), NEW r, Asked(r), ~ r.grayscale, NEW ci \in DOMAIN Resampled(p, r), NEW y, NEW x
  PROVE  LET W == Wide(p, ci)    H == Tall(p, ci)
         IN /\ WholeAcross(p, r, ci) = CwOf(r.transform, W, H)
            /\ WholeDown(p, r, ci) = ChOf(r.transform, W, H)
            /\ PlaceIn(p, r, ci, y, x) = At(r.transform, y, x, W, H)
            /\ TurnIn(p, r, ci, y, x)
                 = Turned(r.transform, p.blocks[ci][At(r.transform, y, x, W, H)], y, x, W, H)
<1> DEFINE W == Wide(p, ci)
           H == Tall(p, ci)
<1>1. WholeAcross(p, r, ci) = IF Swaps(r) THEN H ELSE W BY AxesFact
<1>2. WholeDown(p, r, ci) = IF Swaps(r) THEN W ELSE H BY AxesFact
<1> HIDE DEF W, H
<1>3. /\ WholeAcross(p, r, ci) = CwOf(r.transform, W, H)
      /\ WholeDown(p, r, ci) = ChOf(r.transform, W, H)
  BY <1>1, <1>2 DEF CwOf, ChOf, Swaps
<1>4. PlaceIn(p, r, ci, y, x) = At(r.transform, y, x, W, H) BY <1>3 DEF PlaceIn, At
<1>5. TurnIn(p, r, ci, y, x)
        = Turned(r.transform, p.blocks[ci][At(r.transform, y, x, W, H)], y, x, W, H)
  BY <1>3, <1>4 DEF TurnIn, Turned
<1> QED BY <1>3, <1>4, <1>5 DEF W, H

\* The blocks of a component are those that lie on its axes.
OnAxes(p, ci, horizontal, vertical) ==
  /\ width_in_blocks(p, ci) \in Nat /\ height_in_blocks(p, ci) \in Nat
  /\ \A n \in Nat : n < width_in_blocks(p, ci) <=> n * horizontal.unit < horizontal.size * horizontal.factor
  /\ \A n \in Nat : n < height_in_blocks(p, ci) <=> n * vertical.unit < vertical.size * vertical.factor

LEMMA InputAxes ==
  ASSUME NEW p, Sized(p), NEW ci \in DOMAIN Resampled(p, Plainly("none"))
  PROVE  OnAxes(p, ci, Horizontal(p, Plainly("none"), ci), Vertical(p, Plainly("none"), ci))
<1> DEFINE none == Plainly("none")
<1>1. Asked(none) /\ Reducible(p, none) /\ ~ Swaps(none)
  BY PlainlyFact DEF Transforms, Plainly, Swaps, Transposing
<1> HIDE DEF none
<1>2. ci \in DOMAIN Resampled(p, none) BY DEF none
<1>3. /\ width_in_blocks(p, ci) \in Nat /\ height_in_blocks(p, ci) \in Nat
      /\ \A x \in Nat : x < width_in_blocks(p, ci)
           <=> x * Uncropped(p, none).iMCU_width < Uncropped(p, none).output_width * Resampled(p, none)[ci].h
      /\ \A y \in Nat : y < height_in_blocks(p, ci)
           <=> y * Uncropped(p, none).iMCU_height < Uncropped(p, none).output_height * Resampled(p, none)[ci].v
  BY <1>1, <1>2, SourceGrid
<1> QED BY <1>3 DEF OnAxes, Horizontal, Vertical, none

LEMMA OutputAxes ==
  ASSUME NEW p, Sized(p), NEW r, Asked(r), Reducible(p, r), NEW d, Sized(d), Sent(p, r, Uncropped(p, r), d),
         NEW ci \in DOMAIN d.comps
  PROVE  OnAxes(d, ci, Horizontal(p, r, ci), Vertical(p, r, ci))
<1>1. /\ d.comps = Resampled(p, r) /\ d.width = Uncropped(p, r).output_width
      /\ d.height = Uncropped(p, r).output_height
      /\ max_h(d.comps) * BlockSize = Uncropped(p, r).iMCU_width
      /\ max_v(d.comps) * BlockSize = Uncropped(p, r).iMCU_height
  BY ResampledFact DEF Sent
<1>2. /\ width_in_blocks(d, ci) \in Nat /\ height_in_blocks(d, ci) \in Nat
      /\ \A n \in Nat : n < width_in_blocks(d, ci)
           <=> n * (max_h(d.comps) * BlockSize) < d.width * d.comps[ci].h
      /\ \A n \in Nat : n < height_in_blocks(d, ci)
           <=> n * (max_v(d.comps) * BlockSize) < d.height * d.comps[ci].v
  BY GridFact
<1> QED BY <1>1, <1>2 DEF OnAxes, Horizontal, Vertical

LEMMA SameAxes ==
  ASSUME NEW p, NEW q, NEW ci, NEW h, NEW v, OnAxes(p, ci, h, v), OnAxes(q, ci, h, v)
  PROVE  Grid(p, ci) = Grid(q, ci)
<1>1. ASSUME NEW m \in Nat, NEW n \in Nat, \A k \in Nat : k < m <=> k < n PROVE m = n
  <2>1. ~ m < n /\ ~ n < m BY <1>1
  <2> QED BY <2>1
<1>2. width_in_blocks(p, ci) = width_in_blocks(q, ci) BY <1>1 DEF OnAxes
<1>3. height_in_blocks(p, ci) = height_in_blocks(q, ci) BY <1>1 DEF OnAxes
<1> QED BY <1>2, <1>3 DEF Grid

\* Transforms that neither crop nor trim nor make gray.
Uncut(p, r, d) ==
  /\ Asked(r) /\ ~ r.grayscale /\ Sent(p, r, Uncropped(p, r), d)
  /\ d.blocks = Transformed(p, d, r.transform, 0, 0)

LEMMA UncutBlocks ==
  ASSUME NEW p, NEW r, NEW d, Uncut(p, r, d)
  PROVE  d.blocks = [ci \in DOMAIN d.comps |-> [yx \in Grid(d, ci) |-> d.blocks[ci][yx]]]
<1> DEFINE F(ci, yx) == BlockOf(r.transform, Source(p, ci), yx[1] + 0 * d.comps[ci].v, yx[2] + 0 * d.comps[ci].h,
             ((IF r.transform \in Transposing THEN p.height ELSE p.width)
                \div (max_h(d.comps) * BlockSize)) * d.comps[ci].h,
             ((IF r.transform \in Transposing THEN p.width ELSE p.height)
                \div (max_v(d.comps) * BlockSize)) * d.comps[ci].v, 0)
<1>1. Transformed(p, d, r.transform, 0, 0) = [ci \in DOMAIN d.comps |-> [yx \in Grid(d, ci) |-> F(ci, yx)]]
  BY DEF Transformed
<1> HIDE DEF F
<1>2. d.blocks = [ci \in DOMAIN d.comps |-> [yx \in Grid(d, ci) |-> F(ci, yx)]] BY <1>1 DEF Uncut
<1> QED BY <1>2

LEMMA UncutGridded ==
  ASSUME NEW p, Gridded(p), NEW r, NEW d, Uncut(p, r, d)
  PROVE  Gridded(d) /\ Reducible(p, r) /\ d.comps = Resampled(p, r)
<1>1. /\ Asked(r) /\ Reducible(p, r) /\ Sent(p, r, Uncropped(p, r), d)
      /\ d.blocks = Transformed(p, d, r.transform, 0, 0)
  BY DEF Uncut, Reducible
<1>2. Sized(d) /\ DOMAIN d.blocks = DOMAIN d.comps /\ DOMAIN d.comps \subseteq DOMAIN p.comps
  BY <1>1, UncutFact
<1>3. d.blocks = [ci \in DOMAIN d.comps |-> [yx \in Grid(d, ci) |-> d.blocks[ci][yx]]] BY UncutBlocks
<1>4. \A ci \in DOMAIN d.comps : DOMAIN d.blocks[ci] = Grid(d, ci) BY <1>3
<1>5. ASSUME NEW ci \in DOMAIN d.comps, NEW yx \in Grid(d, ci)
      PROVE  d.blocks[ci][yx] \in Blocks
  <2> DEFINE b == p.blocks[ci][PlaceIn(p, r, ci, yx[1], yx[2])]
             across == r.transform \in Across /\ yx[2] < WholeAcross(p, r, ci)
             down == r.transform \in Down /\ yx[1] < WholeDown(p, r, ci)
  <2>1. PlaceIn(p, r, ci, yx[1], yx[2]) \in Grid(p, ci) /\ d.blocks[ci][yx] = TurnIn(p, r, ci, yx[1], yx[2])
    BY <1>1, UncutFact
  <2>2. b \in Blocks BY <1>2, <2>1 DEF Gridded
  <2>3. d.blocks[ci][yx] = Turn(r.transform, b, across, down) BY <2>1 DEF TurnIn
  <2>4. across \in BOOLEAN /\ down \in BOOLEAN OBVIOUS
  <2> HIDE DEF b, across, down
  <2>5. Turn(r.transform, b, across, down)
          = [y |-> b.y, x |-> b.x, tr |-> (b.tr # Swaps(r)),
             fh |-> ((IF Swaps(r) THEN b.fv ELSE b.fh) # across),
             fv |-> ((IF Swaps(r) THEN b.fh ELSE b.fv) # down)]
    BY <2>2, <2>4, TurnFact DEF Swaps
  <2> QED BY <2>2, <2>3, <2>5 DEF Blocks
<1> QED BY <1>1, <1>2, <1>3, <1>4, <1>5 DEF Gridded, Sent

\* Two transforms in sequence have the axes, and put every block where the one composed
\* of them does.
LEMMA TwiceFact ==
  ASSUME NEW p, Gridded(p), NEW r1, NEW d, Uncut(p, r1, d), NEW r2, NEW e, Uncut(d, r2, e),
         NEW r, Asked(r), ~ r.grayscale, Composed(r1.transform, r2.transform, r.transform),
         NEW ci \in DOMAIN e.comps
  PROVE  /\ DOMAIN e.comps = DOMAIN p.comps /\ ci \in DOMAIN Resampled(p, r)
         /\ Horizontal(d, r2, ci) = Horizontal(p, r, ci) /\ Vertical(d, r2, ci) = Vertical(p, r, ci)
         /\ \A yx \in Grid(e, ci) : e.blocks[ci][yx] = TurnIn(p, r, ci, yx[1], yx[2])
<1> DEFINE none == Plainly("none")
<1>1. /\ Sized(p) /\ Asked(r1) /\ ~ r1.grayscale /\ Reducible(p, r1) /\ Sent(p, r1, Uncropped(p, r1), d)
      /\ d.blocks = Transformed(p, d, r1.transform, 0, 0) /\ d.comps = Resampled(p, r1)
  BY UncutGridded DEF Uncut, Gridded
<1>2. Gridded(d) BY UncutGridded
<1>3. /\ Sized(d) /\ Asked(r2) /\ ~ r2.grayscale /\ Reducible(d, r2) /\ Sent(d, r2, Uncropped(d, r2), e)
      /\ e.blocks = Transformed(d, e, r2.transform, 0, 0) /\ e.comps = Resampled(d, r2)
  BY <1>2, UncutGridded DEF Uncut, Gridded
<1>4. Sized(e) BY <1>2, UncutGridded DEF Gridded
<1> HIDE DEF none
<1>5. DOMAIN e.comps = DOMAIN d.comps BY <1>3, <1>4, ChainFact
<1>6. /\ DOMAIN d.comps = DOMAIN p.comps
      /\ Horizontal(d, none, ci) = Horizontal(p, r1, ci) /\ Vertical(d, none, ci) = Vertical(p, r1, ci)
      /\ Wide(d, ci) = WholeAcross(p, r1, ci) /\ Tall(d, ci) = WholeDown(p, r1, ci)
  BY <1>1, <1>3, <1>5, ChainFact DEF none
<1>7. ci \in DOMAIN Resampled(p, r)
  <2>1. /\ Reducible(p, r) /\ num_components(p, r) = Len(p.comps) /\ num_components(p, r1) = Len(p.comps)
    BY <1>1 DEF Reducible, num_components
  <2>2. CASE num_components(p, r) = 1
    <3>1. num_components(p, r1) = 1 BY <2>1, <2>2
    <3>2. Resampled(p, r) = <<[h |-> 1, v |-> 1]>> BY <1>1, <2>1, <2>2, ResampledFact
    <3>3. Resampled(p, r1) = <<[h |-> 1, v |-> 1]>> BY <1>1, <3>1, ResampledFact
    <3> QED BY <1>1, <1>5, <3>2, <3>3, Zenon
  <2>3. CASE num_components(p, r) # 1
    <3>1. DOMAIN Resampled(p, r) = DOMAIN p.comps BY <1>1, <2>1, <2>3, ResampledFact
    <3> QED BY <1>5, <1>6, <3>1
  <2> QED BY <2>2, <2>3
<1>8. /\ Horizontal(p, r, ci) = IF Swaps(r) THEN Vertical(p, none, ci) ELSE Horizontal(p, none, ci)
      /\ Vertical(p, r, ci) = IF Swaps(r) THEN Horizontal(p, none, ci) ELSE Vertical(p, none, ci)
      /\ Horizontal(p, r1, ci) = IF Swaps(r1) THEN Vertical(p, none, ci) ELSE Horizontal(p, none, ci)
      /\ Vertical(p, r1, ci) = IF Swaps(r1) THEN Horizontal(p, none, ci) ELSE Vertical(p, none, ci)
      /\ Horizontal(d, r2, ci) = IF Swaps(r2) THEN Vertical(d, none, ci) ELSE Horizontal(d, none, ci)
      /\ Vertical(d, r2, ci) = IF Swaps(r2) THEN Horizontal(d, none, ci) ELSE Vertical(d, none, ci)
  <2>1. /\ Horizontal(p, r, ci) = IF Swaps(r) THEN Vertical(p, none, ci) ELSE Horizontal(p, none, ci)
        /\ Vertical(p, r, ci) = IF Swaps(r) THEN Horizontal(p, none, ci) ELSE Vertical(p, none, ci)
    BY <1>1, <1>7, AxesFact DEF none
  <2>2. /\ Horizontal(p, r1, ci) = IF Swaps(r1) THEN Vertical(p, none, ci) ELSE Horizontal(p, none, ci)
        /\ Vertical(p, r1, ci) = IF Swaps(r1) THEN Horizontal(p, none, ci) ELSE Vertical(p, none, ci)
    <3>1. ci \in DOMAIN Resampled(p, r1) BY <1>1, <1>5
    <3> QED BY <1>1, <3>1, AxesFact DEF none
  <2>3. /\ Horizontal(d, r2, ci) = IF Swaps(r2) THEN Vertical(d, none, ci) ELSE Horizontal(d, none, ci)
        /\ Vertical(d, r2, ci) = IF Swaps(r2) THEN Horizontal(d, none, ci) ELSE Vertical(d, none, ci)
    <3>1. ci \in DOMAIN Resampled(d, r2) BY <1>3
    <3> QED BY <1>3, <3>1, AxesFact DEF none
  <2> QED BY <2>1, <2>2, <2>3
<1>9. Swaps(r) <=> ~ (Swaps(r1) <=> Swaps(r2)) BY DEF Composed, Swaps, Transposing
<1>10. Horizontal(d, r2, ci) = Horizontal(p, r, ci) /\ Vertical(d, r2, ci) = Vertical(p, r, ci)
  <2> HIDE DEF Swaps
  <2> QED BY <1>6, <1>8, <1>9
<1>11. ASSUME NEW yx \in Grid(e, ci)
       PROVE  e.blocks[ci][yx] = TurnIn(p, r, ci, yx[1], yx[2])
  <2> DEFINE W == Wide(p, ci)
             H == Tall(p, ci)
             V == CwOf(r1.transform, W, H)
             G == ChOf(r1.transform, W, H)
             y == yx[1]
             x == yx[2]
             P == At(r2.transform, y, x, V, G)
             Q == At(r1.transform, P[1], P[2], W, H)
             b == p.blocks[ci][Q]
  <2>1. /\ y \in Nat /\ x \in Nat /\ e.blocks[ci][yx] = TurnIn(d, r2, ci, y, x)
        /\ PlaceIn(d, r2, ci, y, x) \in Grid(d, ci)
    BY <1>2, <1>3, UncutFact
  <2>2. Wide(d, ci) = V /\ Tall(d, ci) = G
    <3>1. ci \in DOMAIN Resampled(p, r1) BY <1>1, <1>5
    <3> QED BY <1>1, <1>6, <3>1, InFact
  <2>3. PlaceIn(d, r2, ci, y, x) = P /\ TurnIn(d, r2, ci, y, x) = Turned(r2.transform, d.blocks[ci][P], y, x, V, G)
    <3>1. ci \in DOMAIN Resampled(d, r2) BY <1>3
    <3> HIDE DEF V, G, y, x
    <3> QED BY <1>3, <2>2, <3>1, InFact
  <2>4. /\ d.blocks[ci][P] = TurnIn(p, r1, ci, P[1], P[2])
        /\ PlaceIn(p, r1, ci, P[1], P[2]) \in Grid(p, ci)
        /\ WholeAcross(p, r1, ci) \in Nat /\ WholeDown(p, r1, ci) \in Nat
    <3>1. ci \in DOMAIN d.comps /\ P \in Grid(d, ci) BY <1>5, <2>1, <2>3
    <3> HIDE DEF P
    <3> QED BY <1>1, <3>1, UncutFact
  <2>5. /\ PlaceIn(p, r1, ci, P[1], P[2]) = Q
        /\ TurnIn(p, r1, ci, P[1], P[2]) = Turned(r1.transform, b, P[1], P[2], W, H)
        /\ WholeAcross(p, r1, ci) = CwOf(r1.transform, W, H)
        /\ WholeDown(p, r1, ci) = ChOf(r1.transform, W, H)
    <3>1. ci \in DOMAIN Resampled(p, r1) BY <1>1, <1>5
    <3> HIDE DEF P
    <3> QED BY <1>1, <3>1, InFact
  <2>6. W \in Nat /\ H \in Nat
    <3>1. CwOf(r1.transform, W, H) \in Nat /\ ChOf(r1.transform, W, H) \in Nat BY <2>4, <2>5
    <3> HIDE DEF W, H
    <3> QED BY <3>1 DEF CwOf, ChOf
  <2>7. b \in Blocks
    <3>1. Q \in Grid(p, ci) /\ ci \in DOMAIN p.comps BY <1>5, <1>6, <2>4, <2>5
    <3> HIDE DEF Q
    <3> QED BY <3>1 DEF Gridded
  <2>8. TurnIn(p, r, ci, y, x)
          = Turned(r.transform, p.blocks[ci][At(r.transform, y, x, W, H)], y, x, W, H)
    BY <1>1, <1>7, InFact
  <2> HIDE DEF b, W, H, y, x
  <2>9. /\ Q = At(r.transform, y, x, W, H)
        /\ Turned(r2.transform, Turned(r1.transform, b, P[1], P[2], W, H), y, x, V, G)
             = Turned(r.transform, b, y, x, W, H)
    <3>1. \A f, s, c : Composed(f, s, c) =>
            \A m, n, U, S \in Nat : \A k \in Blocks : Agree(f, s, c, m, n, U, S, k)
      BY ComposedFact
    <3>2. y \in Nat /\ x \in Nat BY <2>1
    <3>3. \A m, n, U, S \in Nat : \A k \in Blocks : Agree(r1.transform, r2.transform, r.transform, m, n, U, S, k)
      BY <3>1, Zenon
    <3>4. Agree(r1.transform, r2.transform, r.transform, y, x, W, H, b)
      BY <2>6, <2>7, <3>2, <3>3, Zenon
    <3> QED BY <3>4 DEF Agree
  <2>10. e.blocks[ci][yx] = Turned(r2.transform, Turned(r1.transform, b, P[1], P[2], W, H), y, x, V, G)
    BY <2>1, <2>3, <2>4, <2>5, Zenon
  <2>11. e.blocks[ci][yx] = TurnIn(p, r, ci, y, x) BY <2>8, <2>9, <2>10, Zenon DEF b
  <2> QED BY <2>11 DEF y, x
<1> QED BY <1>5, <1>6, <1>7, <1>10, <1>11

LEMMA BlockwiseFact ==
  ASSUME NEW p, NEW q, DOMAIN p.comps = DOMAIN q.comps,
         p.blocks = [ci \in DOMAIN p.comps |-> [yx \in Grid(p, ci) |-> p.blocks[ci][yx]]],
         q.blocks = [ci \in DOMAIN q.comps |-> [yx \in Grid(q, ci) |-> q.blocks[ci][yx]]],
         \A ci \in DOMAIN p.comps : /\ Grid(p, ci) = Grid(q, ci)
                                    /\ \A yx \in Grid(p, ci) : p.blocks[ci][yx] = q.blocks[ci][yx]
  PROVE  p.blocks = q.blocks
<1> DEFINE B == p.blocks
           C == q.blocks
           D == DOMAIN p.comps
<1>1. B = [ci \in D |-> [yx \in Grid(p, ci) |-> B[ci][yx]]] OBVIOUS
<1>2. C = [ci \in D |-> [yx \in Grid(q, ci) |-> C[ci][yx]]] OBVIOUS
<1>3. \A ci \in D : Grid(p, ci) = Grid(q, ci) /\ \A yx \in Grid(p, ci) : B[ci][yx] = C[ci][yx] OBVIOUS
<1> HIDE DEF B, C, D
<1>4. ASSUME NEW ci \in D PROVE B[ci] = C[ci]
  <2>1. B[ci] = [yx \in Grid(p, ci) |-> B[ci][yx]] BY <1>1
  <2>2. C[ci] = [yx \in Grid(q, ci) |-> C[ci][yx]] BY <1>2
  <2> DEFINE M == B[ci]
             N == C[ci]
             G == Grid(p, ci)
  <2>3. M = [yx \in G |-> M[yx]] /\ N = [yx \in G |-> N[yx]] /\ \A yx \in G : M[yx] = N[yx]
    BY <1>3, <2>1, <2>2
  <2> HIDE DEF M, N, G
  <2>4. M = N BY <2>3
  <2> QED BY <2>4 DEF M, N
<1>5. B = [ci \in D |-> B[ci]] /\ C = [ci \in D |-> C[ci]] BY <1>1, <1>2
<1>6. B = C BY <1>4, <1>5
<1> QED BY <1>6 DEF B, C

\* The composed transform makes the picture that the sequence makes.
LEMMA SequenceFact ==
  ASSUME NEW p, Gridded(p), NEW r1, NEW d, Uncut(p, r1, d), NEW r2, NEW e, Uncut(d, r2, e),
         NEW r, NEW f, Uncut(p, r, f), Composed(r1.transform, r2.transform, r.transform)
  PROVE  e.blocks = f.blocks
<1>1. Gridded(d) /\ Gridded(f) /\ Reducible(p, r) /\ f.comps = Resampled(p, r) BY UncutGridded
<1>2. Gridded(e) /\ Reducible(d, r2) BY <1>1, UncutGridded
<1>3. Asked(r) /\ ~ r.grayscale BY DEF Uncut
<1>4. DOMAIN e.comps = DOMAIN f.comps
  <2>1. 1 \in DOMAIN e.comps /\ 1 \in DOMAIN f.comps
    <3>1. \A g : Sized(g) => 1 \in DOMAIN g.comps BY DEF Sized
    <3> QED BY <1>1, <1>2, <3>1 DEF Gridded
  <2>2. DOMAIN e.comps = DOMAIN p.comps BY <1>3, <2>1, TwiceFact
  <2>3. DOMAIN f.comps = DOMAIN p.comps BY <1>1, <1>3, <2>1, ChainFact DEF Gridded, Uncut
  <2> QED BY <2>2, <2>3
<1>5. ASSUME NEW ci \in DOMAIN e.comps
      PROVE  /\ Grid(e, ci) = Grid(f, ci)
             /\ \A yx \in Grid(e, ci) : e.blocks[ci][yx] = f.blocks[ci][yx]
  <2>1. /\ Horizontal(d, r2, ci) = Horizontal(p, r, ci) /\ Vertical(d, r2, ci) = Vertical(p, r, ci)
        /\ \A yx \in Grid(e, ci) : e.blocks[ci][yx] = TurnIn(p, r, ci, yx[1], yx[2])
    BY <1>3, TwiceFact
  <2>2. OnAxes(e, ci, Horizontal(d, r2, ci), Vertical(d, r2, ci))
    BY <1>1, <1>2, OutputAxes DEF Gridded, Uncut
  <2>3. OnAxes(f, ci, Horizontal(p, r, ci), Vertical(p, r, ci))
    BY <1>1, <1>4, OutputAxes DEF Gridded, Uncut
  <2>4. Grid(e, ci) = Grid(f, ci) BY <2>1, <2>2, <2>3, SameAxes
  <2>5. \A yx \in Grid(f, ci) : f.blocks[ci][yx] = TurnIn(p, r, ci, yx[1], yx[2])
    BY <1>1, <1>4, UncutFact DEF Uncut
  <2> QED BY <2>1, <2>4, <2>5
<1>6. e.blocks = [ci \in DOMAIN e.comps |-> [yx \in Grid(e, ci) |-> e.blocks[ci][yx]]] BY UncutBlocks
<1>7. f.blocks = [ci \in DOMAIN f.comps |-> [yx \in Grid(f, ci) |-> f.blocks[ci][yx]]] BY UncutBlocks
<1> QED BY <1>4, <1>5, <1>6, <1>7, BlockwiseFact

\* A rotation or transverse transposition is, edges included, the sequence of transpose and
\* flips that the documentation defines it as: for every size of picture and every sampling.
THEOREM RotationsAreSequences == Spec => []EdgesAsSequence
<1>1. IInv => EdgesAsSequence
  <2> SUFFICES ASSUME IInv, Written, Plain(request), Len(src.comps) > 1,
                      request.transform \in DOMAIN Sequences
               PROVE  LET s == Sequences[request.transform]
                      IN dst.blocks = Apply(Apply(src, s[1]), s[2]).blocks
    BY DEF EdgesAsSequence
  <2> DEFINE s == Sequences[request.transform]
             r1 == Plainly(s[1])
             r2 == Plainly(s[2])
             d == Apply(src, s[1])
             e == Apply(d, s[2])
  <2>1. s[1] \in Transforms /\ s[2] \in Transforms /\ Composed(s[1], s[2], request.transform)
    <3>1. DOMAIN Sequences = {"rot90", "rot270", "rot180", "transverse"} BY DEF Sequences
    <3>2. CASE request.transform = "rot90"
      <4>1. s = <<"transpose", "flip_h">> BY <3>2 DEF Sequences
      <4> QED BY <3>2, <4>1 DEF Transforms, Transposing, Composed
    <3>3. CASE request.transform = "rot270"
      <4>1. s = <<"flip_h", "transpose">> BY <3>3 DEF Sequences
      <4> QED BY <3>3, <4>1 DEF Transforms, Transposing, Composed
    <3>4. CASE request.transform = "rot180"
      <4>1. s = <<"flip_v", "flip_h">> BY <3>4 DEF Sequences
      <4> QED BY <3>4, <4>1 DEF Transforms, Transposing, Composed
    <3>5. CASE request.transform = "transverse"
      <4>1. s = <<"rot180", "transpose">> BY <3>5 DEF Sequences
      <4> QED BY <3>5, <4>1 DEF Transforms, Transposing, Composed
    <3> QED BY <3>1, <3>2, <3>3, <3>4, <3>5
  <2>2. Fields(src) /\ Gridded(src) /\ Sized(src) /\ Made(src, request, dst)
    BY PlainRun, WholeGridded DEF IInv, Whole
  <2>3. Uncut(src, request, dst)
    BY <2>2 DEF Made, Copied, Uncut, Plain
  <2>4. /\ Asked(r1) /\ Reducible(src, r1) /\ r1.transform = s[1] /\ ~ r1.grayscale
        /\ Asked(r2) /\ Reducible(d, r2) /\ r2.transform = s[2] /\ ~ r2.grayscale
    <3>1. \A code : Plainly(code).grayscale = FALSE BY DEF Plainly
    <3> HIDE DEF s, d
    <3> QED BY <2>1, <3>1, PlainlyFact
  <2> HIDE DEF s, r1, r2
  <2>5. num_components(src, r1) # 1
    <3>1. num_components(src, r1) = Len(src.comps) BY <2>4 DEF num_components
    <3> DEFINE n == Len(src.comps)
    <3>2. n \in Nat /\ n > 1 BY <2>2 DEF Sized
    <3> HIDE DEF n
    <3>3. n # 1 BY <3>2
    <3> QED BY <3>1, <3>3 DEF n
  <2>6. Fields(d) /\ Uncut(src, r1, d)
    <3>1. /\ Fields(d) /\ Sent(src, r1, Uncropped(src, r1), d)
          /\ d.blocks = Transformed(src, d, r1.transform, 0, 0)
      BY <2>2, <2>4, <2>5, ApplyFact
    <3> QED BY <2>4, <3>1 DEF Uncut
  <2> HIDE DEF d
  <2>7. num_components(d, r2) # 1
    <3>1. num_components(d, r2) = Len(d.comps) BY <2>4 DEF num_components
    <3>2. DOMAIN d.comps = DOMAIN src.comps /\ Sized(d)
      <4>1. Sized(d) /\ d.comps = Resampled(src, r1) BY <2>2, <2>6, UncutGridded DEF Gridded
      <4>2. DOMAIN Resampled(src, r1) = DOMAIN src.comps BY <2>2, <2>4, <2>5, ResampledFact
      <4> QED BY <4>1, <4>2
    <3> DEFINE n == Len(d.comps)
               k == Len(src.comps)
    <3>3. n \in Nat /\ k \in Nat /\ 1 .. n = 1 .. k /\ k > 1 BY <2>2, <3>2 DEF Sized
    <3> HIDE DEF n, k
    <3>4. k \in 1 .. n BY <3>3
    <3>5. n # 1 BY <3>3, <3>4
    <3> QED BY <3>1, <3>5 DEF n
  <2>8. Uncut(d, r2, e)
    <3>1. /\ Sent(d, r2, Uncropped(d, r2), e)
          /\ e.blocks = Transformed(d, e, r2.transform, 0, 0)
      BY <2>4, <2>6, <2>7, ApplyFact
    <3> QED BY <2>4, <3>1 DEF Uncut
  <2> HIDE DEF e
  <2>9. Composed(r1.transform, r2.transform, request.transform) BY <2>1, <2>4
  <2>10. e.blocks = dst.blocks BY <2>2, <2>3, <2>6, <2>8, <2>9, SequenceFact
  <2> QED BY <2>10 DEF e, d, s
<1> QED BY <1>1, PicturesWhole, PTL

\* The inverse transform of the file written gives the first picture back, block for block,
\* with its dimensions and its tables, however its edges cut the iMCUs.
THEOREM TransformsAreReversible == Spec => []Reversible
<1>1. IInv /\ HInv => Reversible
  <2> SUFFICES ASSUME IInv, HInv, Written, Len(applied) = 2, Plain(applied[1]), Plain(applied[2]),
                      applied[2].transform = InverseOf(applied[1].transform)
               PROVE  /\ dst.blocks = original.blocks /\ dst.width = original.width
                      /\ dst.height = original.height /\ ~ dst.tables
    BY DEF Reversible
  <2> DEFINE r1 == applied[1]
             r == Plainly("none")
  <2>1. Made(original, r1, src) /\ Whole(original) /\ original.tables = FALSE
    BY DEF HInv, First
  <2>2. request = applied[2] BY DEF HInv
  <2>3. Made(src, request, dst) BY <2>2, PlainRun
  <2>4. Uncut(original, r1, src) /\ Uncut(src, request, dst)
    BY <2>1, <2>2, <2>3 DEF Made, Copied, Uncut, Plain
  <2>5. /\ Asked(r) /\ ~ r.grayscale /\ r.transform = "none"
    BY PlainlyFact DEF Transforms, Plainly
  <2>6. r1.transform \in Transforms BY <2>1 DEF Made, Copied, Asked
  <2>7. Composed(r1.transform, request.transform, r.transform)
    <3>1. request.transform = InverseOf(r1.transform) BY <2>2
    <3> HIDE DEF r, r1
    <3> QED BY <2>5, <2>6, <3>1 DEF InverseOf, Composed, Transforms, Transposing
  <2>8. Swaps(request) <=> Swaps(r1)
    <3>1. request.transform = InverseOf(r1.transform) BY <2>2
    <3> HIDE DEF r1
    <3> QED BY <2>6, <3>1 DEF InverseOf, Swaps, Transforms, Transposing
  <2> HIDE DEF r, r1
  <2>9. Gridded(original) /\ Sized(original) BY <2>1, WholeGridded DEF Whole
  <2>10. Gridded(src) /\ Sized(src) BY <2>4, <2>9, UncutGridded DEF Gridded
  <2>11. Gridded(dst) /\ Reducible(src, request) BY <2>4, <2>10, UncutGridded
  <2>12. 1 \in DOMAIN dst.comps BY <2>11 DEF Gridded, Sized
  <2>13. ASSUME NEW ci \in DOMAIN dst.comps
         PROVE  /\ DOMAIN dst.comps = DOMAIN original.comps /\ ci \in DOMAIN Resampled(original, r)
                /\ Horizontal(src, request, ci) = Horizontal(original, r, ci)
                /\ Vertical(src, request, ci) = Vertical(original, r, ci)
                /\ \A yx \in Grid(dst, ci) : dst.blocks[ci][yx] = TurnIn(original, r, ci, yx[1], yx[2])
    BY <2>4, <2>5, <2>7, <2>9, TwiceFact
  <2>14. dst.width = original.width /\ dst.height = original.height
    <3>1. /\ Horizontal(src, request, 1).size = Horizontal(original, r, 1).size
          /\ Vertical(src, request, 1).size = Vertical(original, r, 1).size
      BY <2>12, <2>13
    <3>2. dst.width = Uncropped(src, request).output_width /\ dst.height = Uncropped(src, request).output_height
      BY <2>4 DEF Uncut, Sent
    <3>3. Uncropped(original, r).output_width = original.width
          /\ Uncropped(original, r).output_height = original.height
      BY <2>5 DEF Uncropped, Transposing
    <3> QED BY <3>1, <3>2, <3>3 DEF Horizontal, Vertical
  <2>15. ASSUME NEW ci \in DOMAIN dst.comps
         PROVE  /\ Grid(dst, ci) = Grid(original, ci)
                /\ \A yx \in Grid(dst, ci) : dst.blocks[ci][yx] = original.blocks[ci][yx]
    <3>1. OnAxes(dst, ci, Horizontal(src, request, ci), Vertical(src, request, ci))
      BY <2>4, <2>10, <2>11, OutputAxes DEF Gridded, Uncut
    <3>2. OnAxes(original, ci, Horizontal(original, r, ci), Vertical(original, r, ci))
      BY <2>9, <2>13, InputAxes DEF r
    <3>3. Grid(dst, ci) = Grid(original, ci) BY <2>13, <3>1, <3>2, SameAxes
    <3>4. ASSUME NEW yx \in Grid(dst, ci) PROVE dst.blocks[ci][yx] = original.blocks[ci][yx]
      <4>1. yx = <<yx[1], yx[2]>> BY DEF Grid
      <4>2. TurnIn(original, r, ci, yx[1], yx[2])
              = Turned("none", original.blocks[ci][At("none", yx[1], yx[2], Wide(original, ci), Tall(original, ci))],
                       yx[1], yx[2], Wide(original, ci), Tall(original, ci))
        BY <2>5, <2>9, <2>13, InFact
      <4>3. At("none", yx[1], yx[2], Wide(original, ci), Tall(original, ci)) = yx BY <4>1, RoutinesFact
      <4>4. TurnIn(original, r, ci, yx[1], yx[2]) = original.blocks[ci][yx] BY <4>2, <4>3, TurnsFact
      <4> QED BY <2>13, <4>4
    <3> QED BY <3>3, <3>4
  <2>16. dst.blocks = original.blocks
    <3>1. original.blocks = [ci \in DOMAIN original.comps |->
                               [yx \in Grid(original, ci) |-> BlockAt(yx[1], yx[2])]]
      BY DEF HInv
    <3>2. original.blocks = [ci \in DOMAIN original.comps |->
                               [yx \in Grid(original, ci) |-> original.blocks[ci][yx]]]
      BY <3>1
    <3>3. DOMAIN dst.comps = DOMAIN original.comps BY <2>12, <2>13
    <3>4. dst.blocks = [ci \in DOMAIN dst.comps |-> [yx \in Grid(dst, ci) |-> dst.blocks[ci][yx]]]
      BY <2>4, UncutBlocks
    <3> QED BY <2>15, <3>2, <3>3, <3>4, BlockwiseFact
  <2>17. dst.tables = FALSE
    <3>1. dst.tables = (src.tables # Swaps(request)) /\ src.tables = (FALSE # Swaps(r1))
      BY <2>1, <2>3 DEF Made, Copied
    <3>2. CASE Swaps(r1)
      <4>1. Swaps(request) = TRUE /\ Swaps(r1) = TRUE BY <2>8, <3>2 DEF Swaps
      <4> QED BY <3>1, <4>1
    <3>3. CASE ~ Swaps(r1)
      <4>1. Swaps(request) = FALSE /\ Swaps(r1) = FALSE BY <2>8, <3>3 DEF Swaps
      <4> QED BY <3>1, <4>1
    <3> QED BY <3>2, <3>3
  <2> QED BY <2>14, <2>16, <2>17
<1> QED BY <1>1, RunsFollowTheOriginal, PTL
-------------------------------------------------------------------------------
(* Markers: the loop that keeps some of them, and what is left of a list.         *)

\* Induction over the numbers, as the set of those a statement holds of.
LEMMA Induction ==
  ASSUME NEW S \in SUBSET Nat, 0 \in S, \A n \in S : n + 1 \in S
  PROVE  S = Nat
<1> SUFFICES ASSUME Nat \ S # {} PROVE FALSE OBVIOUS
<1> DEFINE R == {p \in Nat \X Nat : p[1] < p[2]}
<1>1. IsWellFoundedOn(R, Nat) BY NatLessThanWellFounded DEF OpToRel
<1>2. PICK n \in Nat \ S : \A k \in Nat \ S : ~ (<<k, n>> \in R) BY <1>1, WFMin
<1>3. \A k \in Nat \ S : ~ (k < n) BY <1>2
<1>4. n - 1 \in S /\ n = (n - 1) + 1 BY <1>3
<1> QED BY <1>4

LEMMA AppendFact ==
  ASSUME NEW T, NEW r \in Seq(T), NEW x \in T
  PROVE  LET q == Append(r, x)
         IN /\ q \in Seq(T) /\ DOMAIN q = 1 .. Len(r) + 1 /\ q # <<>>
            /\ \A i \in 1 .. Len(r) : q[i] = r[i]
            /\ q[Len(r) + 1] = x
<1> DEFINE q == Append(r, x)
<1>1. q \in Seq(T) /\ Len(q) = Len(r) + 1 OBVIOUS
<1>2. \A i \in 1 .. Len(r) : q[i] = r[i] OBVIOUS
<1>3. q[Len(r) + 1] = x OBVIOUS
<1> HIDE DEF q
<1>4. DOMAIN q = 1 .. Len(r) + 1 BY <1>1
<1>5. q # <<>> BY <1>1
<1> QED BY <1>1, <1>2, <1>3, <1>4, <1>5 DEF q

\* The loop over the list of markers: what is kept of the first n.
IsKept(g, ms, K, n) ==
  g = [i \in 0 .. n |-> IF i = 0 THEN <<>>
                        ELSE IF ms[i].kind \in K THEN Append(g[i - 1], ms[i]) ELSE g[i - 1]]

LEMMA KeptExists ==
  ASSUME NEW ms, NEW K, NEW n \in Nat PROVE \E g : IsKept(g, ms, K, n)
<1> DEFINE S == {k \in Nat : \E g : IsKept(g, ms, K, k)}
<1>1. 0 \in S
  <2> DEFINE g == [i \in 0 .. 0 |-> <<>>]
  <2>1. IsKept(g, ms, K, 0) BY DEF IsKept
  <2> QED BY <2>1
<1>2. ASSUME NEW k \in S PROVE k + 1 \in S
  <2>1. PICK g : IsKept(g, ms, K, k) OBVIOUS
  <2> DEFINE last == IF ms[k + 1].kind \in K THEN Append(g[k], ms[k + 1]) ELSE g[k]
  <2> HIDE DEF last
  <2> DEFINE h == [i \in 0 .. k + 1 |-> IF i <= k THEN g[i] ELSE last]
  <2>2. \A i \in 0 .. k :
          g[i] = IF i = 0 THEN <<>>
                 ELSE IF ms[i].kind \in K THEN Append(g[i - 1], ms[i]) ELSE g[i - 1]
    BY <2>1 DEF IsKept
  <2>3. ASSUME NEW i \in 0 .. k + 1
        PROVE  h[i] = IF i = 0 THEN <<>>
                      ELSE IF ms[i].kind \in K THEN Append(h[i - 1], ms[i]) ELSE h[i - 1]
    <3>1. CASE i <= k
      <4>1. h[i] = g[i] /\ i \in 0 .. k BY <3>1
      <4>2. i # 0 => h[i - 1] = g[i - 1] BY <3>1
      <4> QED BY <2>2, <4>1, <4>2
    <3>2. CASE i = k + 1
      <4>1. h[i] = last /\ h[i - 1] = g[k] /\ i # 0 BY <3>2
      <4> QED BY <3>2, <4>1 DEF last
    <3> QED BY <3>1, <3>2
  <2>4. IsKept(h, ms, K, k + 1)
    <3> HIDE DEF h
    <3>1. h = [i \in 0 .. k + 1 |-> h[i]] BY DEF h
    <3> QED BY <2>3, <3>1 DEF IsKept
  <2> QED BY <2>4
<1>3. S = Nat BY <1>1, <1>2, Induction
<1> QED BY <1>3

\* r is what a filter leaves of the first n markers: they come from places at, in order,
\* and a first marker of the kinds K stays the first.
Left(r, at, ms, K, n) ==
  /\ r \in Seq(Marked) /\ at \in [DOMAIN r -> 1 .. n]
  /\ \A i \in DOMAIN r : r[i] = ms[at[i]] /\ r[i].kind \in K
  /\ \A i, j \in DOMAIN r : i < j => at[i] < at[j]
  /\ n > 0 /\ ms[1].kind \in K => r # <<>> /\ r[1] = ms[1]

LEMMA OfKindsFact ==
  ASSUME NEW ms \in Seq(Marked), NEW K
  PROVE  \E at : Left(OfKinds(ms, K), at, ms, K, Len(ms))
<1> DEFINE N == Len(ms)
           f == CHOOSE g : IsKept(g, ms, K, N)
<1>1. N \in Nat OBVIOUS
<1>2. IsKept(f, ms, K, N) BY <1>1, KeptExists
<1>3. OfKinds(ms, K) = f[N] BY DEF OfKinds, IsKept
<1> HIDE DEF f
<1>4. \A i \in 0 .. N :
        f[i] = IF i = 0 THEN <<>>
               ELSE IF ms[i].kind \in K THEN Append(f[i - 1], ms[i]) ELSE f[i - 1]
  BY <1>2 DEF IsKept
<1> DEFINE S == {n \in Nat : n <= N => \E at : Left(f[n], at, ms, K, n)}
<1>5. 0 \in S
  <2>1. f[0] = <<>> BY <1>1, <1>4
  <2>2. Left(<<>>, <<>>, ms, K, 0) BY DEF Left
  <2> QED BY <2>1, <2>2
<1>6. ASSUME NEW n \in S PROVE n + 1 \in S
  <2> SUFFICES ASSUME n + 1 <= N PROVE \E at : Left(f[n + 1], at, ms, K, n + 1) OBVIOUS
  <2>1. n \in Nat /\ n <= N /\ n + 1 \in 1 .. N BY <1>1
  <2>2. PICK at : Left(f[n], at, ms, K, n) BY <2>1
  <2>3. f[n + 1] = IF ms[n + 1].kind \in K THEN Append(f[n], ms[n + 1]) ELSE f[n]
    BY <1>4, <2>1
  <2>4. ms[n + 1] \in Marked BY <2>1
  <2> DEFINE r == f[n]
  <2>5. r \in Seq(Marked) /\ at \in [DOMAIN r -> 1 .. n] /\ DOMAIN r = 1 .. Len(r) /\ Len(r) \in Nat
    BY <2>2 DEF Left
  <2> HIDE DEF r
  <2>6. CASE ms[n + 1].kind \notin K
    <3>1. f[n + 1] = r BY <2>3, <2>6 DEF r
    <3>2. at \in [DOMAIN r -> 1 .. n + 1] BY <2>1, <2>5
    <3>3. ms[1].kind \in K => n > 0 BY <2>1, <2>6
    <3>4. Left(r, at, ms, K, n + 1) BY <2>2, <3>2, <3>3 DEF Left, r
    <3> QED BY <3>1, <3>4
  <2>7. CASE ms[n + 1].kind \in K
    <3> DEFINE q == Append(r, ms[n + 1])
               to == [i \in 1 .. Len(r) + 1 |-> IF i <= Len(r) THEN at[i] ELSE n + 1]
    <3>1. f[n + 1] = q BY <2>3, <2>7 DEF r
    <3>2. /\ q \in Seq(Marked) /\ DOMAIN q = 1 .. Len(r) + 1 /\ q # <<>>
          /\ \A i \in 1 .. Len(r) : q[i] = r[i]
          /\ q[Len(r) + 1] = ms[n + 1]
      BY <2>4, <2>5, AppendFact
    <3> HIDE DEF q
    <3>3. to \in [DOMAIN q -> 1 .. n + 1] BY <2>1, <2>5, <3>2
    <3>4. ASSUME NEW i \in DOMAIN q PROVE q[i] = ms[to[i]] /\ q[i].kind \in K
      <4>1. CASE i <= Len(r)
        <5>1. i \in DOMAIN r /\ to[i] = at[i] /\ q[i] = r[i] BY <2>5, <3>2, <4>1
        <5> QED BY <2>2, <5>1 DEF Left, r
      <4>2. CASE i = Len(r) + 1
        <5>1. to[i] = n + 1 /\ q[i] = ms[n + 1] BY <2>5, <3>2, <4>2
        <5> QED BY <2>7, <5>1
      <4> QED BY <2>5, <3>2, <4>1, <4>2
    <3>5. ASSUME NEW i \in DOMAIN q, NEW j \in DOMAIN q, i < j PROVE to[i] < to[j]
      <4>1. i \in DOMAIN r /\ to[i] = at[i] /\ at[i] \in 1 .. n BY <2>5, <3>2, <3>5
      <4>2. CASE j <= Len(r)
        <5>1. j \in DOMAIN r /\ to[j] = at[j] BY <2>5, <3>2, <4>2
        <5> QED BY <2>2, <3>5, <4>1, <5>1 DEF Left, r
      <4>3. CASE j = Len(r) + 1 BY <2>1, <2>5, <4>1, <4>3
      <4> QED BY <2>5, <3>2, <4>2, <4>3
    <3>6. ms[1].kind \in K => q # <<>> /\ q[1] = ms[1]
      <4> SUFFICES ASSUME ms[1].kind \in K PROVE q[1] = ms[1] BY <3>2
      <4>1. CASE n = 0
        <5>1. DOMAIN r = {} BY <2>5, <4>1
        <5>2. Len(r) = 0 BY <2>5, <5>1
        <5> QED BY <3>2, <4>1, <5>2
      <4>2. CASE n > 0
        <5>1. r # <<>> /\ r[1] = ms[1] BY <2>2, <4>2 DEF Left, r
        <5>2. 1 \in 1 .. Len(r) BY <2>5, <5>1
        <5> QED BY <3>2, <5>1, <5>2
      <4> QED BY <2>1, <4>1, <4>2
    <3> HIDE DEF to
    <3>7. Left(q, to, ms, K, n + 1) BY <3>2, <3>3, <3>4, <3>5, <3>6 DEF Left
    <3> QED BY <3>1, <3>7
  <2> QED BY <2>6, <2>7
<1>7. S = Nat BY <1>5, <1>6, Induction
<1> QED BY <1>1, <1>3, <1>7

\* Sound markers are sound in part.
LEMMA SoundKept ==
  ASSUME NEW ms, SoundMarkers(ms), NEW K
  PROVE  LET r == OfKinds(ms, K)
         IN /\ SoundMarkers(r) /\ \A i \in DOMAIN r : r[i].kind \in K
            /\ ms # <<>> /\ ms[1].kind \in K => r # <<>> /\ r[1] = ms[1]
<1> DEFINE r == OfKinds(ms, K)
<1>1. ms \in Seq(Marked) BY DEF SoundMarkers
<1>2. PICK at : Left(r, at, ms, K, Len(ms)) BY <1>1, OfKindsFact
<1> HIDE DEF r
<1>3. /\ r \in Seq(Marked) /\ DOMAIN ms = 1 .. Len(ms)
      /\ \A i \in DOMAIN r : at[i] \in DOMAIN ms /\ r[i] = ms[at[i]] /\ r[i].kind \in K
  BY <1>1, <1>2 DEF Left
<1>4. DOMAIN r = 1 .. Len(r) /\ Len(r) \in Nat BY <1>3
<1>5. ASSUME NEW i \in DOMAIN r, NEW j \in DOMAIN r,
             r[i].kind = r[j].kind, r[i].kind \in {"JFIF", "Adobe"}
      PROVE  i = j
  <2>1. at[i] = at[j] BY <1>3, <1>5 DEF SoundMarkers
  <2>2. at[i] \in Int BY <1>1, <1>3
  <2>3. ~ (i < j) /\ ~ (j < i) BY <1>2, <2>1, <2>2 DEF Left
  <2> QED BY <1>4, <2>3
<1>6. \A i \in DOMAIN r : r[i].kind = "Exif" => DirectoriesApart(r[i].data)
  BY <1>3 DEF SoundMarkers
<1>7. SoundMarkers(r) BY <1>3, <1>5, <1>6 DEF SoundMarkers
<1>8. ms # <<>> => Len(ms) > 0 BY <1>1
<1>9. ms # <<>> /\ ms[1].kind \in K => r # <<>> /\ r[1] = ms[1] BY <1>2, <1>8 DEF Left
<1> QED BY <1>3, <1>7, <1>9 DEF r

-------------------------------------------------------------------------------
(* The bytes of a TIFF structure.                                                 *)

LEMMA Smallest ==
  ASSUME NEW S \in SUBSET Nat, S # {}
  PROVE  Min(S) \in S /\ \A k \in S : Min(S) <= k
<1> DEFINE R == {p \in Nat \X Nat : p[1] < p[2]}
<1>1. IsWellFoundedOn(R, Nat) BY NatLessThanWellFounded DEF OpToRel
<1>2. PICK n \in S : \A k \in S : ~ (<<k, n>> \in R) BY <1>1, WFMin
<1>3. \A k \in S : ~ (k < n) BY <1>2
<1>4. \A k \in S : n <= k BY <1>3
<1> QED BY <1>4 DEF Min

LEMMA ByteFact == \A x : x \in Byte <=> x \in Nat /\ x <= 255
<1>1. \A n \in Nat : \A x : x \in 0 .. n <=> x \in Nat /\ x <= n BY SMT
<1>2. 255 \in Nat BY SMT
<1> QED BY <1>1, <1>2, Zenon DEF Byte

\* Numbers read within the data.
LEMMA GetFact ==
  ASSUME NEW data \in Seq(Byte), NEW o \in Nat, o + 2 <= Len(data)
  PROVE  Get16(data, o) \in Nat
<1>1. data[o + 1] \in Byte /\ data[o + 2] \in Byte BY SMT
<1>2. ByteAt(data, o) = data[o + 1] /\ ByteAt(data, o + 1) = data[o + 2] BY DEF ByteAt
<1>3. /\ ByteAt(data, o) \in Nat /\ ByteAt(data, o) <= 255
      /\ ByteAt(data, o + 1) \in Nat /\ ByteAt(data, o + 1) <= 255
  BY <1>1, <1>2, ByteFact
<1> DEFINE a == ByteAt(data, o)
           b == ByteAt(data, o + 1)
<1>4. Get16(data, o) = a * 256 + b \/ Get16(data, o) = b * 256 + a BY DEF Get16
<1> HIDE DEF a, b
<1>5. a \in Nat /\ a <= 255 /\ b \in Nat /\ b <= 255 BY <1>3 DEF a, b
<1>6. a * 256 + b \in Nat /\ b * 256 + a \in Nat
  BY <1>5, SMT
<1> QED BY <1>4, <1>6

\* The entries of a directory do not overlap.
LEMMA EntriesFact ==
  ASSUME NEW data \in Seq(Byte), NEW ifd \in Nat, ifd + 2 <= Len(data)
  PROVE  /\ Entries(data, ifd) \subseteq Nat
         /\ \A o \in Entries(data, ifd) :
              /\ ifd + 2 <= o /\ o + 12 <= Len(data)
              /\ o + 12 <= ifd + 2 + 12 * Get16(data, ifd)
         /\ \A o, p \in Entries(data, ifd) : o = p \/ o + 12 <= p \/ p + 12 <= o
<1> DEFINE n == Get16(data, ifd)
<1>1. n \in Nat BY GetFact
<1>2. Len(data) \in Nat OBVIOUS
<1>3. Entries(data, ifd) = {o \in {ifd + 2 + 12 * i : i \in 0 .. n - 1} : o <= Len(data) - 12}
  BY DEF Entries
<1> HIDE DEF n
<1>4. \A o \in Entries(data, ifd) : \E i \in 0 .. n - 1 : o = ifd + 2 + 12 * i /\ o <= Len(data) - 12
  BY <1>3
<1>5. ASSUME NEW o \in Entries(data, ifd)
      PROVE  o \in Nat /\ ifd + 2 <= o /\ o + 12 <= Len(data) /\ o + 12 <= ifd + 2 + 12 * n
  <2>1. PICK i \in 0 .. n - 1 : o = ifd + 2 + 12 * i /\ o <= Len(data) - 12 BY <1>4
  <2> QED BY <1>1, <1>2, <2>1
<1>6. ASSUME NEW o \in Entries(data, ifd), NEW p \in Entries(data, ifd)
      PROVE  o = p \/ o + 12 <= p \/ p + 12 <= o
  <2>1. PICK i \in 0 .. n - 1 : o = ifd + 2 + 12 * i BY <1>4
  <2>2. PICK j \in 0 .. n - 1 : p = ifd + 2 + 12 * j BY <1>4
  <2>3. i \in Int /\ j \in Int BY <1>1
  <2> QED BY <2>1, <2>2, <2>3
<1> QED BY <1>5, <1>6 DEF n

\* Where a structure that can be adjusted has its parts.
LEMMA AdjustableFact ==
  ASSUME NEW data \in Seq(Byte), Adjustable(data)
  PROVE  /\ IFD0(data) \in Nat /\ IFD0(data) + 2 <= Len(data)
         /\ ExifIFD(data) \in Nat /\ ExifIFD(data) + 2 <= Len(data)
         /\ \E p \in Entries(data, IFD0(data)) :
              p \in Nat /\ p + 12 <= Len(data) /\ ExifPointer(data) = p + 8
         /\ Len(data) \in Nat /\ Len(data) >= 12
<1>1. Len(data) \in Nat /\ Len(data) >= 12 BY DEF Adjustable
<1>2. IFD0(data) \in Nat /\ IFD0(data) + 2 <= Len(data)
  <2>1. IFD0(data) = Get16(data, IF Motorola(data) THEN 6 ELSE 4) BY DEF IFD0, Low16
  <2>2. IFD0(data) \in Nat BY <1>1, <2>1, GetFact
  <2>3. IFD0(data) <= Len(data) - 2 BY DEF Adjustable
  <2> QED BY <1>1, <2>2, <2>3
<1> DEFINE E == Entries(data, IFD0(data))
           T == Tagged(data, IFD0(data), {34665})
<1>3. E \in SUBSET Nat /\ \A o \in E : o + 12 <= Len(data) BY <1>2, EntriesFact
<1>4. T \in SUBSET E /\ T # {} BY DEF Tagged, Adjustable
<1>5. Min(T) \in T BY <1>3, <1>4, Smallest
<1>6. Min(T) \in E /\ Min(T) \in Nat /\ Min(T) + 12 <= Len(data) BY <1>3, <1>4, <1>5
<1>7. ExifPointer(data) = Min(T) + 8 BY DEF ExifPointer
<1> HIDE DEF T, E
<1>8. ExifIFD(data) \in Nat /\ ExifIFD(data) + 2 <= Len(data)
  <2>1. ExifIFD(data) = Get16(data, IF Motorola(data) THEN Min(T) + 10 ELSE Min(T) + 8)
    BY <1>6, <1>7 DEF ExifIFD, Low16
  <2>2. ExifIFD(data) \in Nat BY <1>1, <1>6, <2>1, GetFact
  <2>3. ExifIFD(data) <= Len(data) - 2 BY DEF Adjustable
  <2> QED BY <1>1, <2>2, <2>3
<1> QED BY <1>1, <1>2, <1>6, <1>7, <1>8 DEF E

LEMMA Twelve ==
  ASSUME NEW a, NEW b, NEW c, NEW d, NEW e, NEW f, NEW g, NEW h, NEW i, NEW j, NEW k, NEW l
  PROVE  LET t == <<a, b, c, d, e, f, g, h, i, j, k, l>>
         IN /\ t[1] = a /\ t[2] = b /\ t[3] = c /\ t[4] = d /\ t[5] = e /\ t[6] = f
            /\ t[7] = g /\ t[8] = h /\ t[9] = i /\ t[10] = j /\ t[11] = k /\ t[12] = l
BY SMT

Short == 0 .. 65535
LowByte(value) == value % 256
HighByte(value) == (value \div 256) % 256

LEMMA ShortFact == \A x : x \in Short <=> x \in Nat /\ x <= 65535
<1>1. \A n \in Nat : \A x : x \in 0 .. n <=> x \in Nat /\ x <= n BY SMT
<1>2. 65535 \in Nat BY SMT
<1> DEFINE N == 65535
<1> HIDE DEF N
<1>3. N \in Nat BY <1>2 DEF N
<1>4. Short = 0 .. N BY SMT DEF Short, N
<1>5. \A x : x \in 0 .. N <=> x \in Nat /\ x <= N BY <1>1, <1>3
<1>6. N = 65535 BY DEF N
<1>7. \A x : x \in Short <=> x \in Nat /\ x <= N BY <1>4, <1>5
<1> QED BY <1>6, <1>7, SMT

\* The bytes of a number below 2^16.
LEMMA BytesFact ==
  ASSUME NEW value \in Short
  PROVE  /\ LowByte(value) \in Byte /\ HighByte(value) \in Byte
         /\ HighByte(value) * 256 + LowByte(value) = value
<1> DEFINE q == value \div 256
           r == value % 256
<1>1. value \in Nat /\ value <= 65535 BY ShortFact, SMT
<1>2. value = q * 256 + r /\ q \in Nat /\ q <= 255 /\ r \in Nat /\ r <= 255 BY <1>1, SMT
<1>3. LowByte(value) = r /\ HighByte(value) = q % 256 BY SMT DEF LowByte, HighByte
<1> HIDE DEF q, r
<1>4. q % 256 = q BY <1>2, SMT
<1>5. q \in Byte /\ r \in Byte BY <1>2, ByteFact, SMT
<1> QED BY <1>2, <1>3, <1>4, <1>5, SMT

\* The twelve bytes of an entry as rewritten.
LEMMA DimensionFact ==
  ASSUME NEW a \in Byte, NEW b \in Byte, NEW value \in Short, NEW motorola \in BOOLEAN
  PROVE  LET e == DimensionEntry(<<a, b>>, value, motorola)
         IN /\ \A k \in 1 .. 12 : e[k] \in Byte
            /\ e[1] = a /\ e[2] = b
            /\ IF motorola THEN e[9] = 0 /\ e[10] = 0 /\ e[11] = HighByte(value) /\ e[12] = LowByte(value)
               ELSE e[9] = LowByte(value) /\ e[10] = HighByte(value) /\ e[11] = 0 /\ e[12] = 0
<1> DEFINE low == LowByte(value)
           high == HighByte(value)
           e == DimensionEntry(<<a, b>>, value, motorola)
<1>1. e = IF motorola THEN <<a, b, 0, 4, 0, 0, 0, 1, 0, 0, high, low>>
          ELSE <<a, b, 4, 0, 1, 0, 0, 0, low, high, 0, 0>>
  BY SMT DEF DimensionEntry, LowByte, HighByte
<1>2. low \in Byte /\ high \in Byte BY BytesFact, SMT
<1>3. 0 \in Byte /\ 1 \in Byte /\ 4 \in Byte BY ByteFact, SMT
<1> HIDE DEF low, high, e
<1>4. CASE motorola
  <2>1. /\ e[1] = a /\ e[2] = b /\ e[3] = 0 /\ e[4] = 4 /\ e[5] = 0 /\ e[6] = 0 /\ e[7] = 0
        /\ e[8] = 1 /\ e[9] = 0 /\ e[10] = 0 /\ e[11] = high /\ e[12] = low
    <3>1. e = <<a, b, 0, 4, 0, 0, 0, 1, 0, 0, high, low>> BY <1>1, <1>4
    <3> QED BY <3>1, Twelve, Zenon
  <2>2. \A k \in 1 .. 12 : e[k] \in Byte BY <1>2, <1>3, <2>1, SMT
  <2> QED BY <1>4, <2>1, <2>2 DEF e, low, high
<1>5. CASE ~ motorola
  <2>1. /\ e[1] = a /\ e[2] = b /\ e[3] = 4 /\ e[4] = 0 /\ e[5] = 1 /\ e[6] = 0 /\ e[7] = 0
        /\ e[8] = 0 /\ e[9] = low /\ e[10] = high /\ e[11] = 0 /\ e[12] = 0
    <3>1. e = <<a, b, 4, 0, 1, 0, 0, 0, low, high, 0, 0>> BY <1>1, <1>5
    <3> QED BY <3>1, Twelve, Zenon
  <2>2. \A k \in 1 .. 12 : e[k] \in Byte BY <1>2, <1>3, <2>1, SMT
  <2> QED BY <1>5, <2>1, <2>2 DEF e, low, high
<1> QED BY <1>4, <1>5 DEF e, low, high

-------------------------------------------------------------------------------
(* The entries for the size, rewritten.                                           *)

\* new has the same header, directories and tags as data: whatever was found in data is
\* found in new.
Alike(data, new) ==
  /\ Len(new) = Len(data) /\ Motorola(new) = Motorola(data)
  /\ ByteAt(new, 0) = ByteAt(data, 0) /\ ByteAt(new, 1) = ByteAt(data, 1)
  /\ \A o \in {2, 4, 6} : Get16(new, o) = Get16(data, o)
  /\ Get16(new, IFD0(data)) = Get16(data, IFD0(data))
  /\ \A p \in Entries(data, IFD0(data)) : \A o \in {p, p + 8, p + 10} : Get16(new, o) = Get16(data, o)
  /\ Get16(new, ExifIFD(data)) = Get16(data, ExifIFD(data))
  /\ \A p \in Entries(data, ExifIFD(data)) : Get16(new, p) = Get16(data, p)

LEMMA AlikeFact ==
  ASSUME NEW data \in Seq(Byte), Adjustable(data), NEW new, Alike(data, new)
  PROVE  /\ IFD0(new) = IFD0(data) /\ SizeEntries(new) = SizeEntries(data)
         /\ \A o \in SizeEntries(data) : Get16(new, o) = Get16(data, o)
<1> DEFINE m == Motorola(data)
           i0 == IFD0(data)
           x == ExifIFD(data)
<1>1. PICK p \in Entries(data, i0) : p \in Nat /\ ExifPointer(data) = p + 8 BY AdjustableFact
<1>2. IFD0(new) = i0
  <2>1. IFD0(data) = Get16(data, IF m THEN 6 ELSE 4) BY DEF IFD0, Low16
  <2>2. IFD0(new) = Get16(new, IF m THEN 6 ELSE 4) BY DEF IFD0, Low16, Alike
  <2> QED BY <2>1, <2>2 DEF Alike
<1>3. Entries(new, i0) = Entries(data, i0) BY DEF Entries, Alike
<1>4. Tagged(new, i0, {34665}) = Tagged(data, i0, {34665}) BY <1>3 DEF Tagged, Alike
<1>5. ExifPointer(new) = p + 8 BY <1>1, <1>2, <1>4 DEF ExifPointer
<1>6. ExifIFD(new) = x
  <2>1. x = Get16(data, IF m THEN p + 10 ELSE p + 8) BY <1>1 DEF ExifIFD, Low16
  <2>2. ExifIFD(new) = Get16(new, IF m THEN p + 10 ELSE p + 8) BY <1>1, <1>5 DEF ExifIFD, Low16, Alike
  <2> QED BY <1>1, <2>1, <2>2 DEF Alike
<1>7. Entries(new, x) = Entries(data, x) BY DEF Entries, Alike
<1>8. \A T : Tagged(new, x, T) = Tagged(data, x, T) BY <1>7 DEF Tagged, Alike
<1>9. SizeEntries(new) = SizeEntries(data) BY <1>6, <1>8 DEF SizeEntries
<1>10. SizeEntries(data) \subseteq Entries(data, x) BY DEF SizeEntries, Tagged
<1> QED BY <1>2, <1>9, <1>10 DEF Alike

\* What is rewritten of the data, byte by byte.
LEMMA RewrittenFact ==
  ASSUME NEW data \in Seq(Byte), Adjustable(data), NEW w \in Short, NEW h \in Short
  PROVE  LET new == adjust_exif_parameters(data, w, h)
         IN /\ new \in Seq(Byte) /\ Len(new) = Len(data)
            /\ \A n \in 1 .. Len(data) :
                 (\A o \in SizeEntries(data) : n \notin o + 1 .. o + 12) => new[n] = data[n]
            /\ \A o \in SizeEntries(data) : \A k \in 1 .. 12 :
                 new[o + k] = DimensionEntry(<<data[o + 1], data[o + 2]>>,
                                IF Get16(data, o) = 40962 THEN w ELSE h, Motorola(data))[k]
<1> DEFINE S == SizeEntries(data)
           L == Len(data)
           entry(o) == DimensionEntry(<<data[o + 1], data[o + 2]>>,
                         IF Get16(data, o) = 40962 THEN w ELSE h, Motorola(data))
           here(n) == {o \in S : n \in o + 1 .. o + 12}
           new == adjust_exif_parameters(data, w, h)
<1>1. new = [n \in 1 .. L |->
               IF here(n) = {} THEN data[n] ELSE entry(Min(here(n)))[n - Min(here(n))]]
  BY SMT DEF adjust_exif_parameters
<1>2. S \subseteq Entries(data, ExifIFD(data)) BY DEF SizeEntries, Tagged
<1>3. /\ L \in Nat
      /\ \A o \in S : o \in Nat /\ o + 12 <= L
      /\ \A o, p \in S : o = p \/ o + 12 <= p \/ p + 12 <= o
  BY <1>2, AdjustableFact, EntriesFact
<1>4. \A o \in S : \A k \in 1 .. 12 : entry(o)[k] \in Byte
  <2> SUFFICES ASSUME NEW o \in S PROVE \A k \in 1 .. 12 : entry(o)[k] \in Byte OBVIOUS
  <2>1. data[o + 1] \in Byte /\ data[o + 2] \in Byte BY <1>3
  <2>2. (IF Get16(data, o) = 40962 THEN w ELSE h) \in Short OBVIOUS
  <2>3. Motorola(data) \in BOOLEAN BY DEF Motorola
  <2> DEFINE value == IF Get16(data, o) = 40962 THEN w ELSE h
             a == data[o + 1]
             b == data[o + 2]
             m == Motorola(data)
  <2> HIDE DEF value, a, b, m
  <2>4. a \in Byte /\ b \in Byte /\ value \in Short /\ m \in BOOLEAN BY <2>1, <2>2, <2>3 DEF value, a, b, m
  <2>5. \A k \in 1 .. 12 : DimensionEntry(<<a, b>>, value, m)[k] \in Byte BY <2>4, DimensionFact
  <2> QED BY <2>5 DEF value, a, b, m
<1> HIDE DEF S, L, entry, new
<1>5. ASSUME NEW o \in S, NEW k \in 1 .. 12
      PROVE  o + k \in 1 .. L /\ new[o + k] = entry(o)[k]
  <2>1. o + k \in 1 .. L /\ o \in Nat BY <1>3
  <2>2. here(o + k) = {o}
    <3>1. o \in here(o + k) BY <2>1
    <3>2. ASSUME NEW p \in here(o + k) PROVE p = o
      <4>1. p \in S /\ p + 1 <= o + k /\ o + k <= p + 12 BY <3>2, <1>3
      <4> QED BY <1>3, <2>1, <4>1
    <3> QED BY <3>1, <3>2
  <2> DEFINE H == here(o + k)
  <2>3. H = {o} BY <2>2
  <2>4. new[o + k] = IF H = {} THEN data[o + k] ELSE entry(Min(H))[(o + k) - Min(H)] BY <1>1, <2>1
  <2> HIDE DEF H
  <2>5. H \in SUBSET Nat /\ H # {} BY <2>1, <2>3
  <2>6. Min(H) = o BY <2>3, <2>5, Smallest
  <2>7. (o + k) - o = k BY <2>1
  <2> QED BY <2>1, <2>4, <2>5, <2>6, <2>7
<1>6. ASSUME NEW n \in 1 .. L, \A o \in S : n \notin o + 1 .. o + 12
      PROVE  new[n] = data[n]
  <2>1. here(n) = {} BY <1>6
  <2> QED BY <1>1, <2>1
<1>7. new \in Seq(Byte) /\ Len(new) = L
  <2>1. ASSUME NEW n \in 1 .. L PROVE new[n] \in Byte
    <3>1. CASE \A o \in S : n \notin o + 1 .. o + 12
      <4>1. new[n] = data[n] BY <1>6, <3>1
      <4>2. data[n] \in Byte BY DEF L
      <4> QED BY <4>1, <4>2
    <3>2. CASE ~ (\A o \in S : n \notin o + 1 .. o + 12)
      <4>1. PICK o \in S : n \in o + 1 .. o + 12 BY <3>2
      <4> DEFINE k == n - o
      <4>3. o \in Nat /\ n \in Int BY <1>3
      <4>2. k \in 1 .. 12 /\ n = o + k BY <4>1, <4>3
      <4> HIDE DEF k
      <4> QED BY <1>4, <1>5, <4>2
    <3> QED BY <3>1, <3>2
  <2>2. new = [n \in 1 .. L |-> new[n]]
    <3> DEFINE byte(n) == IF here(n) = {} THEN data[n] ELSE entry(Min(here(n)))[n - Min(here(n))]
    <3>1. new = [n \in 1 .. L |-> byte(n)] BY <1>1
    <3> HIDE DEF byte
    <3> QED BY <3>1
  <2>3. new \in [1 .. L -> Byte] BY <2>1, <2>2
  <2> QED BY <1>3, <2>3
<1> QED BY <1>5, <1>6, <1>7 DEF S, L, entry, new

\* Two bytes that stay make a number that stays.
LEMMA SameNumber ==
  ASSUME NEW data, NEW new, Motorola(new) = Motorola(data), NEW o \in Nat,
         new[o + 1] = data[o + 1], new[o + 2] = data[o + 2]
  PROVE  Get16(new, o) = Get16(data, o)
<1>1. (o + 1) + 1 = o + 2 OBVIOUS
<1>2. ByteAt(new, o) = ByteAt(data, o) /\ ByteAt(new, o + 1) = ByteAt(data, o + 1) BY <1>1, Zenon DEF ByteAt
<1> QED BY <1>2 DEF Get16

\* Directories that are apart are found again after the change, and the entries for the
\* size state what the picture has.
LEMMA AdjustedFact ==
  ASSUME NEW data \in Seq(Byte), DirectoriesApart(data), NEW w \in Short, NEW h \in Short
  PROVE  LET new == adjust_exif_parameters(data, w, h)
         IN new \in Seq(Byte) /\ DirectoriesApart(new) /\ StatesSize(new, w, h)
<1> DEFINE new == adjust_exif_parameters(data, w, h)
<1>1. CASE ~ Adjustable(data)
  <2>1. new = data BY <1>1, SMT DEF adjust_exif_parameters
  <2> HIDE DEF new
  <2>2. StatesSize(new, w, h) BY <1>1, <2>1 DEF StatesSize
  <2> QED BY <2>1, <2>2 DEF new
<1>2. CASE Adjustable(data)
  <2> DEFINE S == SizeEntries(data)
             L == Len(data)
             i0 == IFD0(data)
             x == ExifIFD(data)
             m == Motorola(data)
             value(o) == IF Get16(data, o) = 40962 THEN w ELSE h
             entry(o) == DimensionEntry(<<data[o + 1], data[o + 2]>>, value(o), m)
  <2>1. /\ new \in Seq(Byte) /\ Len(new) = L
        /\ \A n \in 1 .. L : (\A o \in S : n \notin o + 1 .. o + 12) => new[n] = data[n]
        /\ \A o \in S : \A k \in 1 .. 12 : new[o + k] = entry(o)[k]
    BY <1>2, RewrittenFact
  <2>2. i0 \in Nat /\ i0 + 2 <= L /\ x \in Nat /\ x + 2 <= L /\ L \in Nat /\ L >= 12 BY <1>2, AdjustableFact
  <2>3. S \subseteq Entries(data, x) BY DEF SizeEntries, Tagged
  <2>4. /\ \A o \in Entries(data, x) : o \in Nat /\ x + 2 <= o /\ o + 12 <= L
        /\ \A o, p \in Entries(data, x) : o = p \/ o + 12 <= p \/ p + 12 <= o
    BY <2>2, EntriesFact
  <2>5. Get16(data, i0) \in Nat BY <2>2, GetFact
  <2> DEFINE end == i0 + 2 + 12 * Get16(data, i0)
  <2>6. end \in Nat /\ i0 + 2 <= end BY <2>2, <2>5
  <2>7. \A p \in Entries(data, i0) : p \in Nat /\ i0 + 2 <= p /\ p + 12 <= L /\ p + 12 <= end
    BY <2>2, EntriesFact
  <2>8. \A o \in S : o \in Nat /\ o >= 8 /\ (o + 12 <= i0 \/ end <= o)
    BY <1>2, <2>3, <2>4 DEF DirectoriesApart
  <2>9. \A o \in S : /\ data[o + 1] \in Byte /\ data[o + 2] \in Byte
    <3> SUFFICES ASSUME NEW o \in S PROVE data[o + 1] \in Byte /\ data[o + 2] \in Byte OBVIOUS
    <3>1. o \in Nat /\ o + 12 <= L BY <2>3, <2>4
    <3> QED BY <2>2, <3>1
  <2>10. m \in BOOLEAN BY DEF Motorola
  <2>11. \A o \in S : value(o) \in Short OBVIOUS
  <2> HIDE DEF new, S, L, i0, x, end, m, value
  \* Bytes away from the entries for the size stay.
  <2>12. ASSUME NEW n \in 1 .. L, \A o \in S : n <= o \/ o + 12 < n PROVE new[n] = data[n]
    <3>1. ASSUME NEW o \in S, n \in o + 1 .. o + 12 PROVE FALSE
      <4>1. o \in Nat /\ n \in Int BY <2>8
      <4>2. n <= o \/ o + 12 < n BY <2>12
      <4> QED BY <3>1, <4>1, <4>2
    <3> QED BY <2>1, <3>1
  <2>13. ASSUME NEW n \in 1 .. 8 PROVE new[n] = data[n]
    <3>1. n \in 1 .. L BY <2>2
    <3>2. \A o \in S : n <= o BY <2>8
    <3> QED BY <2>12, <3>1, <3>2
  <2>14. Motorola(new) = m BY <2>13 DEF Motorola, ByteAt, m
  <2>15. \A o \in {2, 4, 6} : Get16(new, o) = Get16(data, o)
    <3>1. ASSUME NEW o \in {2, 4, 6} PROVE Get16(new, o) = Get16(data, o)
      <4>1. o \in Nat /\ o + 1 \in 1 .. 8 /\ o + 2 \in 1 .. 8 OBVIOUS
      <4> QED BY <2>13, <2>14, <4>1, SameNumber DEF m
    <3> QED BY <3>1
  <2>16. Get16(new, i0) = Get16(data, i0)
    <3>1. i0 + 1 \in 1 .. L /\ i0 + 2 \in 1 .. L BY <2>2
    <3>2. ASSUME NEW o \in S PROVE (i0 + 1 <= o /\ i0 + 2 <= o) \/ o + 12 < i0 + 1
      <4>1. o \in Nat /\ (o + 12 <= i0 \/ end <= o) BY <2>8
      <4> QED BY <2>2, <2>6, <4>1
    <3>3. \A o \in S : /\ i0 + 1 <= o \/ o + 12 < i0 + 1
                       /\ i0 + 2 <= o \/ o + 12 < i0 + 2
      BY <2>2, <2>8, <3>2
    <3>4. new[i0 + 1] = data[i0 + 1] /\ new[i0 + 2] = data[i0 + 2] BY <2>12, <3>1, <3>3
    <3> QED BY <2>2, <2>14, <3>4, SameNumber DEF m
  <2>17. ASSUME NEW p \in Entries(data, i0) PROVE \A o \in {p, p + 8, p + 10} : Get16(new, o) = Get16(data, o)
    <3>1. p \in Nat /\ i0 + 2 <= p /\ p + 12 <= L /\ p + 12 <= end BY <2>7
    <3>2. ASSUME NEW k \in 1 .. 12 PROVE new[p + k] = data[p + k]
      <4>1. p + k \in 1 .. L BY <2>2, <3>1
      <4>2. ASSUME NEW o \in S PROVE p + k <= o \/ o + 12 < p + k
        <5>1. o \in Nat /\ (o + 12 <= i0 \/ end <= o) BY <2>8
        <5> QED BY <2>2, <2>6, <3>1, <5>1
      <4> QED BY <2>12, <4>1, <4>2
    <3>3. Get16(new, p) = Get16(data, p) BY <2>14, <3>1, <3>2, SameNumber DEF m
    <3>4. Get16(new, p + 8) = Get16(data, p + 8)
      <4> DEFINE o == p + 8
      <4>1. o \in Nat /\ o + 1 = p + 9 /\ o + 2 = p + 10 BY <3>1
      <4>2. new[p + 9] = data[p + 9] /\ new[p + 10] = data[p + 10] BY <3>2
      <4> HIDE DEF o
      <4>3. Get16(new, o) = Get16(data, o) BY <2>14, <4>1, <4>2, SameNumber DEF m
      <4> QED BY <4>3 DEF o
    <3>5. Get16(new, p + 10) = Get16(data, p + 10)
      <4> DEFINE o == p + 10
      <4>1. o \in Nat /\ o + 1 = p + 11 /\ o + 2 = p + 12 BY <3>1
      <4>2. new[p + 11] = data[p + 11] /\ new[p + 12] = data[p + 12] BY <3>2
      <4> HIDE DEF o
      <4>3. Get16(new, o) = Get16(data, o) BY <2>14, <4>1, <4>2, SameNumber DEF m
      <4> QED BY <4>3 DEF o
    <3> QED BY <3>3, <3>4, <3>5
  <2>18. Get16(new, x) = Get16(data, x)
    <3>1. x + 1 \in 1 .. L /\ x + 2 \in 1 .. L BY <2>2
    <3>2. \A o \in S : x + 1 <= o /\ x + 2 <= o BY <2>2, <2>3, <2>4
    <3>3. new[x + 1] = data[x + 1] /\ new[x + 2] = data[x + 2] BY <2>12, <3>1, <3>2
    <3> QED BY <2>2, <2>14, <3>3, SameNumber DEF m
  <2>19. ASSUME NEW o \in S
         PROVE  /\ entry(o)[1] = data[o + 1] /\ entry(o)[2] = data[o + 2]
                /\ IF m THEN /\ entry(o)[9] = 0 /\ entry(o)[10] = 0
                             /\ entry(o)[11] = HighByte(value(o)) /\ entry(o)[12] = LowByte(value(o))
                   ELSE /\ entry(o)[9] = LowByte(value(o)) /\ entry(o)[10] = HighByte(value(o))
                        /\ entry(o)[11] = 0 /\ entry(o)[12] = 0
    <3> DEFINE a == data[o + 1]
               b == data[o + 2]
               v == value(o)
    <3>1. a \in Byte /\ b \in Byte /\ v \in Short BY <2>9, <2>11
    <3>2. entry(o) = DimensionEntry(<<a, b>>, v, m) OBVIOUS
    <3> HIDE DEF a, b, v, entry
    <3>3. LET e == DimensionEntry(<<a, b>>, v, m)
          IN /\ e[1] = a /\ e[2] = b
             /\ IF m THEN e[9] = 0 /\ e[10] = 0 /\ e[11] = HighByte(v) /\ e[12] = LowByte(v)
                ELSE e[9] = LowByte(v) /\ e[10] = HighByte(v) /\ e[11] = 0 /\ e[12] = 0
      BY <2>10, <3>1, DimensionFact
    <3> QED BY <3>2, <3>3 DEF a, b, v
  <2> HIDE DEF entry
  <2>20. ASSUME NEW p \in Entries(data, x) PROVE Get16(new, p) = Get16(data, p)
    <3>1. p \in Nat /\ p + 12 <= L BY <2>4
    <3>2. new[p + 1] = data[p + 1] /\ new[p + 2] = data[p + 2]
      <4>1. CASE p \in S BY <2>1, <2>19, <4>1
      <4>2. CASE p \notin S
        <5>1. p + 1 \in 1 .. L /\ p + 2 \in 1 .. L BY <2>2, <3>1
        <5>2. ASSUME NEW o \in S PROVE /\ p + 1 <= o \/ o + 12 < p + 1
                                       /\ p + 2 <= o \/ o + 12 < p + 2
          <6>1. o \in Nat /\ (o + 12 <= p \/ p + 12 <= o) BY <2>3, <2>4, <4>2
          <6> QED BY <3>1, <6>1
        <5> QED BY <2>12, <5>1, <5>2
      <4> QED BY <4>1, <4>2
    <3> QED BY <2>14, <3>1, <3>2, SameNumber DEF m
  <2>21. Alike(data, new)
    <3>1. ByteAt(new, 0) = ByteAt(data, 0) /\ ByteAt(new, 1) = ByteAt(data, 1) BY <2>13 DEF ByteAt
    <3> QED BY <2>1, <2>14, <2>15, <2>16, <2>17, <2>18, <2>20, <3>1 DEF Alike, L, i0, x, m
  <2>22. IFD0(new) = i0 /\ SizeEntries(new) = S /\ \A o \in S : Get16(new, o) = Get16(data, o)
    BY <1>2, <2>21, AlikeFact DEF i0, S
  <2>23. DirectoriesApart(new) BY <2>8, <2>16, <2>22 DEF DirectoriesApart, end
  <2>24. ASSUME NEW o \in S
         PROVE  High16(new, o + 8) = 0 /\ Low16(new, o + 8) = value(o)
    <3>1. o \in Nat /\ value(o) \in Short BY <2>8, <2>11
    <3>2. HighByte(value(o)) * 256 + LowByte(value(o)) = value(o) BY <3>1, BytesFact, SMT
    <3>3. \A k \in {9, 10, 11, 12} : new[o + k] = entry(o)[k] BY <2>1
    <3>4. /\ ByteAt(new, o + 8) = new[o + 9] /\ ByteAt(new, (o + 8) + 1) = new[o + 10]
          /\ ByteAt(new, (o + 8) + 2) = new[o + 11] /\ ByteAt(new, ((o + 8) + 2) + 1) = new[o + 12]
      <4>1. (o + 8) + 1 = o + 9 /\ ((o + 8) + 1) + 1 = o + 10 /\ ((o + 8) + 2) + 1 = o + 11
            /\ (((o + 8) + 2) + 1) + 1 = o + 12
        BY <3>1
      <4> QED BY <4>1, Zenon DEF ByteAt
    <3>5. CASE m
      <4>1. /\ ByteAt(new, o + 8) = 0 /\ ByteAt(new, (o + 8) + 1) = 0
            /\ ByteAt(new, (o + 8) + 2) = HighByte(value(o))
            /\ ByteAt(new, ((o + 8) + 2) + 1) = LowByte(value(o))
        BY <2>19, <3>3, <3>4, <3>5
      <4> QED BY <2>14, <3>2, <3>5, <4>1, SMT DEF High16, Low16, Get16
    <3>6. CASE ~ m
      <4>1. /\ ByteAt(new, o + 8) = LowByte(value(o)) /\ ByteAt(new, (o + 8) + 1) = HighByte(value(o))
            /\ ByteAt(new, (o + 8) + 2) = 0 /\ ByteAt(new, ((o + 8) + 2) + 1) = 0
        BY <2>19, <3>3, <3>4, <3>6
      <4> QED BY <2>14, <3>2, <3>6, <4>1, SMT DEF High16, Low16, Get16
    <3> QED BY <3>5, <3>6
  <2>25. StatesSize(new, w, h) BY <2>22, <2>24, SMT DEF StatesSize, value
  <2> QED BY <2>1, <2>23, <2>25 DEF new
<1> QED BY <1>1, <1>2

-------------------------------------------------------------------------------
(* The markers of a run's output.                                                 *)

\* The first marker kept is an Exif marker.
Led(ms) == ms # <<>> /\ ms[1].kind = "Exif"

\* Resizing rewrites the data of a leading Exif marker and nothing else.
LEMMA ResizedFact ==
  ASSUME NEW ms, SoundMarkers(ms), Led(ms), NEW w \in Short, NEW h \in Short
  PROVE  LET new == [ms EXCEPT ![1].data = adjust_exif_parameters(@, w, h)]
         IN /\ SoundMarkers(new) /\ Led(new) /\ StatesSize(new[1].data, w, h)
<1> DEFINE data == adjust_exif_parameters(ms[1].data, w, h)
           first == [ms[1] EXCEPT !.data = data]
           new == [ms EXCEPT ![1].data = adjust_exif_parameters(@, w, h)]
<1>1. ms \in Seq(Marked) /\ 1 \in DOMAIN ms
  <2>1. ms \in Seq(Marked) /\ ms # <<>> BY DEF SoundMarkers, Led
  <2> QED BY <2>1
<1>2. ms[1] \in Marked /\ ms[1].kind = "Exif" BY <1>1 DEF Led
<1>3. ms[1].data \in Seq(Byte) /\ DirectoriesApart(ms[1].data)
  BY <1>1, <1>2 DEF Marked, SoundMarkers
<1>4. data \in Seq(Byte) /\ DirectoriesApart(data) /\ StatesSize(data, w, h)
  BY <1>3, AdjustedFact
<1>5. new = [ms EXCEPT ![1] = first] BY Zenon
<1> HIDE DEF data, new
<1>6. first \in Marked /\ first.kind = "Exif" /\ first.data = data BY <1>2, <1>4 DEF Marked
<1> HIDE DEF first
<1>7. new \in Seq(Marked) /\ DOMAIN new = DOMAIN ms BY <1>1, <1>5, <1>6
<1>8. new[1] = first /\ \A i \in DOMAIN ms : i # 1 => new[i] = ms[i] BY <1>1, <1>5
<1>9. \A i \in DOMAIN new : new[i].kind = ms[i].kind BY <1>2, <1>6, <1>7, <1>8
<1>10. \A i, j \in DOMAIN new :
         new[i].kind = new[j].kind /\ new[i].kind \in {"JFIF", "Adobe"} => i = j
  BY <1>7, <1>9 DEF SoundMarkers
<1>11. \A i \in DOMAIN new : new[i].kind = "Exif" => DirectoriesApart(new[i].data)
  BY <1>4, <1>6, <1>7, <1>8 DEF SoundMarkers
<1>12. SoundMarkers(new) BY <1>7, <1>10, <1>11 DEF SoundMarkers
<1>13. new # <<>> BY <1>1, <1>7
<1>14. Led(new) BY <1>6, <1>8, <1>13 DEF Led
<1> QED BY <1>4, <1>6, <1>8, <1>12, <1>14 DEF new

\* The library writes one marker of its own at most, and no JFIF marker before an Exif one.
LEMMA OwnFact ==
  ASSUME NEW colour, NEW exif \in BOOLEAN
  PROVE  LET own == OwnMarkers(colour, exif)
         IN /\ own \in Seq(Marked) /\ Len(own) \in {0, 1}
            /\ Len(own) = 1 => own[1].kind \in (IF exif THEN {"Adobe"} ELSE {"JFIF", "Adobe"})
<1> DEFINE own == OwnMarkers(colour, exif)
           jfif == [kind |-> "JFIF", data |-> <<>>]
           adobe == [kind |-> "Adobe", data |-> <<>>]
<1>1. \/ own = <<jfif>> /\ ~ exif
      \/ own = <<adobe>>
      \/ own = <<>>
  <2>1. CASE colour \in {"gray", "ycc"} /\ ~ exif BY <2>1 DEF OwnMarkers
  <2>2. CASE colour \in {"rgb", "cmyk", "ycck"} BY <2>2 DEF OwnMarkers
  <2>3. CASE ~ (colour \in {"gray", "ycc"} /\ ~ exif) /\ colour \notin {"rgb", "cmyk", "ycck"}
    BY <2>3 DEF OwnMarkers
  <2> QED BY <2>1, <2>2, <2>3
<1>2. jfif \in Marked /\ adobe \in Marked /\ jfif.kind = "JFIF" /\ adobe.kind = "Adobe"
  <2>1. <<>> \in Seq(Byte) OBVIOUS
  <2> QED BY <2>1 DEF Marked, MarkerKinds
<1> HIDE DEF own, jfif, adobe
<1>3. CASE own = <<jfif>> /\ ~ exif
  <2>1. own \in Seq(Marked) /\ Len(own) = 1 /\ own[1] = jfif BY <1>2, <1>3
  <2> QED BY <1>2, <1>3, <2>1 DEF own
<1>4. CASE own = <<adobe>>
  <2>1. own \in Seq(Marked) /\ Len(own) = 1 /\ own[1] = adobe BY <1>2, <1>4
  <2> QED BY <1>2, <2>1 DEF own
<1>5. CASE own = <<>>
  <2>1. own \in Seq(Marked) /\ Len(own) = 0 BY <1>5
  <2> QED BY <2>1 DEF own
<1> QED BY <1>1, <1>3, <1>4, <1>5

\* The markers of a run's output: its own, then the saved ones that it has not written.
LEMMA OutputMarkers ==
  ASSUME NEW saved, SoundMarkers(saved), NEW colour
  PROVE  LET own == OwnMarkers(colour, Led(saved))
             out == own \o CopiedMarkers(saved, own)
             n == Len(own) + 1
         IN /\ SoundMarkers(out)
            /\ Led(saved) => /\ n \in DOMAIN out /\ out[n] = saved[1]
                             /\ n = 2 => out[1].kind = "Adobe"
<1> DEFINE led == Led(saved)
           own == OwnMarkers(colour, led)
           kinds == {own[k].kind : k \in DOMAIN own}
           K == MarkerKinds \ kinds
           rest == OfKinds(saved, K)
           out == own \o rest
           l == Len(own)
           m == Len(rest)
<1>1. CopiedMarkers(saved, own) = rest BY DEF CopiedMarkers
<1>2. led \in BOOLEAN BY DEF Led
<1>3. /\ own \in Seq(Marked) /\ l \in {0, 1}
      /\ l = 1 => own[1].kind \in (IF led THEN {"Adobe"} ELSE {"JFIF", "Adobe"})
  <2> HIDE DEF led
  <2> QED BY <1>2, OwnFact
<1>4. /\ SoundMarkers(rest) /\ \A i \in DOMAIN rest : rest[i].kind \in K
      /\ saved # <<>> /\ saved[1].kind \in K => rest # <<>> /\ rest[1] = saved[1]
  BY SoundKept
<1> HIDE DEF own, rest, led
<1>5. rest \in Seq(Marked) /\ m \in Nat /\ DOMAIN rest = 1 .. m BY <1>4 DEF SoundMarkers
<1>6. DOMAIN own = 1 .. l BY <1>3
<1>7. /\ out \in Seq(Marked) /\ Len(out) = l + m /\ DOMAIN out = 1 .. l + m
      /\ \A i \in 1 .. l : out[i] = own[i]
      /\ \A i \in 1 .. m : out[l + i] = rest[i]
  <2>1. out \in Seq(Marked) /\ Len(out) = l + m BY <1>3, <1>5
  <2>2. \A i \in 1 .. l : out[i] = own[i] BY <1>3, <1>5
  <2>3. \A i \in 1 .. m : out[l + i] = rest[i] BY <1>3, <1>5
  <2> HIDE DEF out
  <2>4. DOMAIN out = 1 .. l + m BY <2>1
  <2> QED BY <2>1, <2>2, <2>3, <2>4
<1> HIDE DEF out, l, m
\* A marker of the output is the library's own or one of the rest.
<1>8. ASSUME NEW i \in DOMAIN out
      PROVE  \/ i = 1 /\ l = 1 /\ out[i] = own[1]
             \/ i - l \in DOMAIN rest /\ out[i] = rest[i - l] /\ i > l
  <2>1. CASE i <= l BY <1>3, <1>7, <2>1
  <2>2. CASE i > l
    <3>1. i - l \in 1 .. m /\ l + (i - l) = i
      <4>1. i \in 1 .. l + m /\ l \in Nat /\ m \in Nat BY <1>3, <1>5, <1>7
      <4>2. i \in Int /\ i <= l + m BY <4>1
      <4> QED BY <2>2, <4>1, <4>2
    <3>2. out[l + (i - l)] = rest[i - l] BY <1>7, <3>1
    <3>3. out[i] = rest[i - l] BY <3>1, <3>2
    <3> QED BY <1>5, <2>2, <3>1, <3>3
  <2> QED BY <1>3, <1>5, <1>7, <2>1, <2>2
<1>9. \A k \in DOMAIN rest : l = 1 => rest[k].kind # own[1].kind
  <2>1. l = 1 => own[1].kind \in kinds BY <1>6
  <2> HIDE DEF kinds
  <2> QED BY <1>4, <2>1
<1>10. ASSUME NEW i \in DOMAIN out, NEW j \in DOMAIN out,
              out[i].kind = out[j].kind, out[i].kind \in {"JFIF", "Adobe"}
       PROVE  i = j
  <2>1. CASE i = 1 /\ l = 1 /\ out[i] = own[1]
    <3>1. ~ (j - l \in DOMAIN rest /\ out[j] = rest[j - l]) BY <1>9, <1>10, <2>1
    <3> QED BY <1>8, <2>1, <3>1
  <2>2. CASE i - l \in DOMAIN rest /\ out[i] = rest[i - l] /\ i > l
    <3>1. ~ (j = 1 /\ l = 1 /\ out[j] = own[1]) BY <1>9, <1>10, <2>2
    <3>2. j - l \in DOMAIN rest /\ out[j] = rest[j - l] BY <1>8, <3>1
    <3>3. i - l = j - l BY <1>4, <1>10, <2>2, <3>2 DEF SoundMarkers
    <3>4. i \in Int /\ j \in Int /\ l \in Int BY <1>3, <1>5, <1>7
    <3> QED BY <3>3, <3>4
  <2> QED BY <1>8, <2>1, <2>2
<1>11. ASSUME NEW i \in DOMAIN out, out[i].kind = "Exif" PROVE DirectoriesApart(out[i].data)
  <2>1. ~ (l = 1 /\ out[i] = own[1]) BY <1>3, <1>11
  <2> QED BY <1>4, <1>8, <1>11, <2>1 DEF SoundMarkers
<1>12. SoundMarkers(out) BY <1>7, <1>10, <1>11 DEF SoundMarkers
<1>13. ASSUME led
       PROVE  l + 1 \in DOMAIN out /\ out[l + 1] = saved[1] /\ (l + 1 = 2 => out[1].kind = "Adobe")
  <2>1. saved # <<>> /\ saved[1].kind = "Exif" BY <1>13 DEF led, Led
  <2>2. "Exif" \notin kinds
    <3>1. \A k \in DOMAIN own : own[k].kind = "Adobe"
      <4>1. l = 1 => own[1].kind = "Adobe" BY <1>3, <1>13
      <4>2. \A k \in DOMAIN own : k = 1 /\ l = 1 BY <1>3, <1>6
      <4> QED BY <4>1, <4>2
    <3> QED BY <3>1
  <2>3. rest # <<>> /\ rest[1] = saved[1] BY <1>4, <2>1, <2>2 DEF MarkerKinds
  <2>4. 1 \in 1 .. m BY <1>5, <2>3 DEF m
  <2>5. l + 1 \in DOMAIN out /\ out[l + 1] = rest[1] BY <1>3, <1>5, <1>7, <2>4
  <2>6. l + 1 = 2 => out[1].kind = "Adobe"
    <3>1. l + 1 = 2 => l = 1 /\ 1 \in 1 .. l BY <1>3
    <3> QED BY <1>3, <1>7, <1>13, <3>1
  <2> QED BY <2>3, <2>5, <2>6
<1> QED BY <1>1, <1>12, <1>13 DEF own, out, led, l

\* A picture the library accepts, with sound markers.
Bounded(p) == p.width \in 1 .. JPEG_MAX_DIMENSION /\ p.height \in 1 .. JPEG_MAX_DIMENSION
Sound(p) == Bounded(p) /\ SoundMarkers(p.markers)

\* What a run has done with a leading Exif marker.
ExifInPlace(p, d) ==
  Led(p.markers) =>
    LET n == Len(OwnMarkers(d.colour, TRUE)) + 1
    IN /\ n \in DOMAIN d.markers /\ d.markers[n].kind = "Exif"
       /\ n = 2 => d.markers[1].kind = "Adobe"
       /\ d.width # p.width \/ d.height # p.height => StatesSize(d.markers[n].data, d.width, d.height)

MInv ==
  /\ Sound(src)
  /\ stage \in {"adjusted", "written"} => Sound(dst) /\ ExifInPlace(src, dst)

LEMMA BoundedFact ==
  ASSUME NEW p, Bounded(p)
  PROVE  p.width \in Short /\ p.height \in Short
<1>1. \A x \in 1 .. JPEG_MAX_DIMENSION : x \in Nat /\ x <= 65535 BY SMT DEF JPEG_MAX_DIMENSION
<1>2. \A x \in 1 .. JPEG_MAX_DIMENSION : x \in Short BY <1>1, ShortFact, SMT
<1> QED BY <1>2 DEF Bounded

\* A plan cuts from the picture, which bounds what is written.
LEMMA BoundedPlan ==
  ASSUME NEW p, Whole(p), Bounded(p), NEW r, Asked(r), ~ (r.cropped /\ BadCrop(p, r)),
         NEW i, i = Trimmed(p, r, Cropped(p, r))
  PROVE  i.output_width \in 1 .. JPEG_MAX_DIMENSION /\ i.output_height \in 1 .. JPEG_MAX_DIMENSION
<1> DEFINE u == Uncropped(p, r)
<1>1. Sized(p) BY DEF Whole
<1>2. Fits(i, u) BY <1>1, PlanFact
<1>3. u.iMCU_width \in Nat \ {0} /\ u.iMCU_height \in Nat \ {0} BY <1>1, UncroppedFact
<1>4. {u.output_width, u.output_height} \subseteq {p.width, p.height} BY DEF Uncropped
<1> HIDE DEF u
<1>5. JPEG_MAX_DIMENSION \in Nat BY DEF JPEG_MAX_DIMENSION
<1> HIDE DEF JPEG_MAX_DIMENSION
<1>6. u.output_width \in 1 .. JPEG_MAX_DIMENSION /\ u.output_height \in 1 .. JPEG_MAX_DIMENSION
  BY <1>4 DEF Bounded
<1>7. ASSUME NEW o \in Nat, NEW unit \in Nat, NEW part \in Nat \ {0}, NEW size \in 1 .. JPEG_MAX_DIMENSION,
             o * unit + part <= size
      PROVE  part \in 1 .. JPEG_MAX_DIMENSION
  <2>1. o * unit \in Nat OBVIOUS
  <2> DEFINE q == o * unit
  <2> HIDE DEF q
  <2>2. q \in Nat /\ q + part <= size BY <1>7, <2>1 DEF q
  <2> QED BY <1>5, <2>2
<1> QED BY <1>2, <1>3, <1>6, <1>7 DEF Fits

LEMMA MInvInit == Init => MInv
<1> SUFFICES ASSUME Init PROVE MInv OBVIOUS
<1>1. PICK s \in Sources : src = Picture(s) BY DEF Init
<1>2. src.width = s.width /\ src.height = s.height /\ src.markers = s.markers BY <1>1 DEF Picture
<1>3. stage = "file" BY DEF Init
<1> QED BY <1>2, <1>3, SourcesAssumption, MarkersAssumption DEF MInv, Sound, Bounded

LEMMA MInvAdjust ==
  ASSUME IInv, IInv', MInv, Adjust
  PROVE  MInv'
<1>1. /\ stage = "requested" /\ request' = request /\ info' = info /\ Fields(src) /\ Whole(src)
      /\ Sound(src) /\ SoundMarkers(src.markers)
  BY DEF Adjust, IInv, MInv, Whole, Sound
<1>2. CASE stage' = "refused"
  <2>1. src' = src BY <1>2 DEF Adjust
  <2> QED BY <1>1, <1>2, <2>1 DEF MInv
<1>3. CASE stage' # "refused"
  <2> DEFINE w == info.output_width
             h == info.output_height
             colour == IF request.grayscale THEN "gray" ELSE src.colour
             own == OwnMarkers(colour, HasExif)
             resized == w # src.width \/ h # src.height
             saved == IF HasExif /\ resized
                      THEN [src.markers EXCEPT ![1].data = adjust_exif_parameters(@, w, h)]
                      ELSE src.markers
  <2>1. /\ stage' = "adjusted" /\ src' = [src EXCEPT !.markers = saved]
        /\ dst'.width = w /\ dst'.height = h /\ dst'.colour = colour
        /\ dst'.markers = own \o CopiedMarkers(saved, own)
    <3> DEFINE fields == [width |-> w, height |-> h, comps |-> Resampled(src, request), colour |-> colour,
                          tables |-> (src.tables # (request.transform \in Transposing)), blocks |-> <<>>,
                          markers |-> own \o CopiedMarkers(saved, own)]
    <3>1. stage' = "adjusted" /\ src' = [src EXCEPT !.markers = saved] /\ dst' = fields
      BY <1>3, Zenon DEF Adjust
    <3> HIDE DEF w, h, colour, own, saved
    <3> QED BY <3>1
  <2>2. w \in 1 .. JPEG_MAX_DIMENSION /\ h \in 1 .. JPEG_MAX_DIMENSION
    BY <1>1, BoundedPlan DEF IInv, Sound
  <2>3. w \in Short /\ h \in Short
    <3> DEFINE size == [width |-> w, height |-> h]
    <3>1. Bounded(size) BY <2>2 DEF Bounded
    <3>2. size.width \in Short /\ size.height \in Short BY <3>1, BoundedFact
    <3> QED BY <3>2
  <2>4. HasExif <=> Led(src.markers) BY DEF HasExif, Led
  <2>5. /\ SoundMarkers(saved) /\ Led(saved) = Led(src.markers)
        /\ Led(saved) /\ resized => StatesSize(saved[1].data, w, h)
    <3>1. CASE HasExif /\ resized
      <4>1. saved = [src.markers EXCEPT ![1].data = adjust_exif_parameters(@, w, h)] BY <3>1
      <4>2. Led(src.markers) BY <2>4, <3>1
      <4> DEFINE new == [src.markers EXCEPT ![1].data = adjust_exif_parameters(@, w, h)]
      <4>3. SoundMarkers(new) /\ Led(new) /\ StatesSize(new[1].data, w, h)
        BY <1>1, <2>3, <4>2, ResizedFact
      <4> HIDE DEF new, saved, w, h
      <4>4. Led(new) = Led(src.markers) BY <4>2, <4>3 DEF Led
      <4> QED BY <4>1, <4>3, <4>4 DEF new
    <3>2. CASE ~ (HasExif /\ resized)
      <4>1. saved = src.markers BY <3>2
      <4> HIDE DEF saved, resized
      <4> QED BY <1>1, <2>4, <3>2, <4>1
    <3> QED BY <3>1, <3>2
  <2>6. own = OwnMarkers(colour, Led(saved))
    <3>1. HasExif = Led(src.markers) BY DEF HasExif, Led
    <3> QED BY <2>5, <3>1
  <2> HIDE DEF w, h, colour, resized, saved, own
  <2> DEFINE n == Len(own) + 1
             out == own \o CopiedMarkers(saved, own)
  <2>7. /\ SoundMarkers(out)
        /\ Led(saved) => n \in DOMAIN out /\ out[n] = saved[1] /\ (n = 2 => out[1].kind = "Adobe")
    BY <2>5, <2>6, OutputMarkers
  <2>8. /\ src'.markers = saved /\ src'.width = src.width /\ src'.height = src.height
    BY <1>1, <2>1 DEF Fields
  <2>9. Sound(src)' BY <1>1, <2>5, <2>8 DEF Sound, Bounded
  <2> DEFINE d == dst'
             p == src'
  <2>10. dst'.markers = out BY <2>1
  <2> HIDE DEF out
  <2>11. Sound(dst)' BY <2>1, <2>2, <2>7, <2>10 DEF Sound, Bounded
  <2>12. ExifInPlace(src, dst)'
    <3> SUFFICES ASSUME Led(saved)
                 PROVE  LET k == Len(OwnMarkers(colour, TRUE)) + 1
                        IN /\ k \in DOMAIN out /\ out[k].kind = "Exif"
                           /\ k = 2 => out[1].kind = "Adobe"
                           /\ w # src.width \/ h # src.height => StatesSize(out[k].data, w, h)
      BY <2>1, <2>8, <2>10, Zenon DEF ExifInPlace
    <3>1. Len(OwnMarkers(colour, TRUE)) + 1 = n
      <4>1. Led(saved) = TRUE BY DEF Led
      <4> QED BY <2>6, <4>1, Zenon
    <3>2. saved[1].kind = "Exif" BY DEF Led
    <3> QED BY <2>5, <2>7, <3>1, <3>2, Zenon DEF resized
  <2> QED BY <2>9, <2>11, <2>12 DEF MInv
<1> QED BY <1>2, <1>3

LEMMA MInvNext == IInv /\ IInv' /\ MInv /\ [Next]_vars => MInv'
<1> SUFFICES ASSUME IInv, IInv', MInv, [Next]_vars PROVE MInv' OBVIOUS
<1>1. Fields(src) /\ Sound(src) BY DEF IInv, Whole, MInv
<1>2. CASE ReadHeader
  <2> DEFINE kept == SavedMarkers(src.markers, request.copy)
  <2>1. stage' = "header" /\ src' = [src EXCEPT !.markers = kept] BY <1>2 DEF ReadHeader
  <2>2. SoundMarkers(kept)
    <3>1. \A K : SoundMarkers(OfKinds(src.markers, K)) BY <1>1, SoundKept DEF Sound
    <3> QED BY <3>1, Zenon DEF SavedMarkers
  <2> HIDE DEF kept
  <2>3. src'.markers = kept /\ src'.width = src.width /\ src'.height = src.height BY <1>1, <2>1 DEF Fields
  <2>4. Sound(src)' BY <1>1, <2>2, <2>3 DEF Sound, Bounded
  <2> QED BY <2>1, <2>4 DEF MInv
<1>3. CASE Request
  <2>1. src' = src /\ stage' \in {"refused", "requested"} BY <1>3 DEF Request
  <2> QED BY <1>1, <2>1 DEF MInv
<1>4. CASE Adjust BY <1>4, MInvAdjust
<1>5. CASE Execute
  <2>1. /\ stage = "adjusted" /\ stage' = "written" /\ src' = src
        /\ \E b : dst' = [dst EXCEPT !.blocks = b]
    BY <1>5 DEF Execute
  <2>2. Fields(dst) /\ Sound(dst) /\ ExifInPlace(src, dst) BY <2>1 DEF IInv, MInv
  <2>3. /\ dst'.markers = dst.markers /\ dst'.width = dst.width /\ dst'.height = dst.height
        /\ dst'.colour = dst.colour
    BY <2>1, <2>2 DEF Fields
  <2>4. Sound(dst)' BY <2>2, <2>3 DEF Sound, Bounded
  <2>5. ExifInPlace(src, dst)' BY <2>1, <2>2, <2>3, Zenon DEF ExifInPlace
  <2> QED BY <1>1, <2>1, <2>4, <2>5 DEF MInv
<1>6. CASE NextRun
  <2>1. stage = "written" /\ stage' = "file" /\ src' = dst BY <1>6 DEF NextRun
  <2>2. Sound(src)' BY <2>1 DEF MInv
  <2> QED BY <2>1, <2>2 DEF MInv
<1>7. CASE UNCHANGED vars
  <2>1. src' = src /\ dst' = dst /\ stage' = stage BY <1>7 DEF vars
  <2> QED BY <2>1 DEF MInv
<1> QED BY <1>2, <1>3, <1>4, <1>5, <1>6, <1>7 DEF Next

\* The output holds no JFIF or Adobe marker twice, an Exif marker that led the markers read
\* leads those written (behind the library's Adobe marker at most), and where the size has
\* changed its entries state the new one: for every list of sound markers, every layout of
\* the TIFF structure in either byte order, every request and both runs.
THEOREM MarkersAlwaysInOrder == Spec => []MarkersInOrder
<1>1. Init => MInv BY MInvInit
<1>2. IInv /\ IInv' /\ MInv /\ [Next]_vars => MInv' BY MInvNext
<1>3. MInv => MarkersInOrder
  <2> SUFFICES ASSUME MInv, Written PROVE MarkersInOrder BY DEF MarkersInOrder
  <2>1. Sound(dst) /\ ExifInPlace(src, dst) BY DEF MInv, Written
  <2>2. \A i, j \in DOMAIN dst.markers :
          dst.markers[i].kind = dst.markers[j].kind /\ dst.markers[i].kind \in {"JFIF", "Adobe"} => i = j
    BY <2>1 DEF Sound, SoundMarkers
  <2>3. HasExif => HasExif = TRUE /\ Led(src.markers) BY DEF HasExif, Led
  <2> QED BY <2>1, <2>2, <2>3, Zenon DEF MarkersInOrder, ExifInPlace
<1> QED BY <1>1, <1>2, <1>3, PicturesWhole, PTL DEF Spec
=================================================================================
