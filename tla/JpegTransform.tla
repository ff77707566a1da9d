------------------------------ MODULE JpegTransform -----------------------------
(* Lossless transformation of a JPEG picture: jpegtran's sequence of calls and    *)
(* jpeg-8c/transupp.c.  A picture is, per component, a grid of coefficient        *)
(* blocks; the transforms move blocks and turn each of them by transposing its    *)
(* coefficients and changing signs.  A block is represented by its place in the   *)
(* original picture and by how it has been turned:                                *)
(*   tr       its coefficients are transposed                                     *)
(*   fh, fv   the odd columns (rows) have their sign changed                      *)
(* One run of jpegtran is the steps ReadHeader, Request, Adjust and Execute; the  *)
(* file it writes can be transformed again.                                       *)
EXTENDS Integers, Sequences, FiniteSets, SequencesExt

CONSTANTS BlockSize,   \* samples of a block per side (min_DCT_h/v_scaled_size)
          Sources,     \* pictures, as [width, height, comps, markers]
          Requests,    \* options of the first run of jpegtran
          Again        \* options of the second run

ASSUME BlockSizeAssumption == BlockSize \in 1 .. 16

Transposing == {"transpose", "transverse", "rot90", "rot270"}
Transforms == Transposing \cup {"none", "flip_h", "flip_v", "rot180"}

\* What initial_setup (jdinput.c) has checked: the size, and sampling factors up to
\* MAX_SAMP_FACTOR.
JPEG_MAX_DIMENSION == 65500
Sampling == [h : 1 .. 4, v : 1 .. 4]
ASSUME SourcesAssumption == \A s \in Sources :
  s.width \in 1 .. JPEG_MAX_DIMENSION /\ s.height \in 1 .. JPEG_MAX_DIMENSION /\ s.comps \in Seq(Sampling) /\ Len(s.comps) > 0

\* What jpegtran's options and jtransform_parse_crop_spec make.
IsCropValue(spec) == spec[1] = "unset" \/ (spec[1] \in {"pos", "neg"} /\ spec[2] \in Nat)
ASSUME RequestsAssumption == \A r \in Requests \cup Again :
  /\ r.transform \in Transforms
  /\ {r.cropped, r.trim, r.perfect, r.grayscale} \subseteq BOOLEAN
  /\ r.cropped => /\ IsCropValue(r.crop.x) /\ IsCropValue(r.crop.y)
                  /\ IsCropValue(r.crop.w) /\ IsCropValue(r.crop.h)

VARIABLES stage,      \* "file" | "header" | "requested" | "adjusted" | "written" | "refused"
          src,        \* srcinfo: the picture read
          request,    \* the caller's part of jpeg_transform_info
          info,       \* the rest of it, once requested
          dst,        \* dstinfo, once adjusted; the picture written, once executed
          original,   \* the picture of the first run
          applied     \* the requests executed so far
vars == <<stage, src, request, info, dst, original, applied>>

-------------------------------------------------------------------------------
(* Blocks                                                                         *)
MirrorH(b) == [b EXCEPT !.fh = ~ @]
MirrorV(b) == [b EXCEPT !.fv = ~ @]
TransposeB(b) == [y |-> b.y, x |-> b.x, tr |-> ~ b.tr, fh |-> b.fv, fv |-> b.fh]
BlockAt(y, x) == [y |-> y, x |-> x, tr |-> FALSE, fh |-> FALSE, fv |-> FALSE]
Dummy == BlockAt(-1, -1)        \* a block that pads a component to whole iMCUs

DivUp(a, b) == (a + b - 1) \div b
max_h(comps) == Max({comps[ci].h : ci \in DOMAIN comps})
max_v(comps) == Max({comps[ci].v : ci \in DOMAIN comps})
width_in_blocks(p, ci) == DivUp(p.width * p.comps[ci].h, max_h(p.comps) * BlockSize)
height_in_blocks(p, ci) == DivUp(p.height * p.comps[ci].v, max_v(p.comps) * BlockSize)
Grid(p, ci) == (0 .. height_in_blocks(p, ci) - 1) \X (0 .. width_in_blocks(p, ci) - 1)

\* The source arrays, which reach to the next iMCU boundary and no further.
Source(p, ci) ==
  LET rows == DivUp(height_in_blocks(p, ci), p.comps[ci].v) * p.comps[ci].v
      cols == DivUp(width_in_blocks(p, ci), p.comps[ci].h) * p.comps[ci].h
  IN [yx \in (0 .. rows - 1) \X (0 .. cols - 1) |->
        IF yx \in DOMAIN p.blocks[ci] THEN p.blocks[ci][yx] ELSE Dummy]

-------------------------------------------------------------------------------
(* The transform routines: the block at row y and column x of the output (crop    *)
(* offsets added).  S[<<r, c>>] is the source block, cw and ch the width, height  *)
(* of the area of whole iMCUs, outside which nothing can be mirrored.             *)
\* Mutants: the block is moved but not turned; the edge that cannot be mirrored in
\* both directions is left as it is; it is not transposed.
do_transpose_Unturned(S, y, x, cw, ch) == S[<<x, y>>]
do_flip_h_Unturned(S, y, x, cw, ch) == IF x < cw THEN S[<<y, cw - x - 1>>] ELSE S[<<y, x>>]
do_rot_180_EdgesKept(S, y, x, cw, ch) ==
  IF y < ch /\ x < cw THEN MirrorH(MirrorV(S[<<ch - y - 1, cw - x - 1>>])) ELSE S[<<y, x>>]
do_rot_270_EdgeUnturned(S, y, x, cw, ch) ==
  IF y < ch THEN MirrorV(TransposeB(S[<<x, ch - y - 1>>])) ELSE S[<<x, y>>]

do_crop(S, y, x, cw, ch) == S[<<y, x>>]
do_flip_h(S, y, x, cw, ch) == IF x < cw THEN MirrorH(S[<<y, cw - x - 1>>]) ELSE S[<<y, x>>]
do_flip_v(S, y, x, cw, ch) == IF y < ch THEN MirrorV(S[<<ch - y - 1, x>>]) ELSE S[<<y, x>>]
do_transpose(S, y, x, cw, ch) == TransposeB(S[<<x, y>>])
do_rot_90(S, y, x, cw, ch) ==
  IF x < cw THEN MirrorH(TransposeB(S[<<cw - x - 1, y>>])) ELSE TransposeB(S[<<x, y>>])
do_rot_270(S, y, x, cw, ch) ==
  IF y < ch THEN MirrorV(TransposeB(S[<<x, ch - y - 1>>])) ELSE TransposeB(S[<<x, y>>])
do_rot_180(S, y, x, cw, ch) ==
  IF y < ch THEN IF x < cw THEN MirrorH(MirrorV(S[<<ch - y - 1, cw - x - 1>>]))
                 ELSE MirrorV(S[<<ch - y - 1, x>>])
  ELSE IF x < cw THEN MirrorH(S[<<y, cw - x - 1>>]) ELSE S[<<y, x>>]
do_transverse(S, y, x, cw, ch) ==
  IF y < ch THEN IF x < cw THEN MirrorH(MirrorV(TransposeB(S[<<cw - x - 1, ch - y - 1>>])))
                 ELSE MirrorV(TransposeB(S[<<x, ch - y - 1>>]))
  ELSE IF x < cw THEN MirrorH(TransposeB(S[<<cw - x - 1, y>>])) ELSE TransposeB(S[<<x, y>>])

\* Mutant: the loop ends before the block in the middle.
do_flip_h_no_crop_NoMiddle(S, y, x, cw, ch) ==
  IF x < cw /\ x # cw - x - 1 THEN MirrorH(S[<<y, cw - x - 1>>]) ELSE S[<<y, x>>]

\* In place: pairs of blocks are swapped from the edges inwards, then the part of the
\* row to be kept is moved to the left, one block after the other.
do_flip_h_no_crop(S, y, x, cw, ch) ==
  LET partner == cw - x - 1
      first == IF x <= partner THEN x ELSE partner       \* blk_x of the swap
  IN IF x < cw /\ first * 2 < cw THEN MirrorH(S[<<y, partner>>]) ELSE S[<<y, x>>]

\* The routine of a transform; a flip of whole rows of iMCUs (yo = 0) is made in place.
BlockOf(code, S, y, x, cw, ch, yo) ==
  CASE code = "none" -> do_crop(S, y, x, cw, ch)
    [] code = "flip_h" /\ yo = 0 -> do_flip_h_no_crop(S, y, x, cw, ch)
    [] code = "flip_h" /\ yo # 0 -> do_flip_h(S, y, x, cw, ch)
    [] code = "flip_v" -> do_flip_v(S, y, x, cw, ch)
    [] code = "transpose" -> do_transpose(S, y, x, cw, ch)
    [] code = "transverse" -> do_transverse(S, y, x, cw, ch)
    [] code = "rot90" -> do_rot_90(S, y, x, cw, ch)
    [] code = "rot180" -> do_rot_180(S, y, x, cw, ch)
    [] code = "rot270" -> do_rot_270(S, y, x, cw, ch)

\* jtransform_execute_transform: to is the destination (width, height and comps)
Transformed(from, to, code, xo, yo) ==
  LET swap == code \in Transposing
      MCU_cols == (IF swap THEN from.height ELSE from.width) \div (max_h(to.comps) * BlockSize)
      MCU_rows == (IF swap THEN from.width ELSE from.height) \div (max_v(to.comps) * BlockSize)
  IN [ci \in DOMAIN to.comps |->
        LET S == Source(from, ci)    c == to.comps[ci]
        IN [yx \in Grid(to, ci) |->
              BlockOf(code, S, yx[1] + yo * c.v, yx[2] + xo * c.h,
                      MCU_cols * c.h, MCU_rows * c.v, yo)]]

-------------------------------------------------------------------------------
(* Planning: jtransform_request_workspace                                         *)
jtransform_perfect_transform(width, height, MCU_width, MCU_height, code) ==
  /\ code \in {"flip_h", "rot270", "transverse", "rot180"} => width % MCU_width = 0
  /\ code \in {"flip_v", "rot90", "transverse", "rot180"} => height % MCU_height = 0

num_components(p, r) == IF r.grayscale /\ p.colour = "ycc" THEN 1 ELSE Len(p.comps)

\* The plan before cropping: dimensions and iMCU size of the output.
Uncropped(p, r) ==
  LET swap == r.transform \in Transposing
      single == num_components(p, r) = 1
      mw == IF single THEN BlockSize ELSE max_h(p.comps) * BlockSize
      mh == IF single THEN BlockSize ELSE max_v(p.comps) * BlockSize
  IN [output_width |-> IF swap THEN p.height ELSE p.width,
      output_height |-> IF swap THEN p.width ELSE p.height,
      iMCU_width |-> IF swap THEN mh ELSE mw, iMCU_height |-> IF swap THEN mw ELSE mh,
      xo |-> 0, yo |-> 0]

\* A crop specification [w, h, x, y], each <<set, value>> with set "unset", "pos" or "neg".
CropPlace(spec, size, length) == IF spec[1] = "neg" THEN size - length - spec[2] ELSE spec[2]
CropValue(spec, default) == IF spec[1] = "unset" THEN default ELSE spec[2]

BadCrop(p, r) ==
  LET u == Uncropped(p, r)
      x == CropValue(r.crop.x, 0)    y == CropValue(r.crop.y, 0)
      w == CropValue(r.crop.w, u.output_width - x)
      h == CropValue(r.crop.h, u.output_height - y)
  IN \/ x >= u.output_width \/ y >= u.output_height
     \/ w <= 0 \/ w > u.output_width \/ h <= 0 \/ h > u.output_height
     \/ x > u.output_width - w \/ y > u.output_height - h

Cropped(p, r) ==
  LET u == Uncropped(p, r)
      w == CropValue(r.crop.w, u.output_width - CropValue(r.crop.x, 0))
      h == CropValue(r.crop.h, u.output_height - CropValue(r.crop.y, 0))
      xoffset == CropPlace(<<r.crop.x[1], CropValue(r.crop.x, 0)>>, u.output_width, w)
      yoffset == CropPlace(<<r.crop.y[1], CropValue(r.crop.y, 0)>>, u.output_height, h)
  IN IF ~ r.cropped THEN u
     ELSE [u EXCEPT !.output_width = w + (xoffset % u.iMCU_width),
                    !.output_height = h + (yoffset % u.iMCU_height),
                    !.xo = xoffset \div u.iMCU_width, !.yo = yoffset \div u.iMCU_height]

trim_right_edge(i, full_width) ==
  LET MCU_cols == i.output_width \div i.iMCU_width
  IN IF MCU_cols > 0 /\ i.xo + MCU_cols = full_width \div i.iMCU_width
     THEN [i EXCEPT !.output_width = MCU_cols * i.iMCU_width] ELSE i

trim_bottom_edge(i, full_height) ==
  LET MCU_rows == i.output_height \div i.iMCU_height
  IN IF MCU_rows > 0 /\ i.yo + MCU_rows = full_height \div i.iMCU_height
     THEN [i EXCEPT !.output_height = MCU_rows * i.iMCU_height] ELSE i

Trimmed(p, r, i) ==
  LET full == Uncropped(p, r)
      right == IF r.transform \in {"flip_h", "transverse", "rot90", "rot180"}
               THEN trim_right_edge(i, full.output_width) ELSE i
  IN IF ~ r.trim THEN i
     ELSE IF r.transform \in {"flip_v", "transverse", "rot270", "rot180"}
          THEN trim_bottom_edge(right, full.output_height) ELSE right

Imperfect(p, r) ==
  LET single == num_components(p, r) = 1
  IN r.perfect /\ ~ jtransform_perfect_transform(p.width, p.height,
       (IF single THEN 1 ELSE max_h(p.comps)) * BlockSize,
       (IF single THEN 1 ELSE max_v(p.comps)) * BlockSize, r.transform)

-------------------------------------------------------------------------------
(* Markers.  A marker is [kind, data]; only the data of an Exif marker matters:   *)
(* the bytes of its TIFF structure.                                               *)
MarkerKinds == {"JFIF", "Exif", "Adobe", "COM", "other"}
Byte == 0 .. 255
Marked == [kind : MarkerKinds, data : Seq(Byte)]

OfKinds(markers, kinds) ==
  LET kept[n \in 0 .. Len(markers)] ==
        IF n = 0 THEN <<>>
        ELSE IF markers[n].kind \in kinds THEN Append(kept[n - 1], markers[n]) ELSE kept[n - 1]
  IN kept[Len(markers)]

SavedMarkers(markers, option) ==
  OfKinds(markers, CASE option = "all" -> MarkerKinds [] option = "comments" -> {"COM"}
                     [] option \notin {"all", "comments"} -> {})

\* Mutant: the markers the library writes itself are copied too.
CopiedMarkers_All(saved, own) == saved

\* own: the markers that the library has written itself.
CopiedMarkers(saved, own) ==
  OfKinds(saved, MarkerKinds \ {own[k].kind : k \in DOMAIN own})

\* What jpeg_set_colorspace decides; an Exif marker suppresses JFIF.
OwnMarkers(colour, exif) ==
  CASE colour \in {"gray", "ycc"} /\ ~ exif -> <<[kind |-> "JFIF", data |-> <<>>]>>
    [] colour \in {"rgb", "cmyk", "ycck"} -> <<[kind |-> "Adobe", data |-> <<>>]>>
    [] OTHER -> <<>>

\* Numbers at offset o of the structure, in its byte order, and its directories: the
\* entries of the one at ifd (12 bytes each, the tag first) that end within the data.
ByteAt(data, o) == data[o + 1]
Motorola(data) == ByteAt(data, 0) = 77
Get16(data, o) ==
  IF Motorola(data) THEN ByteAt(data, o) * 256 + ByteAt(data, o + 1)
  ELSE ByteAt(data, o + 1) * 256 + ByteAt(data, o)
High16(data, o) == Get16(data, IF Motorola(data) THEN o ELSE o + 2)
Low16(data, o) == Get16(data, IF Motorola(data) THEN o + 2 ELSE o)
Entries(data, ifd) ==
  {o \in {ifd + 2 + 12 * i : i \in 0 .. Get16(data, ifd) - 1} : o <= Len(data) - 12}
Tagged(data, ifd, tags) == {o \in Entries(data, ifd) : Get16(data, o) \in tags}

IFD0(data) == Low16(data, 4)
ExifPointer(data) == Min(Tagged(data, IFD0(data), {34665})) + 8           \* 0x8769
ExifIFD(data) == Low16(data, ExifPointer(data))
SizeEntries(data) == Tagged(data, ExifIFD(data), {40962, 40963})          \* 0xA002, 0xA003

\* What the function looks for before it changes anything.
Adjustable(data) ==
  /\ Len(data) >= 12
  /\ ByteAt(data, 0) \in {73, 77} /\ ByteAt(data, 1) = ByteAt(data, 0)
  /\ Get16(data, 2) = 42 /\ High16(data, 4) = 0 /\ IFD0(data) <= Len(data) - 2
  /\ Tagged(data, IFD0(data), {34665}) # {}
  /\ High16(data, ExifPointer(data)) = 0 /\ ExifIFD(data) <= Len(data) - 2
  /\ Get16(data, ExifIFD(data)) >= 2

\* The entry of an IFD as rewritten: format "unsigned long", one component, the value.
DimensionEntry(tag, value, motorola) ==
  LET low == value % 256    high == (value \div 256) % 256
  IN IF motorola THEN <<tag[1], tag[2], 0, 4, 0, 0, 0, 1, 0, 0, high, low>>
     ELSE <<tag[1], tag[2], 4, 0, 1, 0, 0, 0, low, high, 0, 0>>

adjust_exif_parameters(data, new_width, new_height) ==
  LET sized == SizeEntries(data)
      rewritten(o) == DimensionEntry(<<data[o + 1], data[o + 2]>>,
                        IF Get16(data, o) = 40962 THEN new_width ELSE new_height, Motorola(data))
  IN IF ~ Adjustable(data) THEN data
     ELSE [n \in 1 .. Len(data) |->
             LET here == {o \in sized : n \in o + 1 .. o + 12}
             IN IF here = {} THEN data[n] ELSE rewritten(Min(here))[n - Min(here)]]

\* The entries for the size overlap neither the header nor IFD0.
DirectoriesApart(data) ==
  Adjustable(data) => \A o \in SizeEntries(data) :
    /\ o >= 8
    /\ \/ o + 12 <= IFD0(data)
       \/ IFD0(data) + 2 + 12 * Get16(data, IFD0(data)) <= o

\* Markers of a file: one of JFIF and Adobe at most, in Exif a TIFF structure.
SoundMarkers(markers) ==
  /\ markers \in Seq(Marked)
  /\ \A i, j \in DOMAIN markers :
       markers[i].kind = markers[j].kind /\ markers[i].kind \in {"JFIF", "Adobe"} => i = j
  /\ \A i \in DOMAIN markers : markers[i].kind = "Exif" => DirectoriesApart(markers[i].data)
ASSUME MarkersAssumption == \A s \in Sources : SoundMarkers(s.markers)

-------------------------------------------------------------------------------
Picture(s) ==
  LET dims == [width |-> s.width, height |-> s.height, comps |-> s.comps, colour |-> s.colour,
               markers |-> s.markers, tables |-> FALSE, blocks |-> <<>>]
  IN [dims EXCEPT !.blocks =
        [ci \in DOMAIN s.comps |-> [yx \in Grid(dims, ci) |-> BlockAt(yx[1], yx[2])]]]

Init ==
  /\ stage = "file" /\ request \in Requests /\ applied = <<>>
  /\ \E s \in Sources : src = Picture(s)
  /\ original = src /\ info = <<>> /\ dst = <<>>

\* jcopy_markers_setup and jpeg_read_header: what is not to be copied is not kept.
ReadHeader ==
  /\ stage = "file" /\ stage' = "header"
  /\ src' = [src EXCEPT !.markers = SavedMarkers(@, request.copy)]
  /\ UNCHANGED <<request, info, dst, original, applied>>

\* jtransform_request_workspace
Request ==
  /\ stage = "header"
  /\ IF Imperfect(src, request) \/ (request.cropped /\ BadCrop(src, request))
     THEN stage' = "refused" /\ UNCHANGED info
     ELSE stage' = "requested" /\ info' = Trimmed(src, request, Cropped(src, request))
  /\ UNCHANGED <<src, request, dst, original, applied>>

FullResolution == src.comps[1].h = max_h(src.comps) /\ src.comps[1].v = max_v(src.comps)
HasExif == src.markers # <<>> /\ src.markers[1].kind = "Exif"

\* A single component is sampled 1 by 1; axes exchanged exchange the factors.
Resampled(p, r) ==
  IF num_components(p, r) = 1 THEN <<[h |-> 1, v |-> 1]>>
  ELSE [ci \in DOMAIN p.comps |->
          IF r.transform \in Transposing THEN [h |-> p.comps[ci].v, v |-> p.comps[ci].h]
          ELSE p.comps[ci]]

\* jpeg_copy_critical_parameters and jtransform_adjust_parameters; the header that
\* jpeg_write_coefficients writes and the markers that jcopy_markers_execute adds.
Adjust ==
  /\ stage = "requested"
  /\ LET swap == request.transform \in Transposing
         colour == IF request.grayscale THEN "gray" ELSE src.colour
         own == OwnMarkers(colour, HasExif)
         resized == info.output_width # src.width \/ info.output_height # src.height
         saved == IF HasExif /\ resized
                  THEN [src.markers EXCEPT ![1].data =
                          adjust_exif_parameters(@, info.output_width, info.output_height)]
                  ELSE src.markers
     IN IF request.grayscale /\ ~ (src.colour \in {"gray", "ycc"} /\ FullResolution)
        THEN stage' = "refused" /\ UNCHANGED <<src, dst>>
        ELSE /\ stage' = "adjusted" /\ src' = [src EXCEPT !.markers = saved]
             /\ dst' = [width |-> info.output_width, height |-> info.output_height,
                        comps |-> Resampled(src, request), colour |-> colour, tables |-> (src.tables # swap),
                        blocks |-> <<>>,
                        markers |-> own \o CopiedMarkers(saved, own)]
  /\ UNCHANGED <<request, info, original, applied>>

Execute ==
  /\ stage = "adjusted" /\ stage' = "written"
  /\ dst' = [dst EXCEPT !.blocks = Transformed(src, dst, request.transform, info.xo, info.yo)]
  /\ applied' = Append(applied, request)
  /\ UNCHANGED <<src, request, info, original>>

\* The file written is transformed again.
NextRun ==
  /\ stage = "written" /\ Len(applied) = 1 /\ Again # {}
  /\ stage' = "file" /\ src' = dst /\ dst' = <<>> /\ info' = <<>>
  /\ request' \in Again
  /\ UNCHANGED <<original, applied>>

Next == ReadHeader \/ Request \/ Adjust \/ Execute \/ NextRun
Spec == Init /\ [][Next]_vars

-------------------------------------------------------------------------------
Written == stage = "written"

(* A decoder dequantizes a block with the table of its component.  The tables are *)
(* transposed where the blocks are, whatever the runs so far: no block meets the  *)
(* table of the other orientation.                                                *)
TablesFitBlocks ==
  Written => \A ci \in DOMAIN dst.blocks : \A yx \in DOMAIN dst.blocks[ci] :
               dst.blocks[ci][yx].tr = dst.tables

(* Pixels: where in the original component the sample at row y and column x is    *)
(* found, BlockSize samples a block; MirrorH of a block reverses its columns.     *)
Pixel(p, ci, y, x) ==
  LET b == p.blocks[ci][<<y \div BlockSize, x \div BlockSize>>]
      r == IF b.fv THEN BlockSize - 1 - (y % BlockSize) ELSE y % BlockSize
      c == IF b.fh THEN BlockSize - 1 - (x % BlockSize) ELSE x % BlockSize
  IN IF b.tr THEN <<b.y * BlockSize + c, b.x * BlockSize + r>>
     ELSE <<b.y * BlockSize + r, b.x * BlockSize + c>>

(* When no partial iMCU is in the way of a mirror (they are whole, or trimmed     *)
(* off), every sample of the output is the one geometry puts there, cropped or    *)
(* not: the sample at the same distance from the far edge of the whole iMCUs, the *)
(* axes exchanged by the transposing transforms.                                  *)
MirrorsX == request.transform \in {"flip_h", "rot90", "rot180", "transverse"}
MirrorsY == request.transform \in {"flip_v", "rot270", "rot180", "transverse"}
SamplesInPlace ==
  Written /\ Len(applied) = 1 =>
    \A ci \in DOMAIN dst.blocks :
      LET c == dst.comps[ci]
          swap == request.transform \in Transposing
          wholeX == (IF swap THEN src.height ELSE src.width) \div info.iMCU_width
          wholeY == (IF swap THEN src.width ELSE src.height) \div info.iMCU_height
          fullX == wholeX * c.h * BlockSize    fullY == wholeY * c.v * BlockSize
          unmirrored ==
            \/ MirrorsX /\ info.xo * info.iMCU_width + dst.width > wholeX * info.iMCU_width
            \/ MirrorsY /\ info.yo * info.iMCU_height + dst.height > wholeY * info.iMCU_height
      IN unmirrored \/ \A yx \in DOMAIN dst.blocks[ci], oy, ox \in 0 .. BlockSize - 1 :
           LET y == yx[1] * BlockSize + oy    x == yx[2] * BlockSize + ox
               Y == y + info.yo * c.v * BlockSize    X == x + info.xo * c.h * BlockSize
               row == IF MirrorsY THEN fullY - 1 - Y ELSE Y
               col == IF MirrorsX THEN fullX - 1 - X ELSE X
           IN Pixel(dst, ci, y, x) = IF swap THEN <<col, row>> ELSE <<row, col>>

(* usage.txt: "The other transforms can be built up as sequences of transpose and *)
(* flip operations; for consistency, their actions on edge pixels are defined to  *)
(* be the same as the end result of the corresponding transpose-and-flip          *)
(* sequence."                                                                     *)
Plain(r) == ~ r.cropped /\ ~ r.trim /\ ~ r.grayscale
Apply(p, code) ==
  LET swap == code \in Transposing
      q == [p EXCEPT !.width = IF swap THEN p.height ELSE p.width,
                     !.height = IF swap THEN p.width ELSE p.height,
                     !.comps = [ci \in DOMAIN p.comps |->
                                  IF swap THEN [h |-> p.comps[ci].v, v |-> p.comps[ci].h] ELSE p.comps[ci]]]
  IN [q EXCEPT !.blocks = Transformed(p, q, code, 0, 0)]
Sequences ==
  [rot90 |-> <<"transpose", "flip_h">>, rot270 |-> <<"flip_h", "transpose">>,
   rot180 |-> <<"flip_v", "flip_h">>, transverse |-> <<"rot180", "transpose">>]
EdgesAsSequence ==
  Written /\ Plain(request) /\ Len(src.comps) > 1 /\ request.transform \in DOMAIN Sequences =>
    LET s == Sequences[request.transform]
    IN dst.blocks = Apply(Apply(src, s[1]), s[2]).blocks

(* A transform of a crop is the crop of the transform: the blocks kept are those  *)
(* the whole transformed picture has there, partial iMCUs at its edges included.  *)
(* Files of one component are left out: their sampling factors are set to 1, so   *)
(* that offsets count in other blocks; SamplesInPlace speaks of them as well.     *)
CropOfTheWhole ==
  Written /\ Len(dst.comps) > 1 =>
    LET whole == Apply(src, request.transform)
    IN \A ci \in DOMAIN dst.blocks : \A yx \in DOMAIN dst.blocks[ci] :
         dst.blocks[ci][yx] = whole.blocks[ci][<<yx[1] + info.yo * dst.comps[ci].v,
                                                yx[2] + info.xo * dst.comps[ci].h>>]

(* Transforming the file written by the inverse gives the first picture back,     *)
(* partial iMCUs and all.                                                         *)
InverseOf(code) ==
  CASE code = "rot90" -> "rot270" [] code = "rot270" -> "rot90"
    [] code \notin {"rot90", "rot270"} -> code
Reversible ==
  Written /\ Len(applied) = 2 /\ Plain(applied[1]) /\ Plain(applied[2])
          /\ applied[2].transform = InverseOf(applied[1].transform)
    => /\ dst.blocks = original.blocks /\ dst.width = original.width /\ dst.height = original.height
       /\ ~ dst.tables

(* No JFIF or Adobe marker is there twice, whether the library or the source file *)
(* has written it.  An Exif marker that is the first one kept comes first, behind   *)
(* the Adobe marker at most, and where the picture has got a new size the entries   *)
(* of its Exif directory state it.  (An Exif marker behind another one is copied as *)
(* it is, old size and all; so an Adobe marker written before it keeps the next run *)
(* from adjusting it.)                                                              *)
StatesSize(data, width, height) ==
  Adjustable(data) =>
    \A o \in SizeEntries(data) :
      /\ High16(data, o + 8) = 0
      /\ Low16(data, o + 8) = IF Get16(data, o) = 40962 THEN width ELSE height
MarkersInOrder ==
  Written =>
    /\ \A i, j \in DOMAIN dst.markers :
         dst.markers[i].kind = dst.markers[j].kind /\ dst.markers[i].kind \in {"JFIF", "Adobe"} => i = j
    /\ HasExif =>
         LET n == Len(OwnMarkers(dst.colour, HasExif)) + 1
         IN /\ n \in DOMAIN dst.markers /\ dst.markers[n].kind = "Exif"
            /\ n = 2 => dst.markers[1].kind = "Adobe"
            /\ dst.width # src.width \/ dst.height # src.height =>
                 StatesSize(dst.markers[n].data, dst.width, dst.height)
=================================================================================
