---------------------------- MODULE MCJpegTransform -----------------------------
EXTENDS JpegTransform

Sampled(h, v) == <<[h |-> h, v |-> v], [h |-> 1, v |-> 1], [h |-> 1, v |-> 1]>>
Marker(k) == [kind |-> k, data |-> <<>>]

\* A TIFF structure of 64 bytes in either byte order: IFD0 at 8 with the pointer to the
\* Exif IFD as its second entry, the Exif IFD at 38 with a size of 1 by 1 (as shorts).
Word(m, n) == IF m THEN <<n \div 256, n % 256>> ELSE <<n % 256, n \div 256>>
Long(m, n) == IF m THEN <<0, 0>> \o Word(m, n) ELSE Word(m, n) \o <<0, 0>>
Entry(m, tag, type, value) == Word(m, tag) \o Word(m, type) \o Long(m, 1) \o value
Tiff(m) ==
  (IF m THEN <<77, 77>> ELSE <<73, 73>>) \o Word(m, 42) \o Long(m, 8)
  \o Word(m, 2) \o Entry(m, 274, 3, Word(m, 1) \o <<0, 0>>) \o Entry(m, 34665, 4, Long(m, 38)) \o Long(m, 0)
  \o Word(m, 3) \o Entry(m, 40961, 3, Word(m, 1) \o <<0, 0>>) \o Entry(m, 40962, 3, Word(m, 1) \o <<0, 0>>)
  \o Entry(m, 40963, 3, Word(m, 1) \o <<0, 0>>) \o Long(m, 0)
Exif(m) == [kind |-> "Exif", data |-> Tiff(m)]

Pic(w, h, comps, colour, markers) ==
  [width |-> w, height |-> h, comps |-> comps, colour |-> colour, markers |-> markers]
SomeSources ==
  {Pic(7, 5, Sampled(2, 1), "ycc", <<Exif(TRUE), Marker("JFIF"), Marker("COM")>>),
   Pic(9, 8, Sampled(2, 2), "ycc", <<Marker("JFIF"), Marker("COM")>>),
   Pic(3, 7, Sampled(1, 2), "ycc", <<Exif(FALSE), Marker("COM")>>),
   Pic(6, 4, Sampled(1, 1), "cmyk", <<Exif(FALSE), Marker("Adobe"), Marker("COM")>>),
   Pic(5, 9, <<[h |-> 2, v |-> 2]>>, "gray", <<Marker("JFIF"), Exif(TRUE)>>)}

NoCrop == [w |-> <<"unset">>, h |-> <<"unset">>, x |-> <<"unset">>, y |-> <<"unset">>]
Crops ==
  {[w |-> <<"pos", 3>>, h |-> <<"pos", 3>>, x |-> <<"pos", 2>>, y |-> <<"pos", 1>>],
   [w |-> <<"pos", 2>>, h |-> <<"unset">>, x |-> <<"neg", 1>>, y |-> <<"pos", 2>>],
   [w |-> <<"unset">>, h |-> <<"pos", 2>>, x |-> <<"pos", 4>>, y |-> <<"neg", 0>>],
   [w |-> <<"pos", 4>>, h |-> <<"pos", 4>>, x |-> <<"unset">>, y |-> <<"unset">>]}
Option(t, trim, perfect, gray, cropped, crop, copy) ==
  [transform |-> t, trim |-> trim, perfect |-> perfect, grayscale |-> gray,
   cropped |-> cropped, crop |-> crop, copy |-> copy]
PlainRequests == {Option(t, FALSE, FALSE, FALSE, FALSE, NoCrop, "all") : t \in Transforms}
SomeRequests ==
  PlainRequests
  \cup {Option(t, FALSE, TRUE, FALSE, FALSE, NoCrop, "comments") : t \in Transforms}
  \cup {Option(t, TRUE, FALSE, g, FALSE, NoCrop, "all") : t \in Transforms, g \in BOOLEAN}
  \cup {Option(t, trim, FALSE, FALSE, TRUE, c, "none") : t \in Transforms, trim \in BOOLEAN, c \in Crops}
=================================================================================
