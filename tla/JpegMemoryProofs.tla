---------------------------- MODULE JpegMemoryProofs ----------------------------
(* What JpegMemory promises, for every kind and number of arrays, all sizes of    *)
(* chunks, pools, headers and slop, every heap and every limit on memory, and     *)
(* whichever allocations and temporary files are refused.                         *)
(*                                                                                *)
(* The invariant IInv is shown action by action.  Allocations, requests and       *)
(* realize_virt_arrays leave the rows alone (Steady); an access is Refused or     *)
(* Granted; WriteRow is Stored; the rest releases pools.  The same five cases     *)
(* carry the refinement of VirtualArrays.                                         *)
EXTENDS JpegMemory, TLAPS, WellFoundedInduction

-------------------------------------------------------------------------------
(* Naturals, loops and sums.  Induction is over the set of the numbers a          *)
(* statement holds of.                                                            *)

\* The least number of a set that is not empty.
LEMMA Smallest ==
  ASSUME NEW S \in SUBSET Nat, S # {}
  PROVE  Min(S) \in S /\ \A k \in S : Min(S) <= k
<1> DEFINE R == {p \in Nat \X Nat : p[1] < p[2]}
<1>1. IsWellFoundedOn(R, Nat) BY NatLessThanWellFounded DEF OpToRel
<1>2. PICK n \in S : \A k \in S : ~ (<<k, n>> \in R) BY <1>1, WFMin
<1>3. \A k \in S : ~ (k < n) BY <1>2
<1>4. \A k \in S : n <= k BY <1>3
<1> QED BY <1>4 DEF Min

\* Induction over the numbers, for the loops of the module.
LEMMA Induction ==
  ASSUME NEW S \in SUBSET Nat, 0 \in S, \A n \in S : n + 1 \in S
  PROVE  S = Nat
<1> SUFFICES ASSUME Nat \ S # {} PROVE FALSE OBVIOUS
<1> DEFINE n == Min(Nat \ S)
<1>1. n \in Nat \ S /\ \A k \in Nat \ S : n <= k BY Smallest
<1> HIDE DEF n
<1>2. n - 1 \in S /\ n = (n - 1) + 1 BY <1>1
<1> QED BY <1>1, <1>2

IsSum(g, f) == g = [i \in Nat |-> IF i = 0 THEN 0 ELSE g[i - 1] + f[i]]
IsSumTo(g, f, n) == g = [i \in 0 .. n |-> IF i = 0 THEN 0 ELSE g[i - 1] + f[i]]

\* A sum of finitely many terms exists as a function of their number ...
LEMMA PartialSums ==
  ASSUME NEW f, NEW n \in Nat PROVE \E g : IsSumTo(g, f, n)
<1> DEFINE S == {k \in Nat : \E g : IsSumTo(g, f, k)}
<1>1. 0 \in S
  <2> DEFINE g == [i \in 0 .. 0 |-> 0]
  <2>1. IsSumTo(g, f, 0) BY DEF IsSumTo
  <2> QED BY <2>1
<1>2. ASSUME NEW k \in S PROVE k + 1 \in S
  <2>1. PICK g : IsSumTo(g, f, k) OBVIOUS
  <2> DEFINE h == [i \in 0 .. k + 1 |-> IF i <= k THEN g[i] ELSE g[k] + f[k + 1]]
  <2>2. \A i \in 0 .. k + 1 : h[i] = IF i = 0 THEN 0 ELSE h[i - 1] + f[i]
    BY <2>1 DEF IsSumTo
  <2>3. IsSumTo(h, f, k + 1) BY <2>2 DEF IsSumTo
  <2> QED BY <2>3
<1>3. S = Nat BY <1>1, <1>2, Induction
<1> QED BY <1>3

\* ... the same for every number of terms ...
LEMMA PartialSumsAgree ==
  ASSUME NEW f, NEW k \in Nat, NEW g, NEW h, IsSumTo(g, f, k), IsSumTo(h, f, k + 1)
  PROVE  g[k] = h[k]
<1> DEFINE S == {i \in Nat : i <= k => g[i] = h[i]}
<1>1. 0 \in S BY DEF IsSumTo
<1>2. ASSUME NEW i \in S PROVE i + 1 \in S
  <2> SUFFICES ASSUME i + 1 <= k PROVE g[i + 1] = h[i + 1] OBVIOUS
  <2>1. g[i] = h[i] OBVIOUS
  <2>2. g[i + 1] = g[i] + f[i + 1] BY DEF IsSumTo
  <2>3. h[i + 1] = h[i] + f[i + 1] BY DEF IsSumTo
  <2> QED BY <2>1, <2>2, <2>3
<1>3. S = Nat BY <1>1, <1>2, Induction
<1> QED BY <1>3

\* ... and so do all of them in one function.
LEMMA SumsExist == ASSUME NEW f PROVE \E g : IsSum(g, f)
<1> DEFINE G(k) == CHOOSE g : IsSumTo(g, f, k)
           h == [i \in Nat |-> G(i)[i]]
<1>1. \A k \in Nat : IsSumTo(G(k), f, k) BY PartialSums
<1> HIDE DEF G
<1>2. G(0)[0] = 0 BY <1>1 DEF IsSumTo
<1>3. ASSUME NEW i \in Nat PROVE G(i + 1)[i + 1] = G(i)[i] + f[i + 1]
  <2>1. G(i)[i] = G(i + 1)[i] BY <1>1, PartialSumsAgree
  <2>2. IsSumTo(G(i + 1), f, i + 1) BY <1>1
  <2>3. G(i + 1)[i + 1] = G(i + 1)[i] + f[i + 1] BY <2>2 DEF IsSumTo
  <2> QED BY <2>1, <2>3
<1>4. \A i \in Nat : h[i] = IF i = 0 THEN 0 ELSE h[i - 1] + f[i]
  <2> SUFFICES ASSUME NEW i \in Nat, i # 0 PROVE h[i] = h[i - 1] + f[i] BY <1>2
  <2>1. i - 1 \in Nat /\ (i - 1) + 1 = i OBVIOUS
  <2> QED BY <1>3, <2>1
<1>5. IsSum(h, f) BY <1>4 DEF IsSum
<1> QED BY <1>5

\* A sum is built up term by term.
LEMMA SumStep ==
  ASSUME NEW f PROVE SumTo(f, 0) = 0 /\ \A n \in Nat : SumTo(f, n + 1) = SumTo(f, n) + f[n + 1]
<1> DEFINE c == CHOOSE g : g = [i \in Nat |-> IF i = 0 THEN 0 ELSE g[i - 1] + f[i]]
<1>1. IsSum(c, f) BY SumsExist DEF IsSum
<1>2. \A n : SumTo(f, n) = c[n] BY DEF SumTo
<1> HIDE DEF c
<1>3. c[0] = 0 BY <1>1 DEF IsSum
<1>4. \A n \in Nat : c[n + 1] = c[n] + f[n + 1] BY <1>1 DEF IsSum
<1> QED BY <1>2, <1>3, <1>4

\* Equal terms have equal sums.
LEMMA SumsAgree ==
  ASSUME NEW n \in Nat, NEW f, NEW g, \A i \in 1 .. n : f[i] = g[i]
  PROVE  SumTo(f, n) = SumTo(g, n)
<1> DEFINE S == {k \in Nat : k <= n => SumTo(f, k) = SumTo(g, k)}
<1>1. 0 \in S BY SumStep
<1>2. ASSUME NEW k \in S PROVE k + 1 \in S
  <2> SUFFICES ASSUME k + 1 <= n PROVE SumTo(f, k + 1) = SumTo(g, k + 1) OBVIOUS
  <2>1. SumTo(f, k + 1) = SumTo(f, k) + f[k + 1] BY SumStep
  <2>2. SumTo(g, k + 1) = SumTo(g, k) + g[k + 1] BY SumStep
  <2> QED BY <2>1, <2>2
<1>3. S = Nat BY <1>1, <1>2, Induction
<1> QED BY <1>3

\* Sums of integers are integers ...
LEMMA SumType ==
  ASSUME NEW n \in Nat, NEW f, \A i \in 1 .. n : f[i] \in Int
  PROVE  SumTo(f, n) \in Int
<1> DEFINE S == {k \in Nat : k <= n => SumTo(f, k) \in Int}
<1>1. 0 \in S BY SumStep
<1>2. ASSUME NEW k \in S PROVE k + 1 \in S
  <2> SUFFICES ASSUME k + 1 <= n PROVE SumTo(f, k + 1) \in Int OBVIOUS
  <2>1. SumTo(f, k + 1) = SumTo(f, k) + f[k + 1] BY SumStep
  <2> QED BY <2>1
<1>3. S = Nat BY <1>1, <1>2, Induction
<1> QED BY <1>3

\* The first term of a sum may be taken out.
LEMMA SumShift ==
  ASSUME NEW n \in Nat, NEW f, NEW g, f[1] \in Int,
         \A i \in 1 .. n : f[i + 1] = g[i] /\ g[i] \in Int
  PROVE  SumTo(f, n + 1) = f[1] + SumTo(g, n)
<1> DEFINE S == {k \in Nat : k <= n => SumTo(f, k + 1) = f[1] + SumTo(g, k)}
<1>1. 0 \in S
  <2>1. SumTo(f, 0 + 1) = SumTo(f, 0) + f[0 + 1] BY SumStep
  <2> QED BY <2>1, SumStep
<1>2. ASSUME NEW k \in S PROVE k + 1 \in S
  <2> SUFFICES ASSUME k + 1 <= n PROVE SumTo(f, (k + 1) + 1) = f[1] + SumTo(g, k + 1) OBVIOUS
  <2>1. SumTo(f, (k + 1) + 1) = SumTo(f, k + 1) + f[(k + 1) + 1] BY SumStep
  <2>2. SumTo(g, k + 1) = SumTo(g, k) + g[k + 1] BY SumStep
  <2>3. SumTo(g, k) \in Int BY SumType
  <2>4. f[(k + 1) + 1] = g[k + 1] /\ g[k + 1] \in Int OBVIOUS
  <2> QED BY <2>1, <2>2, <2>3, <2>4
<1>3. S = Nat BY <1>1, <1>2, Induction
<1> QED BY <1>3

\* A sum of terms of which each is at most c times another's.
LEMMA SumBound ==
  ASSUME NEW n \in Nat, NEW c \in Nat, NEW f, NEW g,
         \A i \in 1 .. n : f[i] \in Int /\ g[i] \in Int /\ f[i] <= c * g[i]
  PROVE  SumTo(f, n) <= c * SumTo(g, n)
<1> DEFINE S == {k \in Nat : k <= n => SumTo(f, k) <= c * SumTo(g, k)}
<1>1. 0 \in S BY SumStep
<1>2. ASSUME NEW k \in S PROVE k + 1 \in S
  <2> SUFFICES ASSUME k + 1 <= n PROVE SumTo(f, k + 1) <= c * SumTo(g, k + 1) OBVIOUS
  <2>1. SumTo(f, k + 1) = SumTo(f, k) + f[k + 1] BY SumStep
  <2>2. SumTo(g, k + 1) = SumTo(g, k) + g[k + 1] BY SumStep
  <2>3. SumTo(f, k) \in Int /\ SumTo(g, k) \in Int BY SumType
  <2>4. \A x, y \in Int : c * (x + y) = c * x + c * y OBVIOUS
  <2>5. c * (SumTo(g, k) + g[k + 1]) = c * SumTo(g, k) + c * g[k + 1] BY <2>3, <2>4
  <2>6. f[k + 1] <= c * g[k + 1] /\ f[k + 1] \in Int /\ g[k + 1] \in Int OBVIOUS
  <2>7. SumTo(f, k) <= c * SumTo(g, k) OBVIOUS
  <2> QED BY <2>1, <2>2, <2>3, <2>5, <2>6, <2>7
<1>3. S = Nat BY <1>1, <1>2, Induction
<1> QED BY <1>3

\* ... and of natural numbers natural numbers.
LEMMA SumNatural ==
  ASSUME NEW n \in Nat, NEW f, \A i \in 1 .. n : f[i] \in Nat
  PROVE  SumTo(f, n) \in Nat
<1> DEFINE S == {k \in Nat : k <= n => SumTo(f, k) \in Nat}
<1>1. 0 \in S BY SumStep
<1>2. ASSUME NEW k \in S PROVE k + 1 \in S
  <2> SUFFICES ASSUME k + 1 <= n PROVE SumTo(f, k + 1) \in Nat OBVIOUS
  <2>1. SumTo(f, k + 1) = SumTo(f, k) + f[k + 1] BY SumStep
  <2> QED BY <2>1
<1>3. S = Nat BY <1>1, <1>2, Induction
<1> QED BY <1>3

-------------------------------------------------------------------------------
(* Types, and the bytes of a pool.                                                *)
Headers == [used : Int, left : Int]
Values == Data \cup {Zero, Noise}
Contents == UNION {[D -> Values] : D \in SUBSET Int}
ArrayRecs ==
  [spec : Arrays, realized : BOOLEAN, b_s_open : BOOLEAN, rows_in_mem : Int, rowsperchunk : Int,
   cur_start_row : Int, first_undef_row : Int, dirty : BOOLEAN, buffer : Contents, file : Contents]
Managers ==
  [small : [Pools -> Seq(Headers)], large : [Pools -> Seq(Headers)], arrays : Seq(ArrayRecs),
   total : Int, heap : Int, files : SUBSET Int, ok : BOOLEAN]

HeaderBytes(hs) == [i \in DOMAIN hs |-> hs[i].used + hs[i].left + HEADER]

\* The terms of Bytes.
LEMMA HeaderBytesType ==
  ASSUME NEW hs \in Seq(Headers)
  PROVE  /\ Len(hs) \in Nat /\ DOMAIN hs = 1 .. Len(hs)
         /\ \A i \in 1 .. Len(hs) : /\ HeaderBytes(hs)[i] = hs[i].used + hs[i].left + HEADER
                                   /\ HeaderBytes(hs)[i] \in Int
         /\ Bytes(hs) = SumTo(HeaderBytes(hs), Len(hs))
<1>1. HEADER \in Int BY SizesAssumption
<1>2. Len(hs) \in Nat /\ DOMAIN hs = 1 .. Len(hs) OBVIOUS
<1>3. \A i \in 1 .. Len(hs) : hs[i] \in Headers OBVIOUS
<1>4. \A h \in Headers : h.used \in Int /\ h.left \in Int BY DEF Headers
<1>5. \A i \in 1 .. Len(hs) : hs[i].used \in Int /\ hs[i].left \in Int BY <1>3, <1>4
<1> QED BY <1>1, <1>2, <1>5 DEF HeaderBytes, Bytes

\* The bytes of a list of headers are a number ...
LEMMA BytesType == ASSUME NEW hs \in Seq(Headers) PROVE Bytes(hs) \in Int
BY HeaderBytesType, SumType

\* ... none for no header ...
LEMMA BytesNone == Bytes(<<>>) = 0
BY SumStep DEF Bytes

\* ... and a new header adds its own, at the end of the list of small pools ...
LEMMA BytesAppend ==
  ASSUME NEW hs \in Seq(Headers), NEW h \in Headers
  PROVE  Bytes(Append(hs, h)) = Bytes(hs) + h.used + h.left + HEADER
<1> DEFINE n == Len(hs)
           new == Append(hs, h)
<1>1. new \in Seq(Headers) /\ Len(new) = n + 1 /\ n \in Nat OBVIOUS
<1>2. new[n + 1] = h /\ \A i \in 1 .. n : new[i] = hs[i] OBVIOUS
<1> HIDE DEF new
<1>3. HeaderBytes(new)[n + 1] = h.used + h.left + HEADER BY <1>1, <1>2, HeaderBytesType
<1>4. \A i \in 1 .. n : HeaderBytes(new)[i] = HeaderBytes(hs)[i]
  <2> SUFFICES ASSUME NEW i \in 1 .. n PROVE HeaderBytes(new)[i] = HeaderBytes(hs)[i] OBVIOUS
  <2>1. i \in 1 .. Len(new) BY <1>1
  <2> QED BY <1>1, <1>2, <2>1, HeaderBytesType
<1>5. SumTo(HeaderBytes(new), n + 1) = SumTo(HeaderBytes(new), n) + HeaderBytes(new)[n + 1]
  BY <1>1, SumStep
<1>6. SumTo(HeaderBytes(new), n) = SumTo(HeaderBytes(hs), n) BY <1>1, <1>4, SumsAgree
<1>7. Bytes(new) = SumTo(HeaderBytes(new), n + 1) /\ Bytes(hs) = SumTo(HeaderBytes(hs), n)
  BY <1>1, HeaderBytesType
<1>8. HEADER \in Int /\ h.used \in Int /\ h.left \in Int /\ Bytes(hs) \in Int
  BY SizesAssumption, BytesType DEF Headers
<1>9. Bytes(new) = Bytes(hs) + h.used + h.left + HEADER BY <1>3, <1>5, <1>6, <1>7, <1>8
<1> QED BY <1>9 DEF new

\* ... and at the beginning of that of large ones.
LEMMA BytesPrepend ==
  ASSUME NEW hs \in Seq(Headers), NEW h \in Headers
  PROVE  Bytes(<<h>> \o hs) = Bytes(hs) + h.used + h.left + HEADER
<1> DEFINE n == Len(hs)
           new == <<h>> \o hs
<1>1. new \in Seq(Headers) /\ Len(new) = n + 1 /\ n \in Nat OBVIOUS
<1>2. new[1] = h /\ \A i \in 1 .. n : new[i + 1] = hs[i] OBVIOUS
<1> HIDE DEF new
<1>3. HeaderBytes(new)[1] = h.used + h.left + HEADER /\ HeaderBytes(new)[1] \in Int
  BY <1>1, <1>2, HeaderBytesType
<1>4. \A i \in 1 .. n : HeaderBytes(new)[i + 1] = HeaderBytes(hs)[i] /\ HeaderBytes(hs)[i] \in Int
  BY <1>1, <1>2, HeaderBytesType
<1>5. SumTo(HeaderBytes(new), n + 1) = HeaderBytes(new)[1] + SumTo(HeaderBytes(hs), n)
  BY <1>1, <1>3, <1>4, SumShift
<1>6. Bytes(new) = SumTo(HeaderBytes(new), n + 1) /\ Bytes(hs) = SumTo(HeaderBytes(hs), n)
  BY <1>1, HeaderBytesType
<1>7. HEADER \in Int /\ h.used \in Int /\ h.left \in Int /\ Bytes(hs) \in Int
  BY SizesAssumption, BytesType DEF Headers
<1>8. Bytes(new) = Bytes(hs) + h.used + h.left + HEADER BY <1>3, <1>5, <1>6, <1>7
<1> QED BY <1>8 DEF new

\* What is taken from the room of a pool is in use there.
LEMMA BytesUsed ==
  ASSUME NEW hs \in Seq(Headers), NEW j \in DOMAIN hs, NEW size \in Int
  PROVE  LET new == [hs EXCEPT ![j] = [used |-> @.used + size, left |-> @.left - size]]
         IN new \in Seq(Headers) /\ Bytes(new) = Bytes(hs)
<1> DEFINE new == [hs EXCEPT ![j] = [used |-> @.used + size, left |-> @.left - size]]
<1>1. hs[j] \in Headers OBVIOUS
<1>2. hs[j].used \in Int /\ hs[j].left \in Int BY <1>1 DEF Headers
<1>3. [used |-> hs[j].used + size, left |-> hs[j].left - size] \in Headers BY <1>2 DEF Headers
<1>4. new \in Seq(Headers) /\ Len(new) = Len(hs) BY <1>3
<1>5. \A i \in 1 .. Len(hs) : new[i] = IF i = j THEN [used |-> hs[j].used + size, left |-> hs[j].left - size]
                                       ELSE hs[i]
  OBVIOUS
<1> HIDE DEF new
<1>6. HEADER \in Int BY SizesAssumption
<1>7. \A i \in 1 .. Len(hs) : HeaderBytes(new)[i] = HeaderBytes(hs)[i]
  <2> SUFFICES ASSUME NEW i \in 1 .. Len(hs) PROVE HeaderBytes(new)[i] = HeaderBytes(hs)[i] OBVIOUS
  <2>1. HeaderBytes(new)[i] = new[i].used + new[i].left + HEADER BY <1>4, HeaderBytesType
  <2>2. HeaderBytes(hs)[i] = hs[i].used + hs[i].left + HEADER BY HeaderBytesType
  <2>3. CASE i = j BY <1>2, <1>5, <1>6, <2>1, <2>2, <2>3
  <2>4. CASE i # j BY <1>5, <2>1, <2>2, <2>4
  <2> QED BY <2>3, <2>4
<1>8. Bytes(new) = Bytes(hs) BY <1>4, <1>7, HeaderBytesType, SumsAgree
<1> QED BY <1>4, <1>8 DEF new

-------------------------------------------------------------------------------
(* Allocation.  Whatever an allocation does, the books stay balanced, and the     *)
(* virtual arrays and files are not touched.                                      *)
Held(s) == Bytes(s.small[PERMANENT]) + Bytes(s.small[IMAGE])
             + Bytes(s.large[PERMANENT]) + Bytes(s.large[IMAGE])
Balanced(s) == s.total = s.heap /\ s.heap = MANAGER + Held(s)

\* s has become t by allocations.
Kept(s, t) ==
  /\ t \in Managers /\ t.arrays = s.arrays /\ t.files = s.files
  /\ Balanced(s) => Balanced(t)
  /\ t.ok => s.ok

\* The types of the constants and of the fields of the manager.
LEMMA SizeTypes ==
  /\ HEADER \in Int /\ ALIGN \in Nat \ {0} /\ MANAGER \in Int /\ POINTER \in Int /\ CONTROL \in Int
  /\ MAX_ALLOC_CHUNK \in Int /\ MIN_SLOP \in Int
  /\ \A p \in Pools : first_pool_slop[p] \in Int /\ extra_pool_slop[p] \in Int
BY SizesAssumption

LEMMA RoundUpType == ASSUME NEW size \in Int PROVE RoundUp(size) \in Int
<1>1. size % ALIGN \in Int BY SizeTypes
<1> QED BY <1>1, SizeTypes DEF RoundUp

LEMMA ManagerFields ==
  ASSUME NEW s \in Managers
  PROVE  /\ \A p \in Pools : s.small[p] \in Seq(Headers) /\ s.large[p] \in Seq(Headers)
         /\ s.arrays \in Seq(ArrayRecs) /\ s.total \in Int /\ s.heap \in Int
         /\ s.files \in SUBSET Int /\ s.ok \in BOOLEAN
         /\ s.small \in [Pools -> Seq(Headers)] /\ s.large \in [Pools -> Seq(Headers)]
BY DEF Managers

\* Allocations one after the other.
LEMMA KeptItself == \A s \in Managers : Kept(s, s)
BY DEF Kept

LEMMA KeptTwice == \A s, t, u : Kept(s, t) /\ Kept(t, u) => Kept(s, u)
BY DEF Kept

\* A failed allocation keeps everything.
LEMMA FailedKeeps == \A s \in Managers : Kept(s, Failed(s)) /\ ~ Failed(s).ok
<1> SUFFICES ASSUME NEW s \in Managers PROVE Kept(s, Failed(s)) /\ ~ Failed(s).ok OBVIOUS
<1>1. Failed(s) \in Managers /\ ~ Failed(s).ok BY DEF Failed, Managers
<1>2. /\ Failed(s).small = s.small /\ Failed(s).large = s.large /\ Failed(s).arrays = s.arrays
      /\ Failed(s).files = s.files /\ Failed(s).total = s.total /\ Failed(s).heap = s.heap
  BY DEF Failed, Managers
<1>3. Balanced(s) => Balanced(Failed(s)) BY <1>2 DEF Balanced, Held
<1> QED BY <1>1, <1>2, <1>3 DEF Kept

\* What the pools hold is a number; it grows by what one of the lists grows.
LEMMA HeldType == \A s \in Managers : Held(s) \in Int
<1> SUFFICES ASSUME NEW s \in Managers PROVE Held(s) \in Int OBVIOUS
<1>1. /\ Bytes(s.small[PERMANENT]) \in Int /\ Bytes(s.small[IMAGE]) \in Int
      /\ Bytes(s.large[PERMANENT]) \in Int /\ Bytes(s.large[IMAGE]) \in Int
  BY ManagerFields, BytesType DEF Pools
<1> QED BY <1>1 DEF Held

LEMMA HeldSmall ==
  ASSUME NEW s \in Managers, NEW t \in Managers, NEW p \in Pools, NEW d \in Int,
         NEW hs \in Seq(Headers), Bytes(hs) = Bytes(s.small[p]) + d,
         t.small = [s.small EXCEPT ![p] = hs], t.large = s.large,
         t.total = s.total + d, t.heap = s.heap + d, Balanced(s)
  PROVE  Balanced(t)
<1>1. /\ Bytes(s.small[PERMANENT]) \in Int /\ Bytes(s.small[IMAGE]) \in Int
      /\ Bytes(s.large[PERMANENT]) \in Int /\ Bytes(s.large[IMAGE]) \in Int
  BY ManagerFields, BytesType DEF Pools
<1>2. t.small[p] = hs /\ \A q \in Pools \ {p} : t.small[q] = s.small[q]
  BY ManagerFields
<1>3. Held(t) = Held(s) + d
  <2>1. CASE p = PERMANENT
    <3>1. t.small[PERMANENT] = hs /\ t.small[IMAGE] = s.small[IMAGE]
      BY <1>2, <2>1 DEF Pools, PERMANENT, IMAGE
    <3> QED BY <1>1, <2>1, <3>1 DEF Held
  <2>2. CASE p = IMAGE
    <3>1. t.small[IMAGE] = hs /\ t.small[PERMANENT] = s.small[PERMANENT]
      BY <1>2, <2>2 DEF Pools, PERMANENT, IMAGE
    <3> QED BY <1>1, <2>2, <3>1 DEF Held
  <2> QED BY <2>1, <2>2 DEF Pools
<1> QED BY <1>3, HeldType, ManagerFields, SizeTypes DEF Balanced

LEMMA HeldLarge ==
  ASSUME NEW s \in Managers, NEW t \in Managers, NEW p \in Pools, NEW d \in Int,
         NEW hs \in Seq(Headers), Bytes(hs) = Bytes(s.large[p]) + d,
         t.large = [s.large EXCEPT ![p] = hs], t.small = s.small,
         t.total = s.total + d, t.heap = s.heap + d, Balanced(s)
  PROVE  Balanced(t)
<1>1. /\ Bytes(s.small[PERMANENT]) \in Int /\ Bytes(s.small[IMAGE]) \in Int
      /\ Bytes(s.large[PERMANENT]) \in Int /\ Bytes(s.large[IMAGE]) \in Int
  BY ManagerFields, BytesType DEF Pools
<1>2. t.large[p] = hs /\ \A q \in Pools \ {p} : t.large[q] = s.large[q]
  BY ManagerFields
<1>3. Held(t) = Held(s) + d
  <2>1. CASE p = PERMANENT
    <3>1. t.large[PERMANENT] = hs /\ t.large[IMAGE] = s.large[IMAGE]
      BY <1>2, <2>1 DEF Pools, PERMANENT, IMAGE
    <3> QED BY <1>1, <2>1, <3>1 DEF Held
  <2>2. CASE p = IMAGE
    <3>1. t.large[IMAGE] = hs /\ t.large[PERMANENT] = s.large[PERMANENT]
      BY <1>2, <2>2 DEF Pools, PERMANENT, IMAGE
    <3> QED BY <1>1, <2>2, <3>1 DEF Held
  <2> QED BY <2>1, <2>2 DEF Pools
<1> QED BY <1>3, HeldType, ManagerFields, SizeTypes DEF Balanced

\* The manager after malloc has given n bytes for a pool.
Obtain(s, n, small, large) ==
  [small |-> small, large |-> large, arrays |-> s.arrays, total |-> s.total + n,
   heap |-> s.heap + n, files |-> s.files, ok |-> s.ok]
Grown(s, n, small, large, t) ==
  /\ t \in Managers /\ t.small = small /\ t.large = large
  /\ t.arrays = s.arrays /\ t.files = s.files /\ t.ok = s.ok
  /\ t.total = s.total + n /\ t.heap = s.heap + n

\* Space is obtained for a new header.
LEMMA Obtained ==
  \A s \in Managers, n \in Int, small, large \in [Pools -> Seq(Headers)] :
    Grown(s, n, small, large, Obtain(s, n, small, large))
<1> SUFFICES ASSUME NEW s \in Managers, NEW n \in Int, NEW small \in [Pools -> Seq(Headers)],
                    NEW large \in [Pools -> Seq(Headers)]
             PROVE  Grown(s, n, small, large, Obtain(s, n, small, large))
  OBVIOUS
<1>1. s.total + n \in Int /\ s.heap + n \in Int BY ManagerFields
<1>2. s.arrays \in Seq(ArrayRecs) /\ s.files \in SUBSET Int /\ s.ok \in BOOLEAN BY ManagerFields
<1> QED BY <1>1, <1>2 DEF Managers, Obtain, Grown

\* The slop of a new pool is a number.
LEMMA SlopType ==
  ASSUME NEW s \in Managers, NEW p \in Pools, NEW min_request \in Int, Slops(s, p, min_request) # {}
  PROVE  FirstSlop(s, p, min_request) \in Int
<1>1. Slops(s, p, min_request) \subseteq Halvings BY DEF Slops
<1>2. Halvings \subseteq Nat \ {0} BY DEF Halvings
<1>3. Min(Slops(s, p, min_request)) \in Nat \ {0} BY <1>1, <1>2, Smallest
<1>4. WantedSlop(s, p, min_request) \in Int BY SizeTypes DEF WantedSlop, Least
<1> QED BY <1>3, <1>4 DEF FirstSlop

\* alloc_small.
LEMMA SmallKeeps ==
  ASSUME NEW s \in Managers, NEW p \in Pools, NEW size \in Int
  PROVE  Kept(s, alloc_small(s, p, size))
<1> DEFINE rounded == RoundUp(size)
           roomy == {i \in DOMAIN s.small[p] : s.small[p][i].left >= rounded}
           j == Min(roomy)
           min_request == rounded + HEADER
           slop == FirstSlop(s, p, min_request)
           t == alloc_small(s, p, size)
<1>1. s.ok \in BOOLEAN /\ s.small[p] \in Seq(Headers) /\ s.small \in [Pools -> Seq(Headers)]
  BY ManagerFields
<1>2. rounded \in Int /\ min_request \in Int BY RoundUpType, SizeTypes
<1>3. CASE ~ s.ok
  <2>1. t = s BY <1>3 DEF alloc_small
  <2> QED BY <2>1, KeptItself
<1>4. CASE s.ok /\ size > MAX_ALLOC_CHUNK - HEADER
  <2>1. ~ (size <= MAX_ALLOC_CHUNK - HEADER) BY <1>4, SizeTypes
  <2>2. t = Failed(s) BY <1>4, <2>1 DEF alloc_small
  <2> QED BY <2>2, FailedKeeps
<1>5. CASE s.ok /\ size <= MAX_ALLOC_CHUNK - HEADER /\ roomy # {}
  <2> DEFINE hs == [s.small[p] EXCEPT ![j] = [used |-> @.used + rounded, left |-> @.left - rounded]]
  <2>1. ~ (size > MAX_ALLOC_CHUNK - HEADER) BY <1>5, SizeTypes
  <2>2. t = [s EXCEPT !.small[p][j] = [used |-> @.used + rounded, left |-> @.left - rounded]]
    BY <1>5, <2>1 DEF alloc_small
  <2>3. j \in DOMAIN s.small[p]
    <3>1. roomy \in SUBSET Nat BY <1>1
    <3> HIDE DEF roomy
    <3>2. j \in roomy BY <1>5, <3>1, Smallest
    <3> QED BY <3>2 DEF roomy
  <2> HIDE DEF j, rounded, roomy, t
  <2>4. hs \in Seq(Headers) /\ Bytes(hs) = Bytes(s.small[p]) BY <1>1, <1>2, <2>3, BytesUsed
  <2>5. t = [s EXCEPT !.small = [s.small EXCEPT ![p] = hs]] BY <2>2 DEF Managers
  <2> HIDE DEF hs
  <2>6. /\ t \in Managers /\ t.small = [s.small EXCEPT ![p] = hs] /\ t.large = s.large
        /\ t.arrays = s.arrays /\ t.files = s.files /\ t.ok = s.ok
        /\ t.total = s.total /\ t.heap = s.heap
    BY <1>1, <2>4, <2>5 DEF Managers
  <2>7. Bytes(s.small[p]) \in Int /\ s.total \in Int /\ s.heap \in Int BY ManagerFields, BytesType
  <2>8. t.total = s.total + 0 /\ t.heap = s.heap + 0 /\ Bytes(hs) = Bytes(s.small[p]) + 0
    BY <2>4, <2>6, <2>7
  <2>9. Balanced(s) => Balanced(t) BY <2>4, <2>6, <2>8, HeldSmall
  <2>10. Kept(s, t) BY <2>6, <2>9 DEF Kept
  <2> QED BY <2>10 DEF t
<1>6. CASE s.ok /\ size <= MAX_ALLOC_CHUNK - HEADER /\ roomy = {}
  <2>1. ~ (size > MAX_ALLOC_CHUNK - HEADER) BY <1>6, SizeTypes
  <2>2. CASE Slops(s, p, min_request) = {}
    <3>1. t = Failed(s) BY <1>6, <2>1, <2>2 DEF alloc_small
    <3> QED BY <3>1, FailedKeeps
  <2>3. CASE Slops(s, p, min_request) # {}
    <3> DEFINE h == [used |-> rounded, left |-> slop]
               hs == Append(s.small[p], h)
               d == min_request + slop
    <3>1. slop \in Int BY <1>2, <2>3, SlopType
    <3>2. t = [s EXCEPT !.heap = @ + min_request + slop, !.total = @ + min_request + slop,
                        !.small[p] = Append(@, h)]
      BY <1>6, <2>1, <2>3 DEF alloc_small
    <3>3. h \in Headers /\ d = h.used + h.left + HEADER /\ d \in Int
      BY <1>2, <3>1, SizeTypes DEF Headers
    <3> HIDE DEF slop, rounded, roomy, t
    <3>4. hs \in Seq(Headers) /\ Bytes(hs) = Bytes(s.small[p]) + h.used + h.left + HEADER
      BY <1>1, <3>3, BytesAppend
    <3>5. Bytes(hs) = Bytes(s.small[p]) + d
      BY <1>1, <1>2, <3>1, <3>4, BytesType, SizeTypes
    <3>6. t = [s EXCEPT !.heap = @ + min_request + slop, !.total = @ + min_request + slop,
                        !.small = [s.small EXCEPT ![p] = hs]]
      BY <3>2 DEF Managers
    <3>7. s.total \in Int /\ s.heap \in Int BY ManagerFields
    <3> HIDE DEF h, hs
    <3> DEFINE small == [s.small EXCEPT ![p] = hs]
    <3>8. small \in [Pools -> Seq(Headers)] BY <1>1, <3>4
    <3>9. s.total + min_request + slop = s.total + d /\ s.heap + min_request + slop = s.heap + d
      BY <1>2, <3>1, <3>7, SizeTypes
    <3> HIDE DEF small, d
    <3>10. t = [s EXCEPT !.heap = s.heap + d, !.total = s.total + d, !.small = small]
      BY <3>6, <3>9 DEF small
    <3>11. t = Obtain(s, d, small, s.large) BY <3>10 DEF Managers, Obtain
    <3>12. s.large \in [Pools -> Seq(Headers)] BY ManagerFields
    <3>13. /\ t \in Managers /\ t.small = small /\ t.large = s.large
          /\ t.arrays = s.arrays /\ t.files = s.files /\ t.ok = s.ok
          /\ t.total = s.total + d /\ t.heap = s.heap + d
      <4>1. Grown(s, d, small, s.large, t) BY <3>3, <3>8, <3>11, <3>12, Obtained, Zenon
      <4> QED BY <4>1 DEF Grown
    <3>14. Balanced(s) => Balanced(t) BY <3>3, <3>4, <3>5, <3>13, HeldSmall DEF small
    <3>15. Kept(s, t) BY <3>13, <3>14 DEF Kept
    <3> QED BY <3>15 DEF t
  <2> QED BY <2>2, <2>3
<1>7. size > MAX_ALLOC_CHUNK - HEADER \/ size <= MAX_ALLOC_CHUNK - HEADER BY SizeTypes
<1> HIDE DEF roomy, t
<1> QED BY <1>1, <1>3, <1>4, <1>5, <1>6, <1>7

\* alloc_large.
LEMMA LargeKeeps ==
  ASSUME NEW s \in Managers, NEW p \in Pools, NEW size \in Int
  PROVE  Kept(s, alloc_large(s, p, size))
<1> DEFINE rounded == RoundUp(size)
           h == [used |-> rounded, left |-> 0]
           hs == <<h>> \o s.large[p]
           d == rounded + HEADER
           t == alloc_large(s, p, size)
<1>1. s.ok \in BOOLEAN /\ s.large[p] \in Seq(Headers) /\ s.large \in [Pools -> Seq(Headers)]
      /\ s.total \in Int /\ s.heap \in Int
  BY ManagerFields
<1>2. rounded \in Int /\ d \in Int BY RoundUpType, SizeTypes
<1>3. CASE ~ s.ok
  <2>1. t = s BY <1>3 DEF alloc_large
  <2> QED BY <2>1, KeptItself
<1>4. CASE s.ok /\ (size > MAX_ALLOC_CHUNK - HEADER \/ ~ Fits(s, d))
  <2>1. t = Failed(s) BY <1>4 DEF alloc_large
  <2> QED BY <2>1, FailedKeeps
<1>5. CASE s.ok /\ ~ (size > MAX_ALLOC_CHUNK - HEADER \/ ~ Fits(s, d))
  <2>1. t = [s EXCEPT !.heap = @ + rounded + HEADER, !.total = @ + rounded + HEADER,
                      !.large[p] = <<h>> \o @]
    BY <1>5 DEF alloc_large
  <2>2. h \in Headers /\ d = h.used + h.left + HEADER BY <1>2, SizeTypes DEF Headers
  <2> HIDE DEF rounded, t
  <2>3. hs \in Seq(Headers) BY <1>1, <2>2
  <2>4. Bytes(hs) = Bytes(s.large[p]) + h.used + h.left + HEADER BY <1>1, <2>2, BytesPrepend
  <2>5. Bytes(hs) = Bytes(s.large[p]) + d BY <1>1, <1>2, <2>4, BytesType, SizeTypes
  <2>6. t = [s EXCEPT !.heap = @ + rounded + HEADER, !.total = @ + rounded + HEADER,
                      !.large = [s.large EXCEPT ![p] = hs]]
    BY <2>1 DEF Managers
  <2> HIDE DEF h, hs
  <2> DEFINE large == [s.large EXCEPT ![p] = hs]
  <2>7. large \in [Pools -> Seq(Headers)] BY <1>1, <2>3
  <2>8. s.total + rounded + HEADER = s.total + d /\ s.heap + rounded + HEADER = s.heap + d
    BY <1>1, <1>2, SizeTypes
  <2> HIDE DEF large, d
  <2>9. t = [s EXCEPT !.heap = s.heap + d, !.total = s.total + d, !.large = large]
    BY <2>6, <2>8 DEF large
  <2>10. t = Obtain(s, d, s.small, large) BY <2>9 DEF Managers, Obtain
  <2>11. s.small \in [Pools -> Seq(Headers)] BY ManagerFields
  <2>12. d \in Int BY <1>2
  <2>13. /\ t \in Managers /\ t.large = large /\ t.small = s.small
        /\ t.arrays = s.arrays /\ t.files = s.files /\ t.ok = s.ok
        /\ t.total = s.total + d /\ t.heap = s.heap + d
    <3>1. Grown(s, d, s.small, large, t) BY <2>7, <2>10, <2>11, <2>12, Obtained, Zenon
    <3> QED BY <3>1 DEF Grown
  <2>14. Balanced(s) => Balanced(t) BY <1>2, <2>3, <2>5, <2>13, HeldLarge DEF large
  <2>15. Kept(s, t) BY <2>13, <2>14 DEF Kept
  <2> QED BY <2>15 DEF t
<1> QED BY <1>1, <1>3, <1>4, <1>5

\* The loop of alloc_sarray and alloc_barray over the chunks.
ChunkSize(i, width, numrows) ==
  Least(RowsPerChunk(width, numrows), numrows - (i - 1) * RowsPerChunk(width, numrows)) * width
IsChunkLoop(g, n, s, p, width, numrows) ==
  g = [i \in 0 .. n |-> IF i = 0 THEN alloc_small(s, p, numrows * POINTER)
                        ELSE alloc_large(g[i - 1], p, ChunkSize(i, width, numrows))]

\* The loop over the chunks is a function of their number.
LEMMA ChunkLoopExists ==
  ASSUME NEW n \in Nat, NEW s, NEW p, NEW width, NEW numrows
  PROVE  \E g : IsChunkLoop(g, n, s, p, width, numrows)
<1> DEFINE S == {k \in Nat : \E g : IsChunkLoop(g, k, s, p, width, numrows)}
<1>1. 0 \in S
  <2> DEFINE g == [i \in 0 .. 0 |-> alloc_small(s, p, numrows * POINTER)]
  <2>1. IsChunkLoop(g, 0, s, p, width, numrows) BY DEF IsChunkLoop
  <2> QED BY <2>1
<1>2. ASSUME NEW k \in S PROVE k + 1 \in S
  <2>1. PICK g : IsChunkLoop(g, k, s, p, width, numrows) OBVIOUS
  <2> DEFINE h == [i \in 0 .. k + 1 |-> IF i <= k THEN g[i]
                                        ELSE alloc_large(g[k], p, ChunkSize(k + 1, width, numrows))]
  <2>2. \A i \in 0 .. k + 1 : h[i] = IF i = 0 THEN alloc_small(s, p, numrows * POINTER)
                                     ELSE alloc_large(h[i - 1], p, ChunkSize(i, width, numrows))
    BY <2>1 DEF IsChunkLoop
  <2>3. IsChunkLoop(h, k + 1, s, p, width, numrows) BY <2>2 DEF IsChunkLoop
  <2> QED BY <2>3
<1>3. S = Nat BY <1>1, <1>2, Induction
<1> QED BY <1>3

\* Types of the sizes of chunks.
LEMMA DivisionType == \A x \in Int, y \in Nat \ {0} : x \div y \in Int
OBVIOUS

LEMMA RowsPerChunkType ==
  \A width \in Nat \ {0}, numrows \in Int : RowsPerChunk(width, numrows) \in Int
<1> SUFFICES ASSUME NEW width \in Nat \ {0}, NEW numrows \in Int
             PROVE  RowsPerChunk(width, numrows) \in Int
  OBVIOUS
<1>1. (MAX_ALLOC_CHUNK - HEADER) \div width \in Int BY SizeTypes, DivisionType
<1> QED BY <1>1 DEF RowsPerChunk, Least

LEMMA ProductType == \A x, y \in Int : x * y \in Int
OBVIOUS

LEMMA ChunkSizeType ==
  ASSUME NEW i \in Int, NEW width \in Nat \ {0}, NEW numrows \in Int
  PROVE  ChunkSize(i, width, numrows) \in Int
<1> DEFINE c == RowsPerChunk(width, numrows)
<1>1. c \in Int BY RowsPerChunkType
<1> HIDE DEF c
<1>2. numrows - (i - 1) * c \in Int BY <1>1, ProductType
<1>3. Least(c, numrows - (i - 1) * c) \in Int BY <1>1, <1>2 DEF Least
<1>4. Least(c, numrows - (i - 1) * c) * width \in Int BY <1>3, ProductType
<1> QED BY <1>4 DEF ChunkSize, c

\* alloc_sarray, alloc_barray: a buffer obtained has its rows in chunks.
LEMMA RowsKeep ==
  ASSUME NEW s \in Managers, NEW p \in Pools, NEW width \in Nat \ {0}, NEW numrows \in Nat \ {0}
  PROVE  /\ Kept(s, AllocRows(s, p, width, numrows))
         /\ AllocRows(s, p, width, numrows).ok => RowsPerChunk(width, numrows) >= 1
<1> DEFINE c == RowsPerChunk(width, numrows)
           chunks == (numrows + c - 1) \div c
           t == AllocRows(s, p, width, numrows)
<1>1. c \in Int BY RowsPerChunkType
<1>2. CASE c <= 0
  <2>1. t = Failed(s) BY <1>2 DEF AllocRows
  <2> QED BY <2>1, FailedKeeps
<1>3. CASE ~ (c <= 0)
  <2> DEFINE g == CHOOSE h : h = [i \in 0 .. chunks |->
                    IF i = 0 THEN alloc_small(s, p, numrows * POINTER)
                    ELSE alloc_large(h[i - 1], p, Least(c, numrows - (i - 1) * c) * width)]
  <2>1. t = g[chunks] BY <1>3 DEF AllocRows
  <2>2. chunks \in Nat
    <3> HIDE DEF c
    <3> QED BY <1>1, <1>3
  <2>3. IsChunkLoop(g, chunks, s, p, width, numrows)
    <3> HIDE DEF chunks
    <3>1. \E h : IsChunkLoop(h, chunks, s, p, width, numrows) BY <2>2, ChunkLoopExists
    <3> QED BY <3>1 DEF IsChunkLoop, ChunkSize
  <2> HIDE DEF g, c, chunks
  <2> DEFINE S == {k \in Nat : k <= chunks => Kept(s, g[k])}
  <2>4. 0 \in S
    <3>1. g[0] = alloc_small(s, p, numrows * POINTER) BY <2>2, <2>3 DEF IsChunkLoop
    <3>2. numrows * POINTER \in Int BY SizeTypes, ProductType
    <3> QED BY <3>1, <3>2, SmallKeeps
  <2>5. ASSUME NEW k \in S PROVE k + 1 \in S
    <3> SUFFICES ASSUME k + 1 <= chunks PROVE Kept(s, g[k + 1]) OBVIOUS
    <3>1. g[k + 1] = alloc_large(g[k], p, ChunkSize(k + 1, width, numrows))
      BY <2>2, <2>3 DEF IsChunkLoop
    <3>2. Kept(s, g[k]) BY <2>2
    <3>3. g[k] \in Managers BY <3>2 DEF Kept
    <3>4. ChunkSize(k + 1, width, numrows) \in Int BY ChunkSizeType
    <3>5. Kept(g[k], g[k + 1]) BY <3>1, <3>3, <3>4, LargeKeeps
    <3> QED BY <3>2, <3>5, KeptTwice
  <2>6. S = Nat BY <2>4, <2>5, Induction
  <2>7. Kept(s, g[chunks]) BY <2>2, <2>6
  <2>8. c >= 1 BY <1>1, <1>3
  <2> QED BY <2>1, <2>7, <2>8 DEF c
<1> QED BY <1>2, <1>3

-------------------------------------------------------------------------------
(* Realizing arrays.                                                              *)
FilesOwned(s) == s.files = {a \in DOMAIN s.arrays : s.arrays[a].b_s_open}

\* An array just realized, when as many as heights strips of it may be in memory.
Fresh(arr, heights) ==
  /\ arr.realized /\ arr.cur_start_row = 0 /\ arr.first_undef_row = 0 /\ arr.dirty = FALSE
  /\ arr.rows_in_mem = BufferRows(arr.spec, heights) /\ arr.rowsperchunk >= 1
  /\ DOMAIN arr.buffer = 0 .. arr.rows_in_mem - 1

\* s has become t by realizing some of its arrays; files may be open of others.
Realizing(s, t, heights) ==
  /\ t \in Managers /\ Len(t.arrays) = Len(s.arrays)
  /\ Balanced(s) => Balanced(t)
  /\ FilesOwned(s) => FilesOwned(t)
  /\ t.ok => s.ok
  /\ \A a \in DOMAIN s.arrays :
       /\ t.arrays[a].spec = s.arrays[a].spec
       /\ s.arrays[a].realized => t.arrays[a] = s.arrays[a]
       /\ ~ s.arrays[a].realized /\ t.arrays[a].realized => Fresh(t.arrays[a], heights)

\* Nothing realized; allocations after realizing.
LEMMA RealizingNone == \A s \in Managers : \A h : Realizing(s, s, h)
BY DEF Realizing

LEMMA RealizingKept ==
  \A s, t, u, h : Realizing(s, t, h) /\ Kept(t, u) => Realizing(s, u, h)
BY DEF Realizing, Kept, FilesOwned

\* The fields of a request and of an array.
LEMMA SpecTypes ==
  \A spec \in Arrays : /\ spec.kind \in {"s", "b"} /\ spec.pre_zero \in BOOLEAN /\ spec.width \in Nat \ {0}
                       /\ spec.rows \in Nat \ {0} /\ spec.maxaccess \in Nat \ {0}
BY ArraysAssumption

LEMMA ArrayFields ==
  ASSUME NEW arr \in ArrayRecs
  PROVE  /\ arr.spec \in Arrays /\ arr.realized \in BOOLEAN /\ arr.b_s_open \in BOOLEAN
         /\ arr.rows_in_mem \in Int /\ arr.rowsperchunk \in Int /\ arr.cur_start_row \in Int
         /\ arr.first_undef_row \in Int /\ arr.dirty \in BOOLEAN
         /\ arr.buffer \in Contents /\ arr.file \in Contents
BY DEF ArrayRecs

LEMMA ArrayAt ==
  ASSUME NEW s \in Managers, NEW a \in DOMAIN s.arrays
  PROVE  s.arrays[a] \in ArrayRecs /\ a \in 1 .. Len(s.arrays) /\ Len(s.arrays) \in Nat
BY ManagerFields

\* One array of a manager is replaced.
Replaced(s, a, arr, t) ==
  /\ t \in Managers /\ Len(t.arrays) = Len(s.arrays) /\ DOMAIN t.arrays = DOMAIN s.arrays
  /\ t.arrays[a] = arr /\ \A b \in DOMAIN s.arrays \ {a} : t.arrays[b] = s.arrays[b]
  /\ t.small = s.small /\ t.large = s.large /\ t.total = s.total /\ t.heap = s.heap /\ t.ok = s.ok

\* Replacing one array leaves the others, and the space.
LEMMA ReplacedOne ==
  \A s \in Managers, arr \in ArrayRecs : \A a \in DOMAIN s.arrays :
    /\ Replaced(s, a, arr, [s EXCEPT !.arrays[a] = arr])
    /\ [s EXCEPT !.arrays[a] = arr].files = s.files
<1> SUFFICES ASSUME NEW s \in Managers, NEW arr \in ArrayRecs, NEW a \in DOMAIN s.arrays
             PROVE  /\ Replaced(s, a, arr, [s EXCEPT !.arrays[a] = arr])
                    /\ [s EXCEPT !.arrays[a] = arr].files = s.files
  OBVIOUS
<1> DEFINE new == [s.arrays EXCEPT ![a] = arr]
           t == [s EXCEPT !.arrays = new]
<1>1. s.arrays \in Seq(ArrayRecs) BY ManagerFields
<1>2. /\ new \in Seq(ArrayRecs) /\ Len(new) = Len(s.arrays) /\ DOMAIN new = DOMAIN s.arrays
      /\ new[a] = arr /\ \A b \in DOMAIN s.arrays \ {a} : new[b] = s.arrays[b]
  BY <1>1
<1> HIDE DEF new
<1>3. /\ t \in Managers /\ t.arrays = new
      /\ t.small = s.small /\ t.large = s.large /\ t.total = s.total /\ t.heap = s.heap /\ t.ok = s.ok
      /\ t.files = s.files
  BY <1>2 DEF Managers
<1>4. t = [s EXCEPT !.arrays[a] = arr] BY DEF Managers, new
<1> HIDE DEF t
<1>5. Replaced(s, a, arr, t) BY <1>2, <1>3 DEF Replaced
<1> QED BY <1>3, <1>4, <1>5

LEMMA ReplacedBalance == \A s, t, a, arr : Replaced(s, a, arr, t) /\ Balanced(s) => Balanced(t)
BY DEF Replaced, Balanced, Held

\* A buffer is at most the array and at most the strips allowed, and holds every strip.
LEMMA BufferRowsType ==
  ASSUME NEW spec \in Arrays, NEW heights \in Nat \ {0}
  PROVE  /\ BufferRows(spec, heights) \in Nat \ {0}
         /\ BufferRows(spec, heights) <= spec.rows
         /\ BufferRows(spec, heights) <= heights * spec.maxaccess
         /\ \A n \in Nat : n <= spec.maxaccess /\ n <= spec.rows => n <= BufferRows(spec, heights)
<1> DEFINE r == spec.rows
           x == spec.maxaccess
           q == (r - 1) \div x
<1>1. r \in Nat \ {0} /\ x \in Nat \ {0} BY SpecTypes
<1> HIDE DEF r, x
<1>2. q \in Nat /\ q * x <= r - 1 /\ r - 1 < q * x + x
  <2>1. r - 1 = x * q + ((r - 1) % x) /\ q \in Int /\ (r - 1) % x \in 0 .. x - 1 BY <1>1
  <2>2. q \in Nat BY <1>1
  <2>3. x * q = q * x BY <1>1, <2>1
  <2> QED BY <1>1, <2>1, <2>2, <2>3
<1> HIDE DEF q
<1>3. InMemory(spec, heights) <=> q + 1 <= heights BY DEF InMemory, q, r, x
<1>4. CASE q + 1 <= heights
  <2>1. BufferRows(spec, heights) = r BY <1>3, <1>4 DEF BufferRows, r
  <2>2. r <= (q + 1) * x
    <3>1. (q + 1) * x = q * x + x BY <1>1, <1>2
    <3> QED BY <1>1, <1>2, <3>1, ProductType
  <2>3. (q + 1) * x <= heights * x
    <3>1. \A k \in Nat : k * x \in Nat BY <1>1
    <3>2. heights = (q + 1) + (heights - (q + 1)) /\ heights - (q + 1) \in Nat BY <1>2, <1>4
    <3>3. heights * x = (q + 1) * x + (heights - (q + 1)) * x
      <4>1. \A u, v, w \in Int : u = v + w => u * x = v * x + w * x BY <1>1
      <4> QED BY <1>2, <3>2, <4>1
    <3>4. (heights - (q + 1)) * x \in Nat BY <3>1, <3>2
    <3>5. (q + 1) * x \in Nat BY <1>2, <3>1
    <3> QED BY <3>3, <3>4, <3>5
  <2>4. (q + 1) * x \in Int /\ heights * x \in Int BY <1>1, <1>2, ProductType
  <2>5. r <= heights * x BY <1>1, <2>2, <2>3, <2>4
  <2> QED BY <1>1, <2>1, <2>5 DEF r, x
<1>5. CASE ~ (q + 1 <= heights)
  <2>1. BufferRows(spec, heights) = heights * x BY <1>3, <1>5 DEF BufferRows, x
  <2>2. heights <= q BY <1>2, <1>5
  <2>3. heights * x <= q * x
    <3>1. \A k \in Nat : k * x \in Nat BY <1>1
    <3>2. q = heights + (q - heights) /\ q - heights \in Nat BY <1>2, <2>2
    <3>3. q * x = heights * x + (q - heights) * x
      <4>1. \A u, v, w \in Int : u = v + w => u * x = v * x + w * x BY <1>1
      <4> QED BY <1>2, <3>2, <4>1
    <3>4. heights * x \in Nat /\ (q - heights) * x \in Nat BY <3>1, <3>2
    <3> QED BY <3>3, <3>4
  <2>4. x <= heights * x
    <3>1. heights * x = x + (heights - 1) * x
      <4>1. \A u, v, w \in Int : u = v + w => u * x = v * x + w * x BY <1>1
      <4>2. heights = 1 + (heights - 1) OBVIOUS
      <4>3. heights * x = 1 * x + (heights - 1) * x BY <4>1, <4>2
      <4> QED BY <1>1, <4>3
    <3>2. (heights - 1) * x \in Nat BY <1>1
    <3> QED BY <1>1, <3>1, <3>2
  <2>5. heights * x \in Int /\ q * x \in Int BY <1>1, <1>2, ProductType
  <2> HIDE DEF r
  <2>6. heights * x <= r BY <1>1, <1>2, <2>3, <2>5
  <2> QED BY <1>1, <2>1, <2>4, <2>5, <2>6 DEF r, x
<1> QED BY <1>4, <1>5

\* A buffer as malloc gives it.
LEMMA NoiseRows == \A n \in Int : [i \in 0 .. n |-> Noise] \in Contents
<1> SUFFICES ASSUME NEW n \in Int PROVE [i \in 0 .. n |-> Noise] \in Contents OBVIOUS
<1>1. (0 .. n) \in SUBSET Int OBVIOUS
<1>2. [i \in 0 .. n |-> Noise] \in [0 .. n -> Values] BY DEF Values
<1> QED BY <1>1, <1>2 DEF Contents

LEMMA WithBufferType ==
  ASSUME NEW arr \in ArrayRecs, NEW rows \in Nat \ {0}
  PROVE  WithBuffer(arr, rows) \in ArrayRecs
<1>1. RowsPerChunk(arr.spec.width, rows) \in Int BY ArrayFields, SpecTypes, RowsPerChunkType
<1>2. [i \in 0 .. rows - 1 |-> Noise] \in Contents BY NoiseRows
<1> QED BY <1>1, <1>2, ArrayFields DEF WithBuffer, ArrayRecs

Opened(old, rows, arr) ==
  /\ arr \in ArrayRecs /\ arr.b_s_open = TRUE /\ arr.rows_in_mem = rows
  /\ arr.spec = old.spec /\ arr.realized = old.realized
  /\ arr.cur_start_row = old.cur_start_row /\ arr.buffer = old.buffer
  /\ arr.first_undef_row = old.first_undef_row /\ arr.dirty = old.dirty
  /\ arr.rowsperchunk = old.rowsperchunk

\* An array after its temporary file was opened.
LEMMA OpenedArray ==
  \A old \in ArrayRecs, rows \in Int :
    Opened(old, rows, [old EXCEPT !.b_s_open = TRUE, !.rows_in_mem = rows])
BY DEF ArrayRecs, Opened

\* jpeg_open_backing_store: the file belongs to the array at once.
LEMMA OpenStep ==
  ASSUME NEW s0 \in Managers, NEW s \in Managers, NEW heights \in Nat \ {0},
         Realizing(s0, s, heights), NEW a \in DOMAIN s0.arrays, ~ s0.arrays[a].realized,
         NEW refused
  PROVE  Realizing(s0, jpeg_open_backing_store(s, a, BufferRows(s.arrays[a].spec, heights), refused),
                   heights)
<1> DEFINE rows == BufferRows(s.arrays[a].spec, heights)
           t == jpeg_open_backing_store(s, a, rows, refused)
<1>1. CASE a \in refused
  <2>1. t = Failed(s) BY <1>1 DEF jpeg_open_backing_store
  <2> QED BY <2>1, FailedKeeps, RealizingKept
<1>2. CASE a \notin refused
  <2> DEFINE arr == [s.arrays[a] EXCEPT !.b_s_open = TRUE, !.rows_in_mem = rows]
             u == [s EXCEPT !.arrays[a] = arr]
  <2>1. a \in DOMAIN s.arrays /\ DOMAIN s.arrays = DOMAIN s0.arrays
    BY ManagerFields DEF Realizing
  <2>2. s.arrays[a] \in ArrayRecs BY <2>1, ArrayAt
  <2>3. rows \in Nat \ {0} BY <2>2, ArrayFields, BufferRowsType
  <2>4. t = [s EXCEPT !.arrays[a] = arr, !.files = @ \cup {a}]
    BY <1>2 DEF jpeg_open_backing_store
  <2>5. arr \in ArrayRecs /\ arr.b_s_open = TRUE /\ arr.rows_in_mem = rows
        /\ arr.spec = s.arrays[a].spec /\ arr.realized = s.arrays[a].realized
        /\ arr.cur_start_row = s.arrays[a].cur_start_row /\ arr.buffer = s.arrays[a].buffer
        /\ arr.first_undef_row = s.arrays[a].first_undef_row /\ arr.dirty = s.arrays[a].dirty
        /\ arr.rowsperchunk = s.arrays[a].rowsperchunk
    <3> HIDE DEF rows
    <3>1. rows \in Int BY <2>3
    <3>2. Opened(s.arrays[a], rows, arr) BY <2>2, <3>1, OpenedArray, Zenon
    <3> HIDE DEF arr
    <3> QED BY <3>2 DEF Opened
  <2> HIDE DEF arr, rows, t
  <2>6. Replaced(s, a, arr, u) BY <2>1, <2>5, ReplacedOne
  <2>7. u.files = s.files BY <2>1, <2>5, ReplacedOne
  <2>8. t = [u EXCEPT !.files = s.files \cup {a}] BY <2>4 DEF Managers
  <2> HIDE DEF u
  <2>9. u \in Managers BY <2>6 DEF Replaced
  <2>10. a \in Int BY <2>1, ArrayAt
  <2>11. /\ t \in Managers /\ t.arrays = u.arrays /\ t.small = u.small /\ t.large = u.large
         /\ t.total = u.total /\ t.heap = u.heap /\ t.ok = u.ok /\ t.files = s.files \cup {a}
    BY <2>8, <2>9, <2>10, ManagerFields DEF Managers
  <2>12. Balanced(s0) => Balanced(t)
    <3>1. Balanced(s0) => Balanced(u) BY <2>6, ReplacedBalance DEF Realizing
    <3> QED BY <2>11, <3>1 DEF Balanced, Held
  <2>13. FilesOwned(s0) => FilesOwned(t)
    <3> SUFFICES ASSUME FilesOwned(s) PROVE FilesOwned(t) BY DEF Realizing
    <3>1. \A b \in DOMAIN s.arrays : t.arrays[b].b_s_open = TRUE <=> (b = a \/ s.arrays[b].b_s_open = TRUE)
      BY <2>5, <2>6, <2>11 DEF Replaced
    <3>2. \A b \in DOMAIN s.arrays : s.arrays[b].b_s_open \in BOOLEAN /\ t.arrays[b].b_s_open \in BOOLEAN
      BY <2>6, <2>11, ArrayAt, ArrayFields DEF Replaced
    <3>3. DOMAIN t.arrays = DOMAIN s.arrays BY <2>6, <2>11 DEF Replaced
    <3> QED BY <2>1, <2>11, <3>1, <3>2, <3>3 DEF FilesOwned
  <2>14. ASSUME NEW b \in DOMAIN s0.arrays
         PROVE  /\ t.arrays[b].spec = s0.arrays[b].spec
                /\ s0.arrays[b].realized => t.arrays[b] = s0.arrays[b]
                /\ ~ s0.arrays[b].realized /\ t.arrays[b].realized => Fresh(t.arrays[b], heights)
    <3>1. CASE b # a BY <2>1, <2>6, <2>11, <3>1 DEF Realizing, Replaced
    <3>2. CASE b = a
      <4>1. t.arrays[b] = arr BY <2>6, <2>11, <3>2 DEF Replaced
      <4>2. s.arrays[a].spec = s0.arrays[a].spec BY DEF Realizing
      <4>3. s.arrays[a].realized => Fresh(s.arrays[a], heights) BY DEF Realizing
      <4>4. arr.realized => Fresh(arr, heights) BY <2>5, <4>3 DEF Fresh, rows
      <4> QED BY <2>5, <3>2, <4>1, <4>2, <4>4
    <3> QED BY <3>1, <3>2
  <2>15. Len(t.arrays) = Len(s0.arrays) /\ (t.ok => s0.ok)
    BY <2>6, <2>11 DEF Realizing, Replaced
  <2>16. Realizing(s0, t, heights) BY <2>11, <2>12, <2>13, <2>14, <2>15 DEF Realizing
  <2> QED BY <2>16 DEF t, rows
<1> QED BY <1>1, <1>2

\* One array of the loop of realize_virt_arrays.
LEMMA RealizeOneStep ==
  ASSUME NEW s0 \in Managers, NEW s \in Managers, NEW heights \in Nat \ {0},
         Realizing(s0, s, heights), NEW a \in DOMAIN s0.arrays, ~ s0.arrays[a].realized,
         NEW refused
  PROVE  Realizing(s0, RealizeOne(s, a, heights, refused), heights)
<1> DEFINE spec == s.arrays[a].spec
           rows == BufferRows(spec, heights)
           opened == IF InMemory(spec, heights) THEN s ELSE jpeg_open_backing_store(s, a, rows, refused)
           t == AllocRows(opened, IMAGE, spec.width, rows)
           r == RealizeOne(s, a, heights, refused)
<1>1. r = IF ~ s.ok THEN s ELSE IF ~ t.ok THEN t ELSE [t EXCEPT !.arrays[a] = WithBuffer(@, rows)]
  BY DEF RealizeOne, alloc_sarray, alloc_barray
<1>2. a \in DOMAIN s.arrays BY ManagerFields DEF Realizing
<1>3. spec \in Arrays BY <1>2, ArrayAt, ArrayFields
<1>4. rows \in Nat \ {0} /\ spec.width \in Nat \ {0} BY <1>3, BufferRowsType, SpecTypes
<1>5. Realizing(s0, opened, heights) BY OpenStep
<1> HIDE DEF opened, r
<1>6. opened \in Managers BY <1>5 DEF Realizing
<1>7. IMAGE \in Pools BY DEF Pools
<1>8. Kept(opened, t) /\ (t.ok => RowsPerChunk(spec.width, rows) >= 1)
  BY <1>4, <1>6, <1>7, RowsKeep
<1> HIDE DEF t
<1>9. Realizing(s0, t, heights) BY <1>5, <1>8, RealizingKept
<1>10. CASE ~ s.ok \/ ~ t.ok BY <1>1, <1>9, <1>10 DEF r
<1>11. CASE s.ok /\ t.ok
  <2> DEFINE arr == WithBuffer(t.arrays[a], rows)
             u == [t EXCEPT !.arrays[a] = arr]
  <2>1. r = u BY <1>1, <1>11
  <2>2. t \in Managers BY <1>9 DEF Realizing
  <2>3. a \in DOMAIN t.arrays /\ DOMAIN t.arrays = DOMAIN s0.arrays
    BY <1>9, <2>2, ManagerFields DEF Realizing
  <2>4. t.arrays[a] \in ArrayRecs BY <2>2, <2>3, ArrayAt
  <2>5. arr \in ArrayRecs BY <1>4, <2>4, WithBufferType
  <2>6. Replaced(t, a, arr, u) /\ u.files = t.files BY <2>2, <2>3, <2>5, ReplacedOne
  <2>7. s.arrays[a].spec = s0.arrays[a].spec /\ t.arrays[a].spec = s0.arrays[a].spec
    BY <1>9 DEF Realizing
  <2>8. Fresh(arr, heights) /\ arr.spec = spec /\ arr.b_s_open = t.arrays[a].b_s_open
    <3>1. RowsPerChunk(spec.width, rows) >= 1 BY <1>8, <1>11
    <3> HIDE DEF rows
    <3>2. /\ arr.realized /\ arr.cur_start_row = 0 /\ arr.first_undef_row = 0 /\ arr.dirty = FALSE
          /\ arr.rows_in_mem = rows /\ arr.rowsperchunk = RowsPerChunk(spec.width, rows)
          /\ DOMAIN arr.buffer = 0 .. rows - 1 /\ arr.spec = spec /\ arr.b_s_open = t.arrays[a].b_s_open
      BY <2>7 DEF WithBuffer
    <3> HIDE DEF arr
    <3> QED BY <3>1, <3>2 DEF Fresh, rows
  <2> HIDE DEF arr, u
  <2>9. u \in Managers /\ Len(u.arrays) = Len(s0.arrays) /\ (u.ok => s0.ok)
    BY <1>9, <2>6 DEF Realizing, Replaced
  <2>10. Balanced(s0) => Balanced(u) BY <1>9, <2>6, ReplacedBalance DEF Realizing
  <2>11. FilesOwned(s0) => FilesOwned(u)
    <3> SUFFICES ASSUME FilesOwned(t) PROVE FilesOwned(u) BY <1>9 DEF Realizing
    <3>1. \A b \in DOMAIN t.arrays : u.arrays[b].b_s_open = t.arrays[b].b_s_open
      BY <2>6, <2>8 DEF Replaced
    <3> QED BY <2>6, <3>1 DEF FilesOwned, Replaced
  <2>12. ASSUME NEW b \in DOMAIN s0.arrays
         PROVE  /\ u.arrays[b].spec = s0.arrays[b].spec
                /\ s0.arrays[b].realized => u.arrays[b] = s0.arrays[b]
                /\ ~ s0.arrays[b].realized /\ u.arrays[b].realized => Fresh(u.arrays[b], heights)
    <3>1. CASE b # a BY <1>9, <2>3, <2>6, <3>1 DEF Realizing, Replaced
    <3>2. CASE b = a BY <2>6, <2>7, <2>8, <3>2 DEF Replaced
    <3> QED BY <3>1, <3>2
  <2>13. Realizing(s0, u, heights) BY <2>9, <2>10, <2>11, <2>12 DEF Realizing
  <2> QED BY <2>1, <2>13 DEF r
<1>12. s.ok \in BOOLEAN /\ t.ok \in BOOLEAN BY <1>9, ManagerFields DEF Realizing
<1> QED BY <1>10, <1>11, <1>12

\* The loop over one of the lists.
ListNext(t, i, s, kind, heights, refused) ==
  IF s.arrays[Len(s.arrays) + 1 - i].spec.kind = kind /\ ~ s.arrays[Len(s.arrays) + 1 - i].realized
  THEN RealizeOne(t, Len(s.arrays) + 1 - i, heights, refused) ELSE t
IsListLoop(g, k, s, kind, heights, refused) ==
  g = [i \in 0 .. k |-> IF i = 0 THEN s ELSE ListNext(g[i - 1], i, s, kind, heights, refused)]

\* The loop over a list of arrays.
LEMMA ListLoopExists ==
  ASSUME NEW n \in Nat, NEW s, NEW kind, NEW heights, NEW refused
  PROVE  \E g : IsListLoop(g, n, s, kind, heights, refused)
<1> DEFINE S == {k \in Nat : \E g : IsListLoop(g, k, s, kind, heights, refused)}
<1>1. 0 \in S
  <2> DEFINE g == [i \in 0 .. 0 |-> s]
  <2>1. IsListLoop(g, 0, s, kind, heights, refused) BY DEF IsListLoop
  <2> QED BY <2>1
<1>2. ASSUME NEW k \in S PROVE k + 1 \in S
  <2>1. PICK g : IsListLoop(g, k, s, kind, heights, refused) OBVIOUS
  <2> DEFINE h == [i \in 0 .. k + 1 |-> IF i <= k THEN g[i]
                                        ELSE ListNext(g[k], k + 1, s, kind, heights, refused)]
  <2>2. \A i \in 0 .. k + 1 : h[i] = IF i = 0 THEN s ELSE ListNext(h[i - 1], i, s, kind, heights, refused)
    BY <2>1 DEF IsListLoop
  <2>3. IsListLoop(h, k + 1, s, kind, heights, refused) BY <2>2 DEF IsListLoop
  <2> QED BY <2>3
<1>3. S = Nat BY <1>1, <1>2, Induction
<1> QED BY <1>3

\* RealizeList.
LEMMA ListStep ==
  ASSUME NEW s0 \in Managers, NEW s \in Managers, NEW heights \in Nat \ {0},
         Realizing(s0, s, heights), \A a \in DOMAIN s0.arrays : s0.arrays[a].realized => s.arrays[a].realized,
         NEW kind, NEW refused
  PROVE  Realizing(s0, RealizeList(s, kind, heights, refused), heights)
<1> DEFINE n == Len(s.arrays)
           t == RealizeList(s, kind, heights, refused)
           g == CHOOSE after : after = [i \in 0 .. n |->
                  IF i = 0 THEN s
                  ELSE IF s.arrays[n + 1 - i].spec.kind = kind /\ ~ s.arrays[n + 1 - i].realized
                  THEN RealizeOne(after[i - 1], n + 1 - i, heights, refused)
                  ELSE after[i - 1]]
<1>1. n \in Nat /\ n = Len(s0.arrays) /\ DOMAIN s0.arrays = 1 .. n
  BY ManagerFields DEF Realizing
<1>2. t = g[n] BY DEF RealizeList
<1>3. IsListLoop(g, n, s, kind, heights, refused)
  <2>1. \E h : IsListLoop(h, n, s, kind, heights, refused) BY <1>1, ListLoopExists
  <2> QED BY <2>1 DEF IsListLoop, ListNext
<1> HIDE DEF g, t
<1> DEFINE S == {k \in Nat : k <= n => Realizing(s0, g[k], heights)}
<1>4. 0 \in S
  <2>1. g[0] = s BY <1>1, <1>3 DEF IsListLoop
  <2> QED BY <2>1
<1>5. ASSUME NEW k \in S PROVE k + 1 \in S
  <2> SUFFICES ASSUME k + 1 <= n PROVE Realizing(s0, g[k + 1], heights) OBVIOUS
  <2> DEFINE a == n + 1 - (k + 1)
  <2>1. Realizing(s0, g[k], heights) BY <1>1
  <2>2. g[k] \in Managers BY <2>1 DEF Realizing
  <2>3. a \in DOMAIN s0.arrays BY <1>1
  <2>4. g[k + 1] = IF s.arrays[a].spec.kind = kind /\ ~ s.arrays[a].realized
                   THEN RealizeOne(g[k], a, heights, refused) ELSE g[k]
    <3>1. k + 1 \in 0 .. n /\ k + 1 # 0 /\ (k + 1) - 1 = k BY <1>1
    <3>2. g[k + 1] = ListNext(g[k], k + 1, s, kind, heights, refused) BY <1>3, <3>1 DEF IsListLoop
    <3> QED BY <3>2 DEF ListNext
  <2> HIDE DEF a
  <2>5. CASE s.arrays[a].realized BY <2>1, <2>4, <2>5
  <2>6. CASE ~ s.arrays[a].realized
    <3>1. ~ s0.arrays[a].realized BY <2>3, <2>6
    <3>2. Realizing(s0, RealizeOne(g[k], a, heights, refused), heights)
      BY <2>1, <2>2, <2>3, <3>1, RealizeOneStep
    <3> QED BY <2>1, <2>4, <3>2
  <2> QED BY <2>5, <2>6
<1> HIDE DEF n
<1>6. S = Nat BY <1>4, <1>5, Induction
<1>7. Realizing(s0, g[n], heights) BY <1>1, <1>6
<1> QED BY <1>2, <1>7 DEF t

\* Types of the space the arrays need, and of max_minheights.
LEMMA TermTypes ==
  ASSUME NEW s \in Managers, NEW a \in 1 .. Len(s.arrays)
  PROVE  /\ a \in DOMAIN s.arrays
         /\ s.arrays[a].spec.maxaccess * Width(s, a) \in Nat /\ s.arrays[a].spec.rows * Width(s, a) \in Nat
         /\ Width(s, a) \in Nat \ {0}
<1>1. a \in DOMAIN s.arrays BY ManagerFields
<1>2. s.arrays[a].spec \in Arrays BY <1>1, ArrayAt, ArrayFields
<1>3. \A x, y \in Nat : x * y \in Nat OBVIOUS
<1> QED BY <1>1, <1>2, <1>3, SpecTypes DEF Width

LEMMA SpaceTypes ==
  ASSUME NEW s \in Managers
  PROVE  /\ space_per_minheight(s) \in Nat /\ maximum_space(s) \in Nat /\ jpeg_mem_available(s) \in Int
         /\ Len(s.arrays) \in Nat /\ DOMAIN s.arrays = 1 .. Len(s.arrays)
<1>1. Len(s.arrays) \in Nat /\ DOMAIN s.arrays = 1 .. Len(s.arrays) BY ManagerFields
<1>2. jpeg_mem_available(s) \in Int BY ManagerFields, SizesAssumption DEF jpeg_mem_available
<1>3. ASSUME NEW f, \A a \in 1 .. Len(s.arrays) : f[a] \in Nat
      PROVE  OfUnrealized(s, f) \in Nat
  <2> DEFINE g == [a \in DOMAIN s.arrays |-> IF s.arrays[a].realized THEN 0 ELSE f[a]]
  <2>1. \A a \in 1 .. Len(s.arrays) : g[a] \in Nat BY <1>1, <1>3
  <2> HIDE DEF g
  <2>2. SumTo(g, Len(s.arrays)) \in Nat BY <1>1, <2>1, SumNatural
  <2> QED BY <2>2 DEF OfUnrealized, g
<1>4. space_per_minheight(s) \in Nat
  <2> DEFINE f == [a \in DOMAIN s.arrays |-> s.arrays[a].spec.maxaccess * Width(s, a)]
  <2>1. \A a \in 1 .. Len(s.arrays) : f[a] \in Nat BY <1>1, TermTypes
  <2> HIDE DEF f
  <2> QED BY <1>3, <2>1 DEF f, space_per_minheight
<1>5. maximum_space(s) \in Nat
  <2> DEFINE f == [a \in DOMAIN s.arrays |-> s.arrays[a].spec.rows * Width(s, a)]
  <2>1. \A a \in 1 .. Len(s.arrays) : f[a] \in Nat BY <1>1, TermTypes
  <2> HIDE DEF f
  <2> QED BY <1>3, <2>1 DEF f, maximum_space
<1> QED BY <1>1, <1>2, <1>4, <1>5

LEMMA HeightsType ==
  ASSUME NEW s \in Managers, space_per_minheight(s) > 0
  PROVE  max_minheights(s) \in Nat \ {0}
<1> DEFINE avail == jpeg_mem_available(s)
           least == space_per_minheight(s)
<1>1. avail \in Int /\ least \in Nat \ {0} BY SpaceTypes
<1>2. CASE avail >= maximum_space(s) BY <1>2 DEF max_minheights
<1>3. CASE ~ (avail >= maximum_space(s)) /\ avail < least BY <1>3 DEF max_minheights
<1>4. CASE ~ (avail >= maximum_space(s)) /\ ~ (avail < least)
  <2>1. max_minheights(s) = avail \div least BY <1>4 DEF max_minheights
  <2> HIDE DEF avail, least
  <2> QED BY <1>1, <1>4, <2>1
<1> QED BY <1>2, <1>3, <1>4

\* realize_virt_arrays.
LEMMA RealizeStep ==
  ASSUME NEW s \in Managers, NEW refused
  PROVE  Realizing(s, realize_virt_arrays(s, refused), max_minheights(s))
<1> DEFINE heights == max_minheights(s)
           t == RealizeList(s, "s", heights, refused)
           u == RealizeList(t, "b", heights, refused)
<1>1. CASE space_per_minheight(s) <= 0
  BY <1>1, RealizingNone DEF realize_virt_arrays
<1>2. CASE ~ (space_per_minheight(s) <= 0)
  <2>1. realize_virt_arrays(s, refused) = u BY <1>2 DEF realize_virt_arrays
  <2>2. heights \in Nat \ {0} BY <1>2, SpaceTypes, HeightsType
  <2> HIDE DEF heights
  <2>3. Realizing(s, t, heights) BY <2>2, RealizingNone, ListStep
  <2> HIDE DEF t
  <2>4. t \in Managers /\ \A a \in DOMAIN s.arrays : s.arrays[a].realized => t.arrays[a].realized
    BY <2>3 DEF Realizing
  <2>5. Realizing(s, u, heights) BY <2>2, <2>3, <2>4, ListStep
  <2> QED BY <2>1, <2>5 DEF heights
<1> QED BY <1>1, <1>2

-------------------------------------------------------------------------------
(* The rows of an array.                                                          *)
\* The strip buffer is long enough for any strip a caller may ask for.
WindowOK(arr) ==
  /\ arr.rows_in_mem >= 1 /\ arr.rowsperchunk >= 1 /\ arr.cur_start_row >= 0
  /\ arr.first_undef_row \in 0 .. arr.spec.rows
  /\ DOMAIN arr.buffer = 0 .. arr.rows_in_mem - 1
  /\ \A n \in Nat : n <= arr.spec.maxaccess /\ n <= arr.spec.rows => n <= arr.rows_in_mem

\* Every row defined is in memory or in the file, and what the file has of the rows in
\* memory is up to date unless the buffer is dirty.
RowsKept(arr) ==
  \A r \in 0 .. arr.first_undef_row - 1 :
    /\ InBuffer(arr, r) \/ r \in DOMAIN arr.file
    /\ InBuffer(arr, r) /\ ~ arr.dirty =>
         r \in DOMAIN arr.file /\ arr.file[r] = arr.buffer[r - arr.cur_start_row]

RowsZeroed(arr) ==
  arr.spec.pre_zero => \A r \in 0 .. arr.first_undef_row - 1 : RowOf(arr, r) \in Data \cup {Zero}

ArrayOK(arr) == arr.realized => WindowOK(arr) /\ RowsKept(arr) /\ RowsZeroed(arr)

\* What is in buffers and files.
LEMMA ContentsFact ==
  /\ \A c \in Contents : DOMAIN c \in SUBSET Int /\ \A i \in DOMAIN c : c[i] \in Values
  /\ \A D \in SUBSET Int : \A c \in [D -> Values] : c \in Contents
BY DEF Contents

\* What a transfer moves: the rows of the window that are defined.
LEMMA TransferredRows ==
  ASSUME NEW arr \in ArrayRecs, WindowOK(arr)
  PROVE  \A i : i \in Transferred(arr) <=>
                  i \in 0 .. arr.rows_in_mem - 1 /\ arr.cur_start_row + i < arr.first_undef_row
<1> DEFINE c == arr.rowsperchunk
           k == arr.rows_in_mem
           w == arr.cur_start_row
           n == arr.first_undef_row
           rows == arr.spec.rows
<1>1. c \in Nat \ {0} /\ k \in Int /\ w \in Int /\ n \in Int /\ rows \in Int /\ n <= rows
  BY ArrayFields, SpecTypes DEF WindowOK
<1>2. DOMAIN arr.buffer = 0 .. k - 1 BY DEF WindowOK
<1>3. ASSUME NEW i \in 0 .. k - 1
      PROVE  i \in Transferred(arr) <=> w + i < n
  <2> DEFINE base == (i \div c) * c
  <2>1. i \in Transferred(arr) <=>
          \A v \in {c, k - base, n - (w + base), rows - (w + base)} : i - base < v
    BY <1>2 DEF Transferred
  <2> HIDE DEF c, k, w, n, rows
  <2>2. base \in Int /\ i - base < c
    <3>1. i = c * (i \div c) + (i % c) /\ i \div c \in Int /\ i % c \in 0 .. c - 1 BY <1>1
    <3>2. c * (i \div c) = base BY <1>1, <3>1
    <3>3. base \in Int BY <1>1, <3>1, ProductType
    <3> HIDE DEF base
    <3> QED BY <1>1, <3>1, <3>2, <3>3
  <2> HIDE DEF base
  <2>3. i - base < k - base BY <1>1, <2>2
  <2>4. i - base < n - (w + base) <=> w + i < n BY <1>1, <2>2
  <2>5. w + i < n => i - base < rows - (w + base) BY <1>1, <2>2
  <2> QED BY <2>1, <2>2, <2>3, <2>4, <2>5
<1>4. \A i \in Transferred(arr) : i \in 0 .. k - 1 BY <1>2 DEF Transferred
<1> QED BY <1>3, <1>4

\* The same array, with other rows in memory and in the file.
Same(arr, new) ==
  /\ new \in ArrayRecs /\ new.spec = arr.spec /\ new.realized = arr.realized
  /\ new.b_s_open = arr.b_s_open /\ new.rows_in_mem = arr.rows_in_mem
  /\ new.rowsperchunk = arr.rowsperchunk /\ new.first_undef_row = arr.first_undef_row

\* do_sarray_io, do_barray_io when a dirty buffer is written out: the file has every row.
LEMMA FlushStep ==
  ASSUME NEW arr \in ArrayRecs, WindowOK(arr), RowsKept(arr)
  PROVE  /\ Same(arr, Flushed(arr)) /\ ~ Flushed(arr).dirty
         /\ Flushed(arr).buffer = arr.buffer /\ Flushed(arr).cur_start_row = arr.cur_start_row
         /\ \A r \in 0 .. arr.first_undef_row - 1 :
              r \in DOMAIN Flushed(arr).file /\ Flushed(arr).file[r] = RowOf(arr, r)
<1>1. CASE ~ arr.dirty
  <2>1. Flushed(arr) = arr BY <1>1 DEF Flushed
  <2> QED BY <1>1, <2>1 DEF Same, RowsKept, RowOf
<1>2. CASE arr.dirty
  <2> DEFINE rows == {arr.cur_start_row + i : i \in Transferred(arr)}
             file == [r \in DOMAIN arr.file \cup rows |->
                        IF r \in rows THEN arr.buffer[r - arr.cur_start_row] ELSE arr.file[r]]
             new == [arr EXCEPT !.dirty = FALSE, !.file = file]
  <2>1. Flushed(arr) = new BY <1>2 DEF Flushed, do_sarray_io, WriteOut
  <2>2. \A r \in Int : r \in rows <=> InBuffer(arr, r) /\ r < arr.first_undef_row
    <3>1. arr.cur_start_row \in Int BY ArrayFields
    <3>2. DOMAIN arr.buffer = 0 .. arr.rows_in_mem - 1 BY DEF WindowOK
    <3>3. \A r \in Int : arr.cur_start_row + (r - arr.cur_start_row) = r BY <3>1
    <3>4. ASSUME NEW r \in Int, r \in rows PROVE InBuffer(arr, r) /\ r < arr.first_undef_row
      <4>1. PICK i \in Transferred(arr) : r = arr.cur_start_row + i BY <3>4
      <4>2. i \in 0 .. arr.rows_in_mem - 1 /\ arr.cur_start_row + i < arr.first_undef_row
        BY TransferredRows
      <4>3. r - arr.cur_start_row = i BY <3>1, <4>1, <4>2
      <4> QED BY <3>2, <4>1, <4>2, <4>3 DEF InBuffer
    <3>5. ASSUME NEW r \in Int, InBuffer(arr, r), r < arr.first_undef_row PROVE r \in rows
      <4>1. r - arr.cur_start_row \in 0 .. arr.rows_in_mem - 1 BY <3>2, <3>5 DEF InBuffer
      <4>2. r - arr.cur_start_row \in Transferred(arr) BY <3>3, <3>5, <4>1, TransferredRows
      <4> QED BY <3>3, <4>2
    <3> QED BY <3>4, <3>5
  <2>3. rows \subseteq Int /\ \A r \in rows : r - arr.cur_start_row \in DOMAIN arr.buffer
    <3>1. rows \subseteq Int BY ArrayFields, TransferredRows
    <3> HIDE DEF rows
    <3> QED BY <2>2, <3>1 DEF InBuffer
  <2> HIDE DEF rows
  <2>4. file \in Contents
    <3>1. DOMAIN arr.file \in SUBSET Int /\ \A r \in DOMAIN arr.file : arr.file[r] \in Values
      BY ArrayFields, ContentsFact
    <3>2. \A i \in DOMAIN arr.buffer : arr.buffer[i] \in Values BY ArrayFields, ContentsFact
    <3>3. file \in [DOMAIN arr.file \cup rows -> Values] BY <2>3, <3>1, <3>2
    <3>4. (DOMAIN arr.file \cup rows) \in SUBSET Int BY <2>3, <3>1
    <3> HIDE DEF file
    <3> QED BY <3>3, <3>4, ContentsFact
  <2>5. ASSUME NEW r \in 0 .. arr.first_undef_row - 1
        PROVE  r \in DOMAIN file /\ file[r] = RowOf(arr, r)
    <3>1. arr.first_undef_row \in Int BY ArrayFields
    <3>2. r \in rows <=> InBuffer(arr, r) BY <2>2, <3>1
    <3>3. InBuffer(arr, r) \/ r \in DOMAIN arr.file BY DEF RowsKept
    <3> QED BY <3>2, <3>3 DEF RowOf
  <2> HIDE DEF file
  <2>6. Same(arr, new) /\ new.dirty = FALSE /\ new.buffer = arr.buffer
        /\ new.cur_start_row = arr.cur_start_row /\ new.file = file
    BY <2>4 DEF ArrayRecs, Same
  <2> HIDE DEF new
  <2> QED BY <2>1, <2>5, <2>6
<1> QED BY <1>1, <1>2, ArrayFields

\* What the window has become: it shows the strip, and no row defined has changed.
Placed(arr, new, start_row, end_row) ==
  /\ Same(arr, new) /\ ArrayOK(new)
  /\ new.cur_start_row <= start_row /\ end_row <= new.cur_start_row + new.rows_in_mem
  /\ \A r \in 0 .. arr.first_undef_row - 1 : RowOf(new, r) = RowOf(arr, r)

\* A strip a caller may ask for.
Strip(arr, start_row, end_row) ==
  /\ start_row \in Nat /\ end_row \in Nat /\ start_row < end_row
  /\ end_row <= arr.spec.rows /\ end_row - start_row <= arr.spec.maxaccess

MovedTo(arr, start_row, end_row) ==
  IF start_row > arr.cur_start_row THEN start_row
  ELSE IF end_row < arr.rows_in_mem THEN 0 ELSE end_row - arr.rows_in_mem

\* Wherever the window is moved to, the strip is in it.
LEMMA WindowMoved ==
  ASSUME NEW arr \in ArrayRecs, WindowOK(arr), NEW start_row, NEW end_row,
         Strip(arr, start_row, end_row), Outside(arr, start_row, end_row)
  PROVE  LET w == MovedTo(arr, start_row, end_row)
         IN w \in Nat /\ w <= start_row /\ end_row <= w + arr.rows_in_mem
<1> DEFINE k == arr.rows_in_mem
           c == arr.cur_start_row
           a == start_row
           b == end_row
<1>1. k \in Int /\ c \in Int /\ a \in Nat /\ b \in Nat /\ a < b /\ k >= 1 /\ c >= 0
  BY ArrayFields DEF WindowOK, Strip
<1>2. arr.spec.rows \in Nat \ {0} /\ arr.spec.maxaccess \in Nat \ {0} BY ArrayFields, SpecTypes
<1>3. b - a \in Nat /\ b - a <= arr.spec.maxaccess /\ b - a <= arr.spec.rows
  BY <1>1, <1>2 DEF Strip
<1>4. b - a <= k BY <1>3 DEF WindowOK
<1>5. a < c \/ b > c + k BY DEF Outside
<1> HIDE DEF k, c, a, b
<1>6. LET w == IF a > c THEN a ELSE IF b < k THEN 0 ELSE b - k
      IN w \in Nat /\ w <= a /\ b <= w + k
  BY <1>1, <1>4, <1>5
<1> QED BY <1>6 DEF k, c, a, b, MovedTo

\* access_virt_sarray, access_virt_barray up to the strip being in the window.
LEMMA PositionStep ==
  ASSUME NEW arr \in ArrayRecs, arr.realized, ArrayOK(arr), NEW start_row, NEW end_row,
         Strip(arr, start_row, end_row)
  PROVE  /\ Placed(arr, Positioned(arr, start_row, end_row), start_row, end_row)
         /\ Outside(arr, start_row, end_row) => ReadPossible(Moved(arr, start_row, end_row))
<1>1. WindowOK(arr) /\ RowsKept(arr) /\ RowsZeroed(arr) BY DEF ArrayOK
<1>2. CASE ~ Outside(arr, start_row, end_row)
  <2>1. Positioned(arr, start_row, end_row) = arr BY <1>2 DEF Positioned
  <2>2. start_row \in Int /\ end_row \in Int /\ arr.cur_start_row \in Int /\ arr.rows_in_mem \in Int
    BY ArrayFields DEF Strip
  <2>3. arr.cur_start_row <= start_row /\ end_row <= arr.cur_start_row + arr.rows_in_mem
    BY <1>2, <2>2 DEF Outside
  <2> QED BY <1>2, <2>1, <2>3 DEF Placed, Same
<1>3. CASE Outside(arr, start_row, end_row)
  <2> DEFINE w == MovedTo(arr, start_row, end_row)
             fl == Flushed(arr)
             mv == Moved(arr, start_row, end_row)
             n == arr.first_undef_row
             k == arr.rows_in_mem
  <2>1. w \in Nat /\ w <= start_row /\ end_row <= w + k BY <1>1, <1>3, WindowMoved
  <2>2. /\ Same(arr, fl) /\ ~ fl.dirty /\ fl.buffer = arr.buffer
        /\ \A r \in 0 .. n - 1 : r \in DOMAIN fl.file /\ fl.file[r] = RowOf(arr, r)
    BY <1>1, FlushStep
  <2>3. mv = [fl EXCEPT !.cur_start_row = w] BY DEF Moved, MovedTo
  <2>4. n \in Int /\ k \in Int BY ArrayFields
  <2> HIDE DEF fl, mv, w
  <2>5. /\ Same(arr, mv) /\ ~ mv.dirty /\ mv.buffer = arr.buffer /\ mv.cur_start_row = w
        /\ mv.file = fl.file
    <3>1. fl \in ArrayRecs /\ w \in Int BY <2>1, <2>2 DEF Same
    <3>2. Same(fl, mv) /\ mv.dirty = fl.dirty /\ mv.buffer = fl.buffer /\ mv.cur_start_row = w
          /\ mv.file = fl.file
      BY <2>3, <3>1 DEF Same, ArrayRecs
    <3> QED BY <2>2, <3>2 DEF Same
  <2>6. mv \in ArrayRecs /\ WindowOK(mv)
    BY <1>1, <2>1, <2>5 DEF Same, WindowOK
  <2>7. \A i : i \in Transferred(mv) <=> i \in 0 .. k - 1 /\ w + i < n
    BY <2>5, <2>6, TransferredRows DEF Same
  <2>8. \A i \in Transferred(mv) : w + i \in 0 .. n - 1 BY <2>1, <2>4, <2>7
  <2>9. ReadPossible(mv) BY <2>2, <2>5, <2>8 DEF ReadPossible
  <2> DEFINE buffer == [i \in DOMAIN mv.buffer |->
                          IF i \in Transferred(mv) THEN mv.file[w + i] ELSE mv.buffer[i]]
             new == [mv EXCEPT !.buffer = buffer]
  <2>10. Positioned(arr, start_row, end_row) = new
    BY <1>3, <2>5 DEF Positioned, do_sarray_io, ReadIn, mv
  <2>11. buffer \in Contents /\ DOMAIN buffer = 0 .. k - 1
    <3>1. DOMAIN mv.buffer = 0 .. k - 1 BY <1>1, <2>5 DEF WindowOK
    <3>2. (0 .. k - 1) \in SUBSET Int BY <2>4
    <3>3. \A i \in Transferred(mv) : mv.file[w + i] \in Values
      <4>1. \A r \in DOMAIN mv.file : mv.file[r] \in Values BY <2>6, ArrayFields, ContentsFact
      <4> QED BY <2>2, <2>5, <2>8, <4>1
    <3>4. \A i \in DOMAIN mv.buffer : mv.buffer[i] \in Values BY <2>6, ArrayFields, ContentsFact
    <3>5. buffer \in [0 .. k - 1 -> Values] BY <3>1, <3>3, <3>4
    <3> HIDE DEF buffer
    <3> QED BY <3>2, <3>5, ContentsFact
  <2>12. ASSUME NEW r \in 0 .. n - 1, r - w \in 0 .. k - 1
         PROVE  buffer[r - w] = fl.file[r]
    <3>1. w + (r - w) = r BY <2>1, <2>4
    <3>2. r < n BY <2>4
    <3>3. r - w \in Transferred(mv) BY <2>7, <2>12, <3>1, <3>2
    <3>4. r - w \in DOMAIN mv.buffer BY <1>1, <2>5, <2>12 DEF WindowOK
    <3> QED BY <2>5, <3>1, <3>3, <3>4
  <2> HIDE DEF buffer
  <2>13. /\ Same(mv, new) /\ new.dirty = mv.dirty /\ new.buffer = buffer /\ new.cur_start_row = w
         /\ new.file = fl.file
    BY <2>5, <2>6, <2>11 DEF Same, ArrayRecs
  <2> HIDE DEF new
  <2>14. Same(arr, new) BY <2>5, <2>13 DEF Same
  <2>15. \A r \in 0 .. n - 1 : InBuffer(new, r) => new.buffer[r - w] = new.file[r]
    BY <2>11, <2>12, <2>13 DEF InBuffer
  <2>16. \A r \in 0 .. n - 1 : RowOf(new, r) = RowOf(arr, r)
    BY <2>2, <2>13, <2>15 DEF RowOf
  <2>17. WindowOK(new) BY <1>1, <2>1, <2>11, <2>13, <2>14 DEF WindowOK, Same
  <2>18. RowsKept(new) BY <2>2, <2>13, <2>14, <2>15 DEF RowsKept, Same
  <2>19. RowsZeroed(new) BY <1>1, <2>14, <2>16 DEF RowsZeroed, Same
  <2>20. new.rows_in_mem = k BY <2>14 DEF Same
  <2>21. Placed(arr, new, start_row, end_row)
    BY <2>1, <2>13, <2>14, <2>16, <2>17, <2>18, <2>19, <2>20 DEF Placed, ArrayOK
  <2> QED BY <2>9, <2>10, <2>21 DEF mv
<1> QED BY <1>2, <1>3

\* What an access makes of the window: the strip is defined if it is for writing, and
\* shows zeros where it was not if the array asked for that.
Shown(arr, new, start_row, end_row, writable) ==
  /\ new \in ArrayRecs /\ new.spec = arr.spec /\ new.realized = arr.realized
  /\ new.b_s_open = arr.b_s_open /\ ArrayOK(new)
  /\ new.first_undef_row = IF writable /\ arr.first_undef_row < end_row THEN end_row ELSE arr.first_undef_row
  /\ writable => new.dirty = TRUE /\ start_row <= arr.first_undef_row
  /\ new.cur_start_row <= start_row /\ end_row <= new.cur_start_row + new.rows_in_mem
  /\ \A r \in 0 .. arr.first_undef_row - 1 : RowOf(new, r) = RowOf(arr, r)
  /\ \A r \in start_row .. end_row - 1 :
       /\ r >= arr.first_undef_row /\ arr.spec.pre_zero => RowOf(new, r) = Zero
       /\ r >= arr.first_undef_row /\ ~ writable => RowOf(new, r) = Zero

\* The last part of access_virt: what was defined stays, what is new is zeroed.
LEMMA DefineStep ==
  ASSUME NEW arr \in ArrayRecs, arr.realized, ArrayOK(arr), NEW start_row, NEW end_row,
         Strip(arr, start_row, end_row), NEW writable \in BOOLEAN,
         ~ BadAccess(arr, start_row, end_row, writable),
         arr.cur_start_row <= start_row, end_row <= arr.cur_start_row + arr.rows_in_mem
  PROVE  Shown(arr, Defined(arr, start_row, end_row, writable), start_row, end_row, writable)
<1> DEFINE n == arr.first_undef_row
           w == arr.cur_start_row
           k == arr.rows_in_mem
           undef_row == IF n < start_row THEN start_row ELSE n
           zeroed == IF arr.spec.pre_zero THEN {r - w : r \in undef_row .. end_row - 1} ELSE {}
           first == IF writable /\ n < end_row THEN end_row ELSE n
           buffer == [i \in DOMAIN arr.buffer |-> IF i \in zeroed THEN Zero ELSE arr.buffer[i]]
           dirty == IF writable THEN TRUE ELSE arr.dirty
           new == [arr EXCEPT !.first_undef_row = first, !.buffer = buffer, !.dirty = dirty]
<1>1. WindowOK(arr) /\ RowsKept(arr) /\ RowsZeroed(arr) BY DEF ArrayOK
<1>2. /\ n \in Nat /\ w \in Nat /\ k \in Int /\ start_row \in Nat /\ end_row \in Nat
      /\ start_row < end_row /\ end_row <= arr.spec.rows /\ arr.spec.rows \in Nat
      /\ n <= arr.spec.rows /\ arr.spec.pre_zero \in BOOLEAN /\ arr.dirty \in BOOLEAN
  BY <1>1, ArrayFields, SpecTypes DEF WindowOK, Strip
<1>3. Defined(arr, start_row, end_row, writable) = new BY DEF Defined
<1>4. DOMAIN arr.buffer = 0 .. k - 1 BY <1>1 DEF WindowOK
<1>5. n < end_row => IF writable THEN ~ (n < start_row) ELSE arr.spec.pre_zero BY DEF BadAccess
<1>6. \A r \in Int : r - w \in zeroed <=> arr.spec.pre_zero /\ r >= n /\ r >= start_row /\ r < end_row
  <2>1. undef_row \in Int BY <1>2
  <2>2. \A r \in Int : r \in undef_row .. end_row - 1 <=> r >= n /\ r >= start_row /\ r < end_row
    BY <1>2
  <2> HIDE DEF undef_row
  <2>3. \A r, q \in Int : r - w = q - w => r = q BY <1>2
  <2>4. \A r \in Int : r - w \in {q - w : q \in undef_row .. end_row - 1} <=> r \in undef_row .. end_row - 1
    BY <1>2, <2>1, <2>3
  <2> HIDE DEF n, w
  <2> QED BY <1>2, <2>2, <2>4
<1>7. buffer \in Contents /\ DOMAIN buffer = 0 .. k - 1
  <2>1. \A i \in DOMAIN arr.buffer : arr.buffer[i] \in Values BY ArrayFields, ContentsFact
  <2>2. Zero \in Values BY DEF Values
  <2> HIDE DEF zeroed
  <2>3. buffer \in [0 .. k - 1 -> Values] BY <1>4, <2>1, <2>2
  <2>4. (0 .. k - 1) \in SUBSET Int BY <1>2
  <2> HIDE DEF buffer
  <2> QED BY <2>3, <2>4, ContentsFact
<1>8. first \in Nat /\ first <= arr.spec.rows /\ first >= n BY <1>2
<1>9. dirty \in BOOLEAN BY <1>2
<1>10. \A r \in Int : r - w \in 0 .. k - 1 =>
        buffer[r - w] = IF arr.spec.pre_zero /\ r >= n /\ r >= start_row /\ r < end_row
                        THEN Zero ELSE arr.buffer[r - w]
  <2> HIDE DEF zeroed
  <2> QED BY <1>4, <1>6
<1> HIDE DEF buffer, zeroed, first, dirty
<1>11. /\ new \in ArrayRecs /\ new.spec = arr.spec /\ new.realized = arr.realized
       /\ new.b_s_open = arr.b_s_open /\ new.rows_in_mem = k /\ new.cur_start_row = w
       /\ new.rowsperchunk = arr.rowsperchunk /\ new.first_undef_row = first
       /\ new.buffer = buffer /\ new.file = arr.file /\ new.dirty = dirty
  <2>1. first \in Int BY <1>8
  <2>2. new \in ArrayRecs
    <3>1. CASE dirty = TRUE BY <1>7, <2>1, <3>1 DEF ArrayRecs
    <3>2. CASE dirty = FALSE BY <1>7, <2>1, <3>2 DEF ArrayRecs
    <3> QED BY <1>9, <3>1, <3>2
  <2>3. new.dirty = dirty BY <1>9 DEF ArrayRecs
  <2>4. new.spec = arr.spec BY DEF ArrayRecs
  <2>5. new.realized = arr.realized BY DEF ArrayRecs
  <2>6. new.b_s_open = arr.b_s_open BY DEF ArrayRecs
  <2>7. new.rows_in_mem = k /\ new.cur_start_row = w /\ new.rowsperchunk = arr.rowsperchunk
    BY DEF ArrayRecs
  <2>8. new.first_undef_row = first /\ new.buffer = buffer /\ new.file = arr.file BY DEF ArrayRecs
  <2> QED BY <2>2, <2>3, <2>4, <2>5, <2>6, <2>7, <2>8
<1> HIDE DEF new
<1>12. ASSUME NEW r \in Int
       PROVE  RowOf(new, r) = IF r - w \in 0 .. k - 1 /\ arr.spec.pre_zero /\ r >= n /\ r >= start_row /\ r < end_row
                              THEN Zero ELSE RowOf(arr, r)
  <2>1. InBuffer(new, r) <=> r - w \in 0 .. k - 1 BY <1>7, <1>11 DEF InBuffer
  <2>2. InBuffer(arr, r) <=> r - w \in 0 .. k - 1 BY <1>4 DEF InBuffer
  <2>3. CASE r - w \in 0 .. k - 1
    <3>1. RowOf(new, r) = buffer[r - w] BY <1>11, <2>1, <2>3 DEF RowOf
    <3>2. RowOf(arr, r) = arr.buffer[r - w] BY <2>2, <2>3 DEF RowOf
    <3> HIDE DEF n, w, k
    <3> QED BY <1>10, <2>3, <3>1, <3>2
  <2>4. CASE ~ (r - w \in 0 .. k - 1)
    <3>1. RowOf(new, r) = RowOf(arr, r) BY <1>11, <2>1, <2>2, <2>4 DEF RowOf
    <3> QED BY <2>4, <3>1
  <2> QED BY <2>3, <2>4
<1>13. \A r \in 0 .. n - 1 : RowOf(new, r) = RowOf(arr, r)
  <2> HIDE DEF w, k
  <2> QED BY <1>2, <1>12
<1>14. \A r \in start_row .. end_row - 1 : r \in Int /\ r - w \in 0 .. k - 1
  <2> HIDE DEF n
  <2> QED BY <1>2
<1>15. \A r \in start_row .. end_row - 1 :
         r >= n /\ (arr.spec.pre_zero \/ ~ writable) => RowOf(new, r) = Zero
  <2> SUFFICES ASSUME NEW r \in start_row .. end_row - 1, r >= n, arr.spec.pre_zero \/ ~ writable
               PROVE  RowOf(new, r) = Zero
    OBVIOUS
  <2>1. r \in Int /\ r - w \in 0 .. k - 1 BY <1>14
  <2> HIDE DEF n, w, k
  <2>2. n < end_row /\ r >= start_row /\ r < end_row BY <1>2, <2>1
  <2>3. arr.spec.pre_zero BY <1>5, <2>2
  <2> QED BY <1>12, <2>1, <2>2, <2>3
<1>16. WindowOK(new)
  <2>1. new.first_undef_row \in 0 .. new.spec.rows BY <1>2, <1>8, <1>11
  <2> QED BY <1>1, <1>7, <1>11, <2>1 DEF WindowOK
<1>17. RowsKept(new)
  <2> SUFFICES ASSUME NEW r \in 0 .. first - 1
               PROVE  /\ InBuffer(new, r) \/ r \in DOMAIN arr.file
                      /\ InBuffer(new, r) /\ ~ dirty =>
                           r \in DOMAIN arr.file /\ arr.file[r] = buffer[r - w]
    BY <1>11 DEF RowsKept
  <2>1. r \in Int BY <1>8
  <2>2. InBuffer(new, r) <=> r - w \in 0 .. k - 1 BY <1>7, <1>11 DEF InBuffer
  <2>3. InBuffer(arr, r) <=> r - w \in 0 .. k - 1 BY <1>4 DEF InBuffer
  <2>4. CASE r < n
    <3>1. r \in 0 .. n - 1 BY <1>2, <1>8, <2>4
    <3>2. r - w \in 0 .. k - 1 => buffer[r - w] = arr.buffer[r - w]
      <4> HIDE DEF w, k
      <4> QED BY <1>2, <1>10, <2>1, <2>4
    <3>3. ~ dirty => ~ arr.dirty BY DEF dirty
    <3> QED BY <1>1, <2>2, <2>3, <3>1, <3>2, <3>3 DEF RowsKept
  <2>5. CASE ~ (r < n)
    <3>1. writable /\ n < end_row /\ first = end_row BY <1>2, <1>8, <2>5 DEF first
    <3>2. r \in start_row .. end_row - 1 BY <1>2, <1>5, <2>5, <3>1
    <3>3. InBuffer(new, r) BY <1>14, <2>2, <3>2
    <3>4. dirty BY <3>1 DEF dirty
    <3> QED BY <3>3, <3>4
  <2> QED BY <2>4, <2>5
<1>18. RowsZeroed(new)
  <2> SUFFICES ASSUME arr.spec.pre_zero, NEW r \in 0 .. first - 1
               PROVE  RowOf(new, r) \in Data \cup {Zero}
    BY <1>11 DEF RowsZeroed
  <2>1. CASE r < n
    <3>1. r \in 0 .. n - 1 BY <1>2, <1>8, <2>1
    <3> QED BY <1>1, <1>13, <3>1 DEF RowsZeroed
  <2>2. CASE ~ (r < n)
    <3>1. writable /\ n < end_row /\ first = end_row BY <1>2, <1>8, <2>2 DEF first
    <3>2. r \in start_row .. end_row - 1 /\ r >= n BY <1>2, <1>5, <2>2, <3>1
    <3> QED BY <1>15, <3>2
  <2> QED BY <2>1, <2>2
<1>19. writable => new.dirty = TRUE /\ start_row <= n
  <2>1. writable => dirty = TRUE BY DEF dirty
  <2>2. writable => start_row <= n BY <1>2, <1>5
  <2> QED BY <1>11, <2>1, <2>2
<1>20. ArrayOK(new) BY <1>16, <1>17, <1>18 DEF ArrayOK
<1>21. new.first_undef_row = IF writable /\ n < end_row THEN end_row ELSE n BY <1>11 DEF first
<1>22. Shown(arr, new, start_row, end_row, writable)
  BY <1>11, <1>13, <1>15, <1>19, <1>20, <1>21 DEF Shown
<1> QED BY <1>3, <1>22 DEF new

-------------------------------------------------------------------------------
(* The invariant.                                                                 *)

\* A strip a caller has lies in the window of its array; what is in one for writing is
\* defined, and the buffer is marked as changed.
StripOK(arr, st) ==
  /\ arr.realized /\ st.start \in Nat /\ st.rows \in Nat \ {0} /\ st.writable \in BOOLEAN
  /\ st.start + st.rows <= arr.spec.rows
  /\ arr.cur_start_row <= st.start /\ st.start + st.rows <= arr.cur_start_row + arr.rows_in_mem
  /\ st.writable => st.start + st.rows <= arr.first_undef_row /\ arr.dirty = TRUE
  /\ arr.spec.pre_zero => \A r \in st.start .. st.start + st.rows - 1 : RowOf(arr, r) \in Data \cup {Zero}

\* The inductive invariant: what is not said by the properties themselves is that windows
\* hold every strip that can be asked for and that no row is lost (ArrayOK), and where the
\* strips of the callers are (StripOK).
IInv ==
  /\ mode \in {"ready", "failed", "destroyed"}
  /\ m \in Managers /\ Len(m.arrays) <= MaxArrays
  /\ \A a \in DOMAIN m.arrays : ArrayOK(m.arrays[a])
  /\ \A a \in DOMAIN strip : a \in DOMAIN m.arrays /\ StripOK(m.arrays[a], strip[a])
  /\ FilesOwned(m)
  /\ mode # "destroyed" => Balanced(m)
  /\ mode = "destroyed" => m.total = 0 /\ m.heap = 0

\* jinit_memory_mgr.
LEMMA InitHolds == Init => IInv
<1> SUFFICES ASSUME Init PROVE IInv OBVIOUS
<1>1. m = [small |-> Empty, large |-> Empty, arrays |-> <<>>, total |-> MANAGER, heap |-> MANAGER,
           files |-> {}, ok |-> TRUE]
  BY DEF Init
<1>2. Empty \in [Pools -> Seq(Headers)] BY DEF Empty
<1>3. /\ m \in Managers /\ m.arrays = <<>> /\ m.files = {} /\ m.total = MANAGER /\ m.heap = MANAGER
      /\ m.small = Empty /\ m.large = Empty
  BY <1>1, <1>2, SizeTypes DEF Managers
<1>4. Len(m.arrays) = 0 /\ DOMAIN m.arrays = {} BY <1>3
<1>5. Empty[PERMANENT] = <<>> /\ Empty[IMAGE] = <<>> BY DEF Empty, Pools
<1>6. Balanced(m) BY <1>3, <1>5, BytesNone, SizeTypes DEF Balanced, Held
<1>7. FilesOwned(m) BY <1>3, <1>4 DEF FilesOwned
<1>8. DOMAIN strip = {} /\ mode = "ready" BY DEF Init
<1>9. 0 <= MaxArrays BY ArraysAssumption
<1> QED BY <1>3, <1>4, <1>6, <1>7, <1>8, <1>9 DEF IInv

\* A call that allocates, requests or realizes: no row of an array realized before changes,
\* and an array realized now has none yet.
Steady ==
  /\ mode # "destroyed" /\ mode' \in {"ready", "failed"}
  /\ m' \in Managers /\ Len(m'.arrays) <= MaxArrays /\ Len(m.arrays) <= Len(m'.arrays)
  /\ \A a \in DOMAIN m.arrays : m.arrays[a].realized => m'.arrays[a] = m.arrays[a]
  /\ \A a \in DOMAIN m'.arrays :
       \/ a \in DOMAIN m.arrays /\ m.arrays[a].realized
       \/ m'.arrays[a].realized => m'.arrays[a].first_undef_row = 0 /\ ArrayOK(m'.arrays[a])
  /\ FilesOwned(m) => FilesOwned(m')
  /\ Balanced(m) => Balanced(m')
  /\ strip' = strip \/ strip' = <<>>

\* Such steps keep the invariant.
LEMMA SteadyHolds == IInv /\ Steady => IInv'
<1> SUFFICES ASSUME IInv, Steady PROVE IInv' OBVIOUS
<1>1. /\ m \in Managers /\ m' \in Managers /\ Len(m.arrays) \in Nat /\ Len(m'.arrays) \in Nat
      /\ DOMAIN m.arrays = 1 .. Len(m.arrays) /\ DOMAIN m'.arrays = 1 .. Len(m'.arrays)
  BY ManagerFields DEF IInv, Steady
<1>2. DOMAIN m.arrays \subseteq DOMAIN m'.arrays BY <1>1 DEF Steady
<1>3. ASSUME NEW a \in DOMAIN m'.arrays PROVE ArrayOK(m'.arrays[a])
  <2>1. CASE a \in DOMAIN m.arrays /\ m.arrays[a].realized
    BY <2>1 DEF IInv, Steady
  <2>2. CASE ~ (a \in DOMAIN m.arrays /\ m.arrays[a].realized)
    <3>1. m'.arrays[a].realized => ArrayOK(m'.arrays[a]) BY <2>2 DEF Steady
    <3> QED BY <3>1 DEF ArrayOK
  <2> QED BY <2>1, <2>2
<1>4. ASSUME NEW a \in DOMAIN strip' PROVE a \in DOMAIN m'.arrays /\ StripOK(m'.arrays[a], strip'[a])
  <2>1. strip' = strip
    <3>1. DOMAIN <<>> = {} OBVIOUS
    <3> QED BY <3>1 DEF Steady
  <2>2. a \in DOMAIN m.arrays /\ StripOK(m.arrays[a], strip[a]) BY <2>1 DEF IInv
  <2>3. m'.arrays[a] = m.arrays[a] BY <2>2 DEF StripOK, Steady
  <2> QED BY <1>2, <2>1, <2>2, <2>3
<1>5. mode' \in {"ready", "failed", "destroyed"} /\ mode' # "destroyed" BY DEF Steady
<1>6. FilesOwned(m') /\ Balanced(m') BY DEF IInv, Steady
<1> QED BY <1>1, <1>3, <1>4, <1>5, <1>6 DEF IInv, Steady

\* error_exit is done with the call that failed.
Cleared(s, t) ==
  /\ t \in Managers /\ t.arrays = s.arrays /\ t.files = s.files
  /\ t.small = s.small /\ t.large = s.large /\ t.total = s.total /\ t.heap = s.heap

\* The end of a call.
LEMMA ClearedOk == \A s \in Managers : Cleared(s, [s EXCEPT !.ok = TRUE])
BY DEF Managers, Cleared

LEMMA OutcomeCleared ==
  ASSUME NEW s \in Managers, Outcome(s)
  PROVE  Cleared(s, m') /\ mode' \in {"ready", "failed"} /\ (strip' = strip \/ strip' = <<>>)
BY ClearedOk DEF Outcome

LEMMA ClearedParts ==
  \A s, t : Cleared(s, t) => /\ Balanced(s) => Balanced(t)
                             /\ FilesOwned(s) => FilesOwned(t)
BY DEF Cleared, Balanced, Held, FilesOwned

\* Allocations are steady.
LEMMA KeptSteady ==
  ASSUME IInv, mode = "ready", NEW s, Kept(m, s), Outcome(s)
  PROVE  Steady
<1>1. s \in Managers /\ s.arrays = m.arrays /\ s.files = m.files /\ (Balanced(m) => Balanced(s))
  BY DEF Kept
<1>2. Cleared(s, m') /\ mode' \in {"ready", "failed"} /\ (strip' = strip \/ strip' = <<>>)
  BY <1>1, OutcomeCleared
<1>3. m' \in Managers /\ m'.arrays = m.arrays BY <1>1, <1>2 DEF Cleared
<1>4. (FilesOwned(m) => FilesOwned(m')) /\ (Balanced(m) => Balanced(m'))
  <2>1. FilesOwned(m) => FilesOwned(s) BY <1>1 DEF FilesOwned
  <2> QED BY <1>1, <1>2, <2>1, ClearedParts
<1>5. Len(m.arrays) \in Nat /\ Len(m.arrays) <= MaxArrays BY ManagerFields DEF IInv
<1>6. \A a \in DOMAIN m.arrays : m.arrays[a] \in ArrayRecs BY ArrayAt DEF IInv
<1>7. \A a \in DOMAIN m.arrays : m.arrays[a].realized \/ ~ m.arrays[a].realized OBVIOUS
<1> QED BY <1>2, <1>3, <1>4, <1>5, <1>7 DEF Steady

LEMMA AllocSteady ==
  ASSUME IInv, NEW p \in Pools, NEW size \in Objects, AllocSmall(p, size) \/ AllocLarge(p, size)
  PROVE  Steady
<1>1. size \in Int /\ m \in Managers BY SizesAssumption DEF IInv
<1>2. CASE AllocSmall(p, size)
  <2>1. mode = "ready" /\ Outcome(alloc_small(m, p, size)) BY <1>2 DEF AllocSmall
  <2> QED BY <1>1, <2>1, SmallKeeps, KeptSteady
<1>3. CASE AllocLarge(p, size)
  <2>1. mode = "ready" /\ Outcome(alloc_large(m, p, size)) BY <1>3 DEF AllocLarge
  <2> QED BY <1>1, <2>1, LargeKeeps, KeptSteady
<1> QED BY <1>2, <1>3

\* request_virt_sarray, request_virt_barray.
NewArray(spec) ==
  [spec |-> spec, realized |-> FALSE, b_s_open |-> FALSE, rows_in_mem |-> 0,
   rowsperchunk |-> 0, cur_start_row |-> 0, first_undef_row |-> 0, dirty |-> FALSE,
   buffer |-> <<>>, file |-> <<>>]

\* The control block of a new array.
LEMMA NewArrayType ==
  ASSUME NEW spec \in Arrays
  PROVE  NewArray(spec) \in ArrayRecs /\ NewArray(spec).realized = FALSE /\ NewArray(spec).b_s_open = FALSE
<1>1. <<>> \in Contents
  <2>1. <<>> \in [{} -> Values] OBVIOUS
  <2>2. {} \in SUBSET Int OBVIOUS
  <2> QED BY <2>1, <2>2, ContentsFact
<1> QED BY <1>1 DEF NewArray, ArrayRecs

LEMMA RequestSteady ==
  ASSUME IInv, NEW spec \in Arrays, mode = "ready", Len(m.arrays) < MaxArrays,
         Outcome(request_virt(m, spec))
  PROVE  Steady
<1> DEFINE t == alloc_small(m, IMAGE, CONTROL)
           arr == NewArray(spec)
           s == [t EXCEPT !.arrays = Append(@, arr)]
<1>1. Kept(m, t) BY SmallKeeps, SizeTypes DEF IInv, Pools
<1>2. request_virt(m, spec) = IF ~ t.ok THEN t ELSE s BY DEF request_virt, NewArray
<1> HIDE DEF t
<1>3. CASE ~ t.ok
  <2>1. Outcome(t) BY <1>2, <1>3
  <2> QED BY <1>1, <2>1, KeptSteady
<1>4. CASE t.ok
  <2>1. t \in Managers /\ t.arrays = m.arrays /\ t.files = m.files /\ (Balanced(m) => Balanced(t))
    BY <1>1 DEF Kept
  <2>2. arr \in ArrayRecs /\ arr.realized = FALSE /\ arr.b_s_open = FALSE BY NewArrayType
  <2> DEFINE n == Len(m.arrays)
             new == Append(m.arrays, arr)
  <2>3. m.arrays \in Seq(ArrayRecs) /\ n \in Nat /\ DOMAIN m.arrays = 1 .. n BY ManagerFields DEF IInv
  <2> HIDE DEF arr
  <2>4. /\ new \in Seq(ArrayRecs) /\ Len(new) = n + 1 /\ DOMAIN new = 1 .. n + 1
        /\ new[n + 1] = arr /\ \A a \in 1 .. n : new[a] = m.arrays[a]
    BY <2>2, <2>3
  <2> HIDE DEF new
  <2>5. s = [t EXCEPT !.arrays = new] BY <2>1 DEF new
  <2>6. /\ s \in Managers /\ s.arrays = new /\ s.files = t.files
        /\ s.small = t.small /\ s.large = t.large /\ s.total = t.total /\ s.heap = t.heap
    <3> HIDE DEF s
    <3> QED BY <2>1, <2>4, <2>5 DEF Managers
  <2>7. Outcome(s) BY <1>2, <1>4
  <2> HIDE DEF s
  <2>8. Cleared(s, m') /\ mode' \in {"ready", "failed"} /\ (strip' = strip \/ strip' = <<>>)
    BY <2>6, <2>7, OutcomeCleared
  <2>9. m' \in Managers /\ m'.arrays = new BY <2>6, <2>8 DEF Cleared
  <2>10. Balanced(m) => Balanced(m')
    <3>1. Balanced(t) => Balanced(s) BY <2>6 DEF Balanced, Held
    <3> QED BY <2>1, <2>8, <3>1, ClearedParts
  <2>11. FilesOwned(m) => FilesOwned(m')
    <3>1. FilesOwned(m) => FilesOwned(s)
      <4> SUFFICES ASSUME FilesOwned(m) PROVE FilesOwned(s) OBVIOUS
      <4>1. s.files = {a \in 1 .. n : m.arrays[a].b_s_open} BY <2>1, <2>3, <2>6 DEF FilesOwned
      <4>2. \A a \in 1 .. n + 1 : new[a].b_s_open <=> a \in 1 .. n /\ m.arrays[a].b_s_open
        <5>1. \A a \in 1 .. n : a # n + 1 BY <2>3
        <5>2. \A a \in 1 .. n + 1 : a = n + 1 \/ a \in 1 .. n BY <2>3
        <5> QED BY <2>2, <2>4, <5>1, <5>2
      <4>3. \A a \in 1 .. n : a \in 1 .. n + 1 BY <2>3
      <4> QED BY <2>4, <2>6, <4>1, <4>2, <4>3 DEF FilesOwned
    <3> QED BY <2>8, <3>1, ClearedParts
  <2>12. n + 1 <= MaxArrays /\ n <= n + 1 BY <2>3, ArraysAssumption
  <2>13. \A a \in DOMAIN new : a \in 1 .. n \/ ~ new[a].realized
    <3>1. \A a \in 1 .. n + 1 : a = n + 1 \/ a \in 1 .. n BY <2>3
    <3> QED BY <2>2, <2>4, <3>1
  <2>14. \A a \in DOMAIN new : (a \in DOMAIN m.arrays /\ m.arrays[a].realized) \/ ~ new[a].realized
    BY <2>3, <2>4, <2>13
  <2>15. \A a \in DOMAIN m.arrays : new[a] = m.arrays[a] BY <2>3, <2>4
  <2>16. Len(m'.arrays) = n + 1 BY <2>4, <2>9
  <2> QED BY <2>8, <2>9, <2>10, <2>11, <2>12, <2>14, <2>15, <2>16 DEF Steady
<1> QED BY <1>3, <1>4

\* A new buffer is well formed: nothing is defined yet.
LEMMA FreshOK ==
  ASSUME NEW arr \in ArrayRecs, NEW heights \in Nat \ {0}, Fresh(arr, heights)
  PROVE  ArrayOK(arr) /\ arr.first_undef_row = 0
<1>1. /\ arr.rows_in_mem \in Nat \ {0}
      /\ \A n \in Nat : n <= arr.spec.maxaccess /\ n <= arr.spec.rows => n <= arr.rows_in_mem
  BY ArrayFields, BufferRowsType DEF Fresh
<1>2. arr.spec.rows \in Nat BY ArrayFields, SpecTypes
<1>3. WindowOK(arr) BY <1>1, <1>2 DEF Fresh, WindowOK
<1>4. 0 .. arr.first_undef_row - 1 = {} BY DEF Fresh
<1>5. RowsKept(arr) /\ RowsZeroed(arr) BY <1>4 DEF RowsKept, RowsZeroed
<1> QED BY <1>3, <1>5 DEF ArrayOK, Fresh

LEMMA RealizeSteady ==
  ASSUME IInv, NEW refused, RealizeVirtArrays(refused)
  PROVE  Steady
<1> DEFINE s == realize_virt_arrays(m, refused)
           heights == max_minheights(m)
<1>1. m \in Managers /\ mode = "ready" /\ Outcome(s) BY DEF IInv, RealizeVirtArrays
<1>2. CASE space_per_minheight(m) <= 0
  <2>1. s = m BY <1>2 DEF realize_virt_arrays
  <2>2. Kept(m, s) BY <1>1, <2>1, KeptItself
  <2> QED BY <1>1, <2>2, KeptSteady
<1>3. CASE ~ (space_per_minheight(m) <= 0)
  <2>1. heights \in Nat \ {0} BY <1>1, <1>3, SpaceTypes, HeightsType
  <2>2. Realizing(m, s, heights) BY <1>1, RealizeStep
  <2> HIDE DEF s, heights
  <2>3. s \in Managers /\ Len(s.arrays) = Len(m.arrays) BY <2>2 DEF Realizing
  <2>4. Cleared(s, m') /\ mode' \in {"ready", "failed"} /\ (strip' = strip \/ strip' = <<>>)
    BY <1>1, <2>3, OutcomeCleared
  <2>5. m' \in Managers /\ m'.arrays = s.arrays BY <2>4 DEF Cleared
  <2>6. DOMAIN m'.arrays = DOMAIN m.arrays /\ Len(m.arrays) \in Nat BY <1>1, <2>3, <2>5, ManagerFields
  <2>7. (FilesOwned(m) => FilesOwned(m')) /\ (Balanced(m) => Balanced(m'))
    BY <2>2, <2>4, ClearedParts DEF Realizing
  <2>8. ASSUME NEW a \in DOMAIN m'.arrays, ~ m.arrays[a].realized, m'.arrays[a].realized
        PROVE  m'.arrays[a].first_undef_row = 0 /\ ArrayOK(m'.arrays[a])
    <3>1. Fresh(m'.arrays[a], heights) BY <2>2, <2>5, <2>6, <2>8 DEF Realizing
    <3>2. m'.arrays[a] \in ArrayRecs BY <2>5, ArrayAt
    <3> QED BY <2>1, <3>1, <3>2, FreshOK
  <2>9. \A a \in DOMAIN m.arrays : m.arrays[a].realized => m'.arrays[a] = m.arrays[a]
    BY <2>2, <2>5 DEF Realizing
  <2>10. Len(m'.arrays) = Len(m.arrays) /\ Len(m.arrays) <= MaxArrays /\ Len(m.arrays) <= Len(m'.arrays)
    BY <2>3, <2>5, <2>6 DEF IInv
  <2> QED BY <1>1, <2>4, <2>5, <2>6, <2>7, <2>8, <2>9, <2>10 DEF Steady
<1> QED BY <1>2, <1>3

(* An access fails, perhaps after the window was moved, or shows a strip.         *)
Refused(a) ==
  /\ mode' = "failed" /\ strip' = <<>>
  /\ \/ m' = m
     \/ \E new : /\ Replaced(m, a, new, m') /\ m'.files = m.files
                 /\ Same(m.arrays[a], new) /\ ArrayOK(new)
                 /\ \A r \in 0 .. m.arrays[a].first_undef_row - 1 : RowOf(new, r) = RowOf(m.arrays[a], r)

Granted(a, start_row, num_rows, writable) ==
  /\ mode' = mode
  /\ Strip(m.arrays[a], start_row, start_row + num_rows)
  /\ \E new : /\ Replaced(m, a, new, m') /\ m'.files = m.files
              /\ Shown(m.arrays[a], new, start_row, start_row + num_rows, writable)
  /\ strip' = [b \in DOMAIN strip \cup {a} |->
                 IF b = a THEN [start |-> start_row, rows |-> num_rows, writable |-> writable]
                 ELSE strip[b]]

\* Every access of a realized array is one or the other.
LEMMA AccessCases ==
  ASSUME IInv, NEW a \in DOMAIN m.arrays, NEW start_row \in 0 .. m.arrays[a].spec.rows - 1,
         NEW num_rows \in 1 .. m.arrays[a].spec.maxaccess, NEW writable \in BOOLEAN,
         access_virt(a, start_row, num_rows, writable)
  PROVE  m.arrays[a].realized /\ (Refused(a) \/ Granted(a, start_row, num_rows, writable))
<1> DEFINE arr == m.arrays[a]
           end_row == start_row + num_rows
           here == Positioned(arr, start_row, end_row)
           new == Defined(here, start_row, end_row, writable)
<1>1. m \in Managers /\ arr \in ArrayRecs /\ ArrayOK(arr) BY ArrayAt DEF IInv
<1>2. arr.realized /\ end_row <= arr.spec.rows /\ num_rows <= arr.spec.maxaccess
  BY DEF access_virt
<1>3. start_row \in Nat /\ num_rows \in Nat \ {0} /\ end_row \in Nat
  BY <1>1, ArrayFields, SpecTypes
<1>4. Strip(arr, start_row, end_row) BY <1>1, <1>2, <1>3 DEF Strip
<1> HIDE DEF end_row
<1>5. Placed(arr, here, start_row, end_row) BY <1>1, <1>2, <1>4, PositionStep
<1>6. CASE mode' = "failed" /\ strip' = <<>> /\ m' = m BY <1>2, <1>6 DEF Refused
<1>7. CASE BadAccess(here, start_row, end_row, writable)
           /\ mode' = "failed" /\ strip' = <<>> /\ m' = [m EXCEPT !.arrays[a] = here]
  <2> HIDE DEF here
  <2>1. here \in ArrayRecs BY <1>5 DEF Placed, Same
  <2>2. Replaced(m, a, here, m') /\ m'.files = m.files BY <1>1, <1>7, <2>1, ReplacedOne
  <2> HIDE DEF arr
  <2>3. Same(arr, here) /\ ArrayOK(here)
        /\ \A r \in 0 .. arr.first_undef_row - 1 : RowOf(here, r) = RowOf(arr, r)
    BY <1>5 DEF Placed
  <2> QED BY <1>2, <1>7, <2>2, <2>3 DEF Refused, arr
<1>8. CASE /\ ~ BadAccess(here, start_row, end_row, writable)
           /\ m' = [m EXCEPT !.arrays[a] = new]
           /\ strip' = [b \in DOMAIN strip \cup {a} |->
                          IF b = a THEN [start |-> start_row, rows |-> num_rows, writable |-> writable]
                          ELSE strip[b]]
           /\ UNCHANGED mode
  <2> HIDE DEF here, arr
  <2>1. /\ here \in ArrayRecs /\ here.realized = arr.realized /\ ArrayOK(here)
        /\ here.spec = arr.spec /\ here.first_undef_row = arr.first_undef_row
        /\ here.b_s_open = arr.b_s_open
        /\ here.cur_start_row <= start_row /\ end_row <= here.cur_start_row + here.rows_in_mem
        /\ \A r \in 0 .. arr.first_undef_row - 1 : RowOf(here, r) = RowOf(arr, r)
    BY <1>5 DEF Placed, Same
  <2>2. Strip(here, start_row, end_row) BY <1>4, <2>1 DEF Strip
  <2>3. Shown(here, new, start_row, end_row, writable) BY <1>2, <1>8, <2>1, <2>2, DefineStep
  <2> HIDE DEF new
  <2>4. Shown(arr, new, start_row, end_row, writable) BY <2>1, <2>3 DEF Shown
  <2>5. new \in ArrayRecs BY <2>4 DEF Shown
  <2>6. Replaced(m, a, new, m') /\ m'.files = m.files BY <1>1, <1>8, <2>5, ReplacedOne
  <2>7. Granted(a, start_row, num_rows, writable)
    BY <1>4, <1>8, <2>4, <2>6 DEF Granted, arr, end_row
  <2> QED BY <1>2, <2>7 DEF arr
<1>9. \/ mode' = "failed" /\ strip' = <<>> /\ m' = m
      \/ BadAccess(here, start_row, end_row, writable)
         /\ mode' = "failed" /\ strip' = <<>> /\ m' = [m EXCEPT !.arrays[a] = here]
      \/ /\ ~ BadAccess(here, start_row, end_row, writable)
         /\ m' = [m EXCEPT !.arrays[a] = new]
         /\ strip' = [b \in DOMAIN strip \cup {a} |->
                        IF b = a THEN [start |-> start_row, rows |-> num_rows, writable |-> writable]
                        ELSE strip[b]]
         /\ UNCHANGED mode
  BY Zenon DEF access_virt, end_row
<1> QED BY <1>6, <1>7, <1>8, <1>9

\* Replacing an array by one with as many files keeps the files owned.
LEMMA ReplacedFiles ==
  \A s, t, a, arr : /\ Replaced(s, a, arr, t) /\ t.files = s.files /\ FilesOwned(s)
                    /\ a \in DOMAIN s.arrays /\ arr.b_s_open = s.arrays[a].b_s_open
                    => FilesOwned(t)
BY DEF Replaced, FilesOwned

\* A refused access keeps the invariant ...
LEMMA RefusedHolds ==
  ASSUME IInv, NEW a \in DOMAIN m.arrays, mode = "ready", Refused(a)
  PROVE  IInv'
<1>1. DOMAIN strip' = {} /\ mode' = "failed" BY DEF Refused
<1>2. CASE m' = m BY <1>1, <1>2 DEF IInv
<1>3. ASSUME NEW new, Replaced(m, a, new, m'), m'.files = m.files, Same(m.arrays[a], new), ArrayOK(new)
      PROVE  IInv'
  <2>1. m' \in Managers /\ Len(m'.arrays) <= MaxArrays BY <1>3 DEF IInv, Replaced
  <2>2. \A b \in DOMAIN m'.arrays : ArrayOK(m'.arrays[b])
    <3>1. \A b \in DOMAIN m'.arrays : m'.arrays[b] = new \/ (m'.arrays[b] = m.arrays[b] /\ b \in DOMAIN m.arrays)
      BY <1>3 DEF Replaced
    <3> QED BY <1>3, <3>1 DEF IInv
  <2>3. FilesOwned(m') BY <1>3, ReplacedFiles DEF IInv, Same
  <2>4. Balanced(m') BY <1>3, ReplacedBalance DEF IInv
  <2> QED BY <1>1, <2>1, <2>2, <2>3, <2>4 DEF IInv
<1> QED BY <1>2, <1>3 DEF Refused

\* ... and so does one that shows a strip.
LEMMA GrantedHolds ==
  ASSUME IInv, NEW a \in DOMAIN m.arrays, mode = "ready", m.arrays[a].realized, NEW start_row, NEW num_rows,
         start_row \in Nat, num_rows \in Nat \ {0}, NEW writable \in BOOLEAN,
         Granted(a, start_row, num_rows, writable)
  PROVE  IInv'
<1> DEFINE arr == m.arrays[a]
           end_row == start_row + num_rows
<1>1. PICK new : /\ Replaced(m, a, new, m') /\ m'.files = m.files
                 /\ Shown(arr, new, start_row, end_row, writable)
  BY DEF Granted
<1>2. m \in Managers /\ arr \in ArrayRecs /\ ArrayOK(arr) BY ArrayAt DEF IInv
<1>3. m' \in Managers /\ Len(m'.arrays) <= MaxArrays BY <1>1 DEF IInv, Replaced
<1>4. \A b \in DOMAIN m'.arrays : ArrayOK(m'.arrays[b])
  <2>1. \A b \in DOMAIN m'.arrays : m'.arrays[b] = new \/ (m'.arrays[b] = m.arrays[b] /\ b \in DOMAIN m.arrays)
    BY <1>1 DEF Replaced
  <2> QED BY <1>1, <2>1 DEF IInv, Shown
<1>5. FilesOwned(m') BY <1>1, ReplacedFiles DEF IInv, Shown
<1>6. Balanced(m') BY <1>1, ReplacedBalance DEF IInv
<1>7. ASSUME NEW b \in DOMAIN strip' PROVE b \in DOMAIN m'.arrays /\ StripOK(m'.arrays[b], strip'[b])
  <2>1. CASE b # a
    <3>1. b \in DOMAIN strip /\ strip'[b] = strip[b] BY <2>1 DEF Granted
    <3>2. b \in DOMAIN m.arrays /\ StripOK(m.arrays[b], strip[b]) BY <3>1 DEF IInv
    <3>3. m'.arrays[b] = m.arrays[b] /\ b \in DOMAIN m'.arrays BY <1>1, <2>1, <3>2 DEF Replaced
    <3> QED BY <3>1, <3>2, <3>3
  <2>2. CASE b = a
    <3>1. strip'[b] = [start |-> start_row, rows |-> num_rows, writable |-> writable] BY <2>2 DEF Granted
    <3>2. m'.arrays[b] = new /\ b \in DOMAIN m'.arrays BY <1>1, <2>2 DEF Replaced
    <3>3. /\ strip'[b].start = start_row /\ strip'[b].rows = num_rows /\ strip'[b].writable = writable
      BY <3>1
    <3>4. /\ new.spec = arr.spec /\ new.realized /\ end_row <= new.spec.rows
          /\ new.cur_start_row <= start_row /\ end_row <= new.cur_start_row + new.rows_in_mem
      BY <1>1 DEF Shown, Granted, Strip
    <3>5. writable => end_row <= new.first_undef_row /\ new.dirty = TRUE
      <4>1. arr.first_undef_row \in Int /\ end_row \in Int BY <1>2, ArrayFields
      <4> HIDE DEF arr, end_row
      <4> QED BY <1>1, <4>1 DEF Shown
    <3>6. new.spec.pre_zero => \A r \in start_row .. end_row - 1 : RowOf(new, r) \in Data \cup {Zero}
      <4> SUFFICES ASSUME arr.spec.pre_zero, NEW r \in start_row .. end_row - 1
                   PROVE  RowOf(new, r) \in Data \cup {Zero}
        BY <3>4
      <4>1. CASE r >= arr.first_undef_row BY <1>1, <4>1 DEF Shown
      <4>2. CASE ~ (r >= arr.first_undef_row)
        <5>1. r \in 0 .. arr.first_undef_row - 1 BY <1>2, <4>2, ArrayFields
        <5>2. RowsZeroed(arr) BY <1>2 DEF ArrayOK
        <5> QED BY <1>1, <5>1, <5>2 DEF Shown, RowsZeroed
      <4> QED BY <4>1, <4>2
    <3> HIDE DEF arr
    <3> QED BY <3>2, <3>3, <3>4, <3>5, <3>6 DEF StripOK, end_row
  <2> QED BY <2>1, <2>2
<1>8. mode' = "ready" BY DEF Granted
<1> QED BY <1>3, <1>4, <1>5, <1>6, <1>7, <1>8 DEF IInv

\* The caller writes into its strip: the row is in the buffer, which is dirty already.
Written(arr, new, r, d) ==
  /\ Same(arr, new) /\ ArrayOK(new) /\ new.cur_start_row = arr.cur_start_row /\ new.dirty = arr.dirty
  /\ RowOf(new, r) = d /\ \A q \in Int \ {r} : RowOf(new, q) = RowOf(arr, q)

\* Writing a row changes that row and no other.
LEMMA WriteStep ==
  ASSUME NEW arr \in ArrayRecs, arr.realized, ArrayOK(arr), arr.dirty = TRUE, NEW r \in Int, NEW d \in Data,
         arr.cur_start_row <= r, r < arr.cur_start_row + arr.rows_in_mem, r < arr.first_undef_row
  PROVE  Written(arr, [arr EXCEPT !.buffer[r - arr.cur_start_row] = d], r, d)
<1> DEFINE w == arr.cur_start_row
           k == arr.rows_in_mem
           i == r - w
           buffer == [arr.buffer EXCEPT ![i] = d]
           new == [arr EXCEPT !.buffer = buffer]
<1>1. WindowOK(arr) /\ RowsKept(arr) /\ RowsZeroed(arr) BY DEF ArrayOK
<1>2. w \in Int /\ k \in Int BY ArrayFields
<1>3. DOMAIN arr.buffer = 0 .. k - 1 BY <1>1 DEF WindowOK
<1>4. i \in 0 .. k - 1 BY <1>2
<1>5. buffer \in Contents
  <2>1. PICK D \in SUBSET Int : arr.buffer \in [D -> Values] BY ArrayFields DEF Contents
  <2>2. d \in Values BY DEF Values
  <2> HIDE DEF i
  <2>3. buffer \in [D -> Values] BY <2>1, <2>2
  <2> HIDE DEF buffer
  <2> QED BY <2>3, ContentsFact
<1>6. DOMAIN buffer = 0 .. k - 1 /\ buffer[i] = d /\ \A j \in 0 .. k - 1 : j # i => buffer[j] = arr.buffer[j]
  <2> HIDE DEF i, k
  <2> QED BY <1>3, <1>4
<1>7. new = [arr EXCEPT !.buffer[r - arr.cur_start_row] = d] BY DEF ArrayRecs
<1> HIDE DEF buffer
<1>8. /\ Same(arr, new) /\ new.cur_start_row = w /\ new.dirty = arr.dirty
      /\ new.buffer = buffer /\ new.file = arr.file
  BY <1>5 DEF Same, ArrayRecs
<1> HIDE DEF new
<1>9. RowOf(new, r) = d
  <2>1. InBuffer(new, r) BY <1>4, <1>6, <1>8 DEF InBuffer
  <2> QED BY <1>6, <1>8, <2>1 DEF RowOf
<1>10. ASSUME NEW q \in Int \ {r} PROVE RowOf(new, q) = RowOf(arr, q)
  <2>1. q - w # i BY <1>2
  <2>2. InBuffer(new, q) <=> InBuffer(arr, q) BY <1>3, <1>6, <1>8 DEF InBuffer
  <2>3. CASE q - w \in 0 .. k - 1
    <3>1. buffer[q - w] = arr.buffer[q - w]
      <4> HIDE DEF i, k, w
      <4> QED BY <1>6, <2>1, <2>3
    <3> QED BY <1>8, <2>2, <3>1 DEF RowOf
  <2>4. CASE ~ (q - w \in 0 .. k - 1)
    <3>1. ~ InBuffer(arr, q) BY <1>3, <2>4 DEF InBuffer
    <3> QED BY <1>8, <2>2, <3>1 DEF RowOf
  <2> QED BY <2>3, <2>4
<1>11. WindowOK(new) BY <1>1, <1>6, <1>8 DEF WindowOK, Same
<1>12. RowsKept(new) BY <1>1, <1>3, <1>6, <1>8 DEF RowsKept, Same, InBuffer
<1>13. RowsZeroed(new)
  <2> SUFFICES ASSUME arr.spec.pre_zero, NEW q \in 0 .. arr.first_undef_row - 1
               PROVE  RowOf(new, q) \in Data \cup {Zero}
    BY <1>8 DEF RowsZeroed, Same
  <2>1. CASE q = r BY <1>9, <2>1
  <2>2. CASE q # r
    <3>1. q \in Int \ {r} BY <2>2, ArrayFields
    <3> QED BY <1>1, <1>10, <3>1 DEF RowsZeroed
  <2> QED BY <2>1, <2>2
<1>14. Written(arr, new, r, d) BY <1>8, <1>9, <1>10, <1>11, <1>12, <1>13 DEF Written, ArrayOK
<1> QED BY <1>7, <1>14

\* The step of WriteRow, as the proofs below use it.
Stored(a, r, d) ==
  /\ a \in DOMAIN strip /\ a \in DOMAIN m.arrays /\ strip[a].writable
  /\ r \in strip[a].start .. strip[a].start + strip[a].rows - 1 /\ d \in Data
  /\ r \in 0 .. m.arrays[a].first_undef_row - 1
  /\ mode' = mode /\ strip' = strip
  /\ \E new : /\ Replaced(m, a, new, m') /\ m'.files = m.files
              /\ Written(m.arrays[a], new, r, d)

\* WriteRow writes a row that is defined and in the buffer ...
LEMMA WriteStored ==
  ASSUME IInv, NEW a, NEW r, NEW d \in Data, WriteRow(a, r, d)
  PROVE  Stored(a, r, d)
<1> DEFINE arr == m.arrays[a]
           st == strip[a]
           new == [arr EXCEPT !.buffer[r - arr.cur_start_row] = d]
<1>1. a \in DOMAIN strip /\ st.writable /\ r \in st.start .. st.start + st.rows - 1
      /\ mode' = mode /\ strip' = strip
  BY DEF WriteRow
<1>2. a \in DOMAIN m.arrays /\ StripOK(arr, st) /\ m \in Managers /\ ArrayOK(arr) BY <1>1 DEF IInv
<1>3. arr \in ArrayRecs BY <1>2, ArrayAt
<1>4. arr.cur_start_row \in Int /\ arr.rows_in_mem \in Int /\ arr.first_undef_row \in Int BY <1>3, ArrayFields
<1>5. m' = [m EXCEPT !.arrays[a] = new] BY <1>2 DEF WriteRow, Managers
<1> HIDE DEF arr, st
<1>6. /\ arr.realized /\ arr.dirty = TRUE /\ r \in Int /\ arr.cur_start_row <= r
      /\ r < arr.cur_start_row + arr.rows_in_mem /\ r < arr.first_undef_row /\ r >= 0
  BY <1>1, <1>2, <1>4 DEF StripOK
<1>7. Written(arr, new, r, d) BY <1>2, <1>3, <1>6, WriteStep
<1> HIDE DEF new
<1>8. new \in ArrayRecs BY <1>7 DEF Written, Same
<1>9. Replaced(m, a, new, m') /\ m'.files = m.files BY <1>2, <1>5, <1>8, ReplacedOne
<1>10. r \in 0 .. arr.first_undef_row - 1 BY <1>4, <1>6
<1> QED BY <1>1, <1>2, <1>7, <1>9, <1>10 DEF Stored, arr, st

\* ... and keeps the invariant.
LEMMA StoredHolds ==
  ASSUME IInv, NEW a, NEW r, NEW d, Stored(a, r, d), mode = "ready"
  PROVE  IInv'
<1> DEFINE arr == m.arrays[a]
<1>1. PICK new : Replaced(m, a, new, m') /\ m'.files = m.files /\ Written(arr, new, r, d)
  BY DEF Stored
<1>2. a \in DOMAIN m.arrays /\ m \in Managers /\ ArrayOK(arr) /\ r \in Int
  BY ArrayFields, ArrayAt DEF Stored, IInv
<1>3. m' \in Managers /\ Len(m'.arrays) <= MaxArrays BY <1>1 DEF IInv, Replaced
<1>4. \A b \in DOMAIN m'.arrays : ArrayOK(m'.arrays[b])
  <2>1. \A b \in DOMAIN m'.arrays : m'.arrays[b] = new \/ (m'.arrays[b] = m.arrays[b] /\ b \in DOMAIN m.arrays)
    BY <1>1 DEF Replaced
  <2> QED BY <1>1, <2>1 DEF IInv, Written
<1>5. FilesOwned(m') BY <1>1, <1>2, ReplacedFiles DEF IInv, Written, Same
<1>6. Balanced(m') BY <1>1, ReplacedBalance DEF IInv
<1>7. ASSUME NEW b \in DOMAIN strip' PROVE b \in DOMAIN m'.arrays /\ StripOK(m'.arrays[b], strip'[b])
  <2>1. b \in DOMAIN strip /\ strip'[b] = strip[b] BY DEF Stored
  <2>2. b \in DOMAIN m.arrays /\ StripOK(m.arrays[b], strip[b]) BY <2>1 DEF IInv
  <2>3. CASE b # a
    <3>1. m'.arrays[b] = m.arrays[b] /\ b \in DOMAIN m'.arrays BY <1>1, <2>2, <2>3 DEF Replaced
    <3> QED BY <2>1, <2>2, <3>1
  <2>4. CASE b = a
    <3>1. m'.arrays[b] = new /\ b \in DOMAIN m'.arrays BY <1>1, <2>2, <2>4 DEF Replaced
    <3> DEFINE st == strip[a]
    <3>2. StripOK(arr, st) BY <2>2, <2>4
    <3>3. st.start \in Nat /\ st.rows \in Nat BY <3>2 DEF StripOK
    <3>4. arr.spec.pre_zero => \A q \in st.start .. st.start + st.rows - 1 : RowOf(new, q) \in Data \cup {Zero}
      <4> SUFFICES ASSUME arr.spec.pre_zero, NEW q \in st.start .. st.start + st.rows - 1
                   PROVE  RowOf(new, q) \in Data \cup {Zero}
        OBVIOUS
      <4> HIDE DEF arr, st
      <4>1. CASE q = r BY <1>1, <4>1 DEF Written, Stored
      <4>2. CASE q # r
        <5>1. q \in Int \ {r} BY <3>3, <4>2
        <5>2. RowOf(arr, q) \in Data \cup {Zero} BY <3>2 DEF StripOK
        <5> QED BY <1>1, <5>1, <5>2 DEF Written
      <4> QED BY <4>1, <4>2
    <3> HIDE DEF arr, st
    <3>5. StripOK(new, st) BY <1>1, <3>2, <3>4 DEF StripOK, Written, Same
    <3> QED BY <2>1, <2>4, <3>1, <3>5 DEF st
  <2> QED BY <2>3, <2>4
<1>8. mode' = "ready" BY DEF Stored
<1> QED BY <1>3, <1>4, <1>5, <1>6, <1>7, <1>8 DEF IInv

\* The space of pool p of s has been given back; with the IMAGE pool go the arrays.
Emptied(s, p, t) ==
  LET freed == Bytes(s.small[p]) + Bytes(s.large[p])
  IN /\ t \in Managers
     /\ t.small = [s.small EXCEPT ![p] = <<>>] /\ t.large = [s.large EXCEPT ![p] = <<>>]
     /\ t.total = s.total - freed /\ t.heap = s.heap - freed
     /\ t.arrays = IF p = IMAGE THEN <<>> ELSE s.arrays
     /\ FilesOwned(s) => FilesOwned(t)

With(s, small, large, arrays, total, heap, files) ==
  [small |-> small, large |-> large, arrays |-> arrays, total |-> total, heap |-> heap,
   files |-> files, ok |-> s.ok]
Parts(t, small, large, arrays, total, heap, files) ==
  /\ t \in Managers /\ t.small = small /\ t.large = large /\ t.arrays = arrays
  /\ t.total = total /\ t.heap = heap /\ t.files = files

\* A manager put together from its parts.
LEMMA WithParts ==
  \A s \in Managers, small, large \in [Pools -> Seq(Headers)], arrays \in Seq(ArrayRecs),
     total, heap \in Int, files \in SUBSET Int :
    Parts(With(s, small, large, arrays, total, heap, files), small, large, arrays, total, heap, files)
BY ManagerFields DEF With, Parts, Managers

\* free_pool.
LEMMA PoolEmptied ==
  ASSUME NEW s \in Managers, NEW p \in Pools
  PROVE  Emptied(s, p, free_pool(s, p))
<1> DEFINE freed == Bytes(s.small[p]) + Bytes(s.large[p])
           open == {a \in DOMAIN s.arrays : s.arrays[a].b_s_open}
           arrays == IF p = IMAGE THEN <<>> ELSE s.arrays
           files == IF p = IMAGE THEN s.files \ open ELSE s.files
           small == [s.small EXCEPT ![p] = <<>>]
           large == [s.large EXCEPT ![p] = <<>>]
<1>1. freed \in Int BY ManagerFields, BytesType
<1>2. small \in [Pools -> Seq(Headers)] /\ large \in [Pools -> Seq(Headers)] BY ManagerFields
<1>3. arrays \in Seq(ArrayRecs) /\ files \in SUBSET Int BY ManagerFields
<1>4. s.total - freed \in Int /\ s.heap - freed \in Int /\ s.ok \in BOOLEAN BY <1>1, ManagerFields
<1>5. free_pool(s, p) = With(s, small, large, arrays, s.total - freed, s.heap - freed, files)
  <2>1. CASE p = IMAGE
    <3>1. free_pool(s, p) = [[s EXCEPT !.files = files, !.arrays = arrays]
                             EXCEPT !.total = s.total - freed, !.heap = s.heap - freed,
                                    !.small = small, !.large = large]
      <4>1. [s EXCEPT !.files = @ \ open, !.arrays = <<>>] = [s EXCEPT !.files = files, !.arrays = arrays]
        BY <2>1 DEF Managers
      <4> DEFINE closed == [s EXCEPT !.files = files, !.arrays = arrays]
      <4>2. /\ closed.total = s.total /\ closed.heap = s.heap /\ closed.small = s.small
            /\ closed.large = s.large
            /\ DOMAIN closed = {"small", "large", "arrays", "total", "heap", "files", "ok"}
        BY DEF Managers
      <4> HIDE DEF closed, files, arrays
      <4>3. free_pool(s, p) = [closed EXCEPT !.total = @ - freed, !.heap = @ - freed,
                                             !.small[p] = <<>>, !.large[p] = <<>>]
        BY <2>1, <4>1 DEF free_pool, closed
      <4> QED BY <4>2, <4>3 DEF closed
    <3> HIDE DEF files, arrays, small, large, freed
    <3> QED BY <3>1 DEF With, Managers
  <2>2. CASE p # IMAGE
    <3>1. free_pool(s, p) = [s EXCEPT !.total = @ - freed, !.heap = @ - freed,
                                      !.small[p] = <<>>, !.large[p] = <<>>]
      BY <2>2 DEF free_pool
    <3>2. arrays = s.arrays /\ files = s.files BY <2>2
    <3> HIDE DEF files, arrays, freed
    <3>3. free_pool(s, p) = [s EXCEPT !.total = s.total - freed, !.heap = s.heap - freed,
                                      !.small = small, !.large = large]
      BY <3>1 DEF Managers
    <3> HIDE DEF small, large
    <3> QED BY <3>2, <3>3 DEF With, Managers
  <2> QED BY <2>1, <2>2
<1>6. FilesOwned(s) => files = {a \in DOMAIN arrays : arrays[a].b_s_open}
  BY DEF FilesOwned
<1> HIDE DEF freed, small, large, arrays, files, open
<1> DEFINE t == free_pool(s, p)
<1>7. /\ t \in Managers /\ t.small = small /\ t.large = large /\ t.arrays = arrays
      /\ t.total = s.total - freed /\ t.heap = s.heap - freed /\ t.files = files
  <2>1. Parts(t, small, large, arrays, s.total - freed, s.heap - freed, files)
    BY <1>2, <1>3, <1>4, <1>5, WithParts, Zenon
  <2> HIDE DEF t
  <2> QED BY <2>1 DEF Parts
<1> HIDE DEF t
<1>8. FilesOwned(s) => FilesOwned(t) BY <1>6, <1>7 DEF FilesOwned
<1>9. Emptied(s, p, t) BY <1>7, <1>8 DEF Emptied, freed, small, large, arrays
<1> QED BY <1>9 DEF t

\* The bytes given back are those that were counted.
LEMMA EmptiedBalance ==
  ASSUME NEW s \in Managers, NEW p \in Pools, NEW t, Emptied(s, p, t), Balanced(s)
  PROVE  Balanced(t)
<1> DEFINE freed == Bytes(s.small[p]) + Bytes(s.large[p])
           b == [s EXCEPT !.small[p] = <<>>, !.total = @ - Bytes(s.small[p]), !.heap = @ - Bytes(s.small[p])]
<1>1. Bytes(s.small[p]) \in Int /\ Bytes(s.large[p]) \in Int BY ManagerFields, BytesType
<1>2. <<>> \in Seq(Headers) OBVIOUS
<1>3. s.total \in Int /\ s.heap \in Int /\ s.small \in [Pools -> Seq(Headers)]
      /\ s.large \in [Pools -> Seq(Headers)] /\ t \in Managers
  BY ManagerFields DEF Emptied
<1>4. t.small = [s.small EXCEPT ![p] = <<>>] /\ t.large = [s.large EXCEPT ![p] = <<>>]
      /\ t.total = s.total - freed /\ t.heap = s.heap - freed
  BY DEF Emptied
<1>5. \A q \in Pools : /\ Bytes(t.small[q]) = IF q = p THEN 0 ELSE Bytes(s.small[q])
                       /\ Bytes(t.large[q]) = IF q = p THEN 0 ELSE Bytes(s.large[q])
  BY <1>3, <1>4, BytesNone
<1>6. \A q \in Pools : Bytes(s.small[q]) \in Int /\ Bytes(s.large[q]) \in Int BY ManagerFields, BytesType
<1>7. CASE p = PERMANENT
  <2>1. Held(t) = Held(s) - freed BY <1>5, <1>6, <1>7 DEF Held, Pools, PERMANENT, IMAGE
  <2> QED BY <1>1, <1>3, <1>4, <2>1, HeldType, SizeTypes DEF Balanced
<1>8. CASE p = IMAGE
  <2>1. Held(t) = Held(s) - freed BY <1>5, <1>6, <1>8 DEF Held, Pools, PERMANENT, IMAGE
  <2> QED BY <1>1, <1>3, <1>4, <2>1, HeldType, SizeTypes DEF Balanced
<1> QED BY <1>7, <1>8 DEF Pools

\* Both ways to release pools keep the invariant; self_destruct leaves nothing.
LEMMA FreeHolds ==
  ASSUME IInv, FreeImagePool
  PROVE  IInv'
<1>1. m \in Managers /\ FilesOwned(m) /\ Balanced(m) /\ MaxArrays \in Nat
  BY ArraysAssumption DEF IInv, FreeImagePool
<1>2. IMAGE \in Pools BY DEF Pools
<1>3. Emptied(m, IMAGE, m') BY <1>1, <1>2, PoolEmptied DEF FreeImagePool
<1>4. Balanced(m') BY <1>1, <1>2, <1>3, EmptiedBalance
<1>5. m'.arrays = <<>> /\ m' \in Managers /\ FilesOwned(m') BY <1>1, <1>3 DEF Emptied
<1>6. mode' = "ready" /\ strip' = <<>> BY DEF FreeImagePool
<1> QED BY <1>1, <1>4, <1>5, <1>6 DEF IInv

LEMMA DestroyHolds ==
  ASSUME IInv, self_destruct
  PROVE  IInv'
<1> DEFINE t == free_pool(m, IMAGE)
           s == free_pool(t, PERMANENT)
<1>1. m \in Managers /\ FilesOwned(m) /\ Balanced(m) /\ MaxArrays \in Nat
  BY ArraysAssumption DEF IInv, self_destruct
<1>2. IMAGE \in Pools /\ PERMANENT \in Pools /\ PERMANENT # IMAGE BY DEF Pools, PERMANENT, IMAGE
<1>3. Emptied(m, IMAGE, t) BY <1>1, <1>2, PoolEmptied
<1>4. Balanced(t) BY <1>1, <1>2, <1>3, EmptiedBalance
<1>5. t.arrays = <<>> /\ t \in Managers /\ FilesOwned(t) BY <1>1, <1>3 DEF Emptied
<1>6. m' = [s EXCEPT !.heap = @ - MANAGER, !.total = @ - MANAGER] BY DEF self_destruct
<1> HIDE DEF t
<1>7. Emptied(t, PERMANENT, s) BY <1>2, <1>5, PoolEmptied
<1>8. Balanced(s) BY <1>2, <1>4, <1>5, <1>7, EmptiedBalance
<1>9. s.arrays = <<>> /\ s \in Managers /\ FilesOwned(s) BY <1>2, <1>5, <1>7 DEF Emptied
<1>10. \A p \in Pools : s.small[p] = <<>> /\ s.large[p] = <<>>
  <2>1. t.small = [m.small EXCEPT ![IMAGE] = <<>>] /\ t.large = [m.large EXCEPT ![IMAGE] = <<>>]
    BY <1>3 DEF Emptied
  <2>2. s.small = [t.small EXCEPT ![PERMANENT] = <<>>] /\ s.large = [t.large EXCEPT ![PERMANENT] = <<>>]
    BY <1>7 DEF Emptied
  <2>3. DOMAIN m.small = Pools /\ DOMAIN m.large = Pools BY <1>1, ManagerFields
  <2> HIDE DEF s
  <2> QED BY <2>1, <2>2, <2>3 DEF Pools, PERMANENT, IMAGE
<1>11. Held(s) = 0 BY <1>2, <1>10, BytesNone DEF Held
<1> HIDE DEF s
<1>12. s.heap = MANAGER /\ s.total = MANAGER BY <1>8, <1>11, SizeTypes DEF Balanced
<1>13. m' = With(s, s.small, s.large, s.arrays, 0, 0, s.files)
  <2>1. s.heap - MANAGER = 0 /\ s.total - MANAGER = 0 BY <1>12, SizeTypes
  <2>2. m' = [s EXCEPT !.heap = 0, !.total = 0] BY <1>6, <2>1
  <2> QED BY <1>9, <2>2 DEF Managers, With
<1>14. /\ m' \in Managers /\ m'.heap = 0 /\ m'.total = 0 /\ m'.arrays = s.arrays /\ m'.files = s.files
  <2>1. /\ s.small \in [Pools -> Seq(Headers)] /\ s.large \in [Pools -> Seq(Headers)]
        /\ s.arrays \in Seq(ArrayRecs) /\ s.files \in SUBSET Int
    BY <1>9, ManagerFields
  <2>2. 0 \in Int OBVIOUS
  <2>3. Parts(m', s.small, s.large, s.arrays, 0, 0, s.files) BY <1>9, <1>13, <2>1, <2>2, WithParts, Zenon
  <2> QED BY <2>3 DEF Parts
<1>15. FilesOwned(m') BY <1>9, <1>14 DEF FilesOwned
<1>16. mode' = "destroyed" /\ strip' = <<>> BY DEF self_destruct
<1> QED BY <1>1, <1>9, <1>14, <1>15, <1>16 DEF IInv

\* What the steps of the manager come to.
Accessed ==
  \E a \in DOMAIN m.arrays :
    /\ mode = "ready" /\ m.arrays[a].realized
    /\ \/ Refused(a)
       \/ \E start_row \in Nat, num_rows \in Nat \ {0}, writable \in BOOLEAN :
            Granted(a, start_row, num_rows, writable)
RowWritten == mode = "ready" /\ \E a, r, d : Stored(a, r, d)

\* Accesses are refused or granted.
LEMMA AccessStep ==
  ASSUME IInv, NEW a \in DOMAIN m.arrays, NEW start_row \in 0 .. m.arrays[a].spec.rows - 1,
         NEW num_rows \in 1 .. m.arrays[a].spec.maxaccess, NEW writable \in BOOLEAN,
         \/ AccessVirtSarray(a, start_row, num_rows, writable)
         \/ AccessVirtBarray(a, start_row, num_rows, writable)
  PROVE  Accessed
<1>1. mode = "ready" /\ access_virt(a, start_row, num_rows, writable)
  BY DEF AccessVirtSarray, AccessVirtBarray
<1>2. m.arrays[a].realized /\ (Refused(a) \/ Granted(a, start_row, num_rows, writable))
  BY <1>1, AccessCases
<1>3. start_row \in Nat /\ num_rows \in Nat \ {0}
  OBVIOUS
<1> QED BY <1>1, <1>2, <1>3 DEF Accessed

\* Every step is one of these.
LEMMA StepCases ==
  ASSUME IInv, Next
  PROVE  Steady \/ Accessed \/ RowWritten \/ FreeImagePool \/ self_destruct
<1>1. ASSUME NEW p \in Pools, NEW size \in Objects, AllocSmall(p, size) \/ AllocLarge(p, size)
      PROVE  Steady
  BY <1>1, AllocSteady
<1>2. ASSUME NEW spec \in Arrays, RequestVirtSarray(spec) \/ RequestVirtBarray(spec)
      PROVE  Steady
  BY <1>2, RequestSteady DEF RequestVirtSarray, RequestVirtBarray, Requestable
<1>3. ASSUME NEW refused, RealizeVirtArrays(refused)
      PROVE  Steady
  BY <1>3, RealizeSteady
<1>4. ASSUME NEW a \in DOMAIN m.arrays, NEW start_row \in 0 .. m.arrays[a].spec.rows - 1,
             NEW num_rows \in 1 .. m.arrays[a].spec.maxaccess, NEW writable \in BOOLEAN,
             \/ AccessVirtSarray(a, start_row, num_rows, writable)
             \/ AccessVirtBarray(a, start_row, num_rows, writable)
      PROVE  Accessed
  BY <1>4, AccessStep
<1>5. ASSUME NEW a, NEW r, NEW d \in Data, WriteRow(a, r, d)
      PROVE  RowWritten
  BY <1>5, WriteStored DEF RowWritten, WriteRow
<1> QED BY <1>1, <1>2, <1>3, <1>4, <1>5 DEF Next

\* Every step keeps the invariant.
LEMMA NextHolds == IInv /\ [Next]_vars => IInv'
<1> SUFFICES ASSUME IInv, [Next]_vars PROVE IInv' OBVIOUS
<1>1. CASE Steady BY <1>1, SteadyHolds
<1>2. CASE Accessed
  <2>1. PICK a \in DOMAIN m.arrays :
          /\ mode = "ready" /\ m.arrays[a].realized
          /\ \/ Refused(a)
             \/ \E start_row \in Nat, num_rows \in Nat \ {0}, writable \in BOOLEAN :
                  Granted(a, start_row, num_rows, writable)
    BY <1>2 DEF Accessed
  <2>2. CASE Refused(a) BY <2>1, <2>2, RefusedHolds
  <2>3. ASSUME NEW start_row \in Nat, NEW num_rows \in Nat \ {0}, NEW writable \in BOOLEAN,
               Granted(a, start_row, num_rows, writable)
        PROVE  IInv'
    BY <2>1, <2>3, GrantedHolds
  <2> QED BY <2>1, <2>2, <2>3
<1>3. CASE RowWritten BY <1>3, StoredHolds DEF RowWritten
<1>4. CASE FreeImagePool BY <1>4, FreeHolds
<1>5. CASE self_destruct BY <1>5, DestroyHolds
<1>6. CASE UNCHANGED vars BY <1>6 DEF vars, IInv, FilesOwned, Balanced, Held
<1> QED BY <1>1, <1>2, <1>3, <1>4, <1>5, <1>6, StepCases

\* The invariant holds in every state of every behaviour.
LEMMA Invariance == Spec => []IInv
<1> QED BY InitHolds, NextHolds, PTL DEF Spec

\* The space the manager counts is what it has from malloc and has not freed, through
\* rounding, slop, calls that fail half way and the release of pools, for every size of
\* heap, pool and chunk; nothing is left after self_destruct.
THEOREM SpaceIsAccounted == Spec => []SpaceBalances
<1>1. IInv => SpaceBalances
  <2> SUFFICES ASSUME IInv PROVE SpaceBalances OBVIOUS
  <2>1. CASE mode # "destroyed"
    <3>1. m \in Managers /\ Balanced(m) BY <2>1 DEF IInv
    <3>2. /\ Bytes(m.small[PERMANENT]) \in Int /\ Bytes(m.small[IMAGE]) \in Int
          /\ Bytes(m.large[PERMANENT]) \in Int /\ Bytes(m.large[IMAGE]) \in Int
      BY <3>1, ManagerFields, BytesType DEF Pools
    <3> QED BY <2>1, <3>1, <3>2, SizeTypes DEF SpaceBalances, Balanced, Held
  <2>2. CASE mode = "destroyed" BY <2>2 DEF IInv, SpaceBalances
  <2> QED BY <2>1, <2>2
<1> QED BY <1>1, Invariance, PTL

\* A temporary file is open exactly for the arrays that will close it, also after
\* realize_virt_arrays failed between opening the file and getting the buffer.
THEOREM FilesAreOwned == Spec => []FilesHaveOwners
<1>1. IInv => FilesHaveOwners BY DEF IInv, FilesOwned, FilesHaveOwners
<1> QED BY <1>1, Invariance, PTL

\* A strip of an array that asked for zeros holds only data its callers wrote and zeros,
\* whichever strips were asked for, in whatever order, to read or to write.
THEOREM StripsWithoutNoise == Spec => []NoNoiseInStrips
<1>1. IInv => NoNoiseInStrips BY DEF IInv, StripOK, NoNoiseInStrips
<1> QED BY <1>1, Invariance, PTL

-------------------------------------------------------------------------------
(* The limit on the buffers.                                                      *)
LEMMA ProductGrows == \A x, y, z \in Nat : x <= y => x * z <= y * z
<1> SUFFICES ASSUME NEW x \in Nat, NEW y \in Nat, NEW z \in Nat, x <= y PROVE x * z <= y * z OBVIOUS
<1>1. y - x \in Nat OBVIOUS
<1>2. (y - x) * z >= 0 BY <1>1
<1>3. y * z = x * z + (y - x) * z OBVIOUS
<1>4. x * z \in Int /\ (y - x) * z \in Int /\ y * z \in Int OBVIOUS
<1> QED BY <1>2, <1>3, <1>4

\* Products and quotients of space.
LEMMA ProductAssociates == \A x, y, z \in Nat : (x * y) * z = x * (y * z)
OBVIOUS

LEMMA QuotientBelow == \A x \in Int, y \in Nat \ {0} : (x \div y) * y <= x
OBVIOUS

\* The memory the buffers take, when heights strips of each array may be in memory.
BufferSpace(s, rows) == OfUnrealized(s, [a \in DOMAIN s.arrays |-> rows[a] * Width(s, a)])

\* Buffers of bounded arrays are bounded together.
LEMMA SpaceBound ==
  ASSUME NEW s \in Managers, NEW c \in Nat, NEW rows, NEW most,
         \A a \in 1 .. Len(s.arrays) : ~ s.arrays[a].realized =>
           rows[a] \in Nat /\ most[a] \in Nat /\ rows[a] * Width(s, a) <= c * most[a]
  PROVE  BufferSpace(s, rows) <= c * OfUnrealized(s, most)
<1> DEFINE n == Len(s.arrays)
           f == [a \in DOMAIN s.arrays |-> rows[a] * Width(s, a)]
           p == [a \in DOMAIN s.arrays |-> IF s.arrays[a].realized THEN 0 ELSE f[a]]
           q == [a \in DOMAIN s.arrays |-> IF s.arrays[a].realized THEN 0 ELSE most[a]]
<1>1. n \in Nat /\ DOMAIN s.arrays = 1 .. n BY SpaceTypes
<1>2. ASSUME NEW a \in 1 .. n PROVE p[a] \in Int /\ q[a] \in Int /\ p[a] <= c * q[a]
  <2>1. CASE s.arrays[a].realized
    <3>1. p[a] = 0 /\ q[a] = 0 BY <1>1, <2>1
    <3>2. c * 0 = 0 OBVIOUS
    <3> HIDE DEF p, q
    <3> QED BY <3>1, <3>2
  <2>2. CASE ~ s.arrays[a].realized
    <3>1. p[a] = rows[a] * Width(s, a) /\ q[a] = most[a] BY <1>1, <2>2
    <3>2. rows[a] \in Int /\ Width(s, a) \in Int /\ most[a] \in Int BY <2>2, TermTypes
    <3>3. rows[a] * Width(s, a) \in Int BY <3>2, ProductType
    <3> HIDE DEF p, q
    <3> QED BY <2>2, <3>1, <3>2, <3>3
  <2> QED BY <2>1, <2>2
<1> HIDE DEF p, q
<1>3. SumTo(p, n) <= c * SumTo(q, n) BY <1>1, <1>2, SumBound
<1> QED BY <1>3 DEF BufferSpace, OfUnrealized, p, q

\* max_minheights allows no more strips than there is memory for, unless it allows one.
LEMMA BuffersFit ==
  ASSUME NEW s \in Managers, space_per_minheight(s) > 0, NEW rows,
         \A a \in 1 .. Len(s.arrays) : ~ s.arrays[a].realized =>
           rows[a] = BufferRows(s.arrays[a].spec, max_minheights(s))
  PROVE  BufferSpace(s, rows) <= jpeg_mem_available(s) \/ BufferSpace(s, rows) <= space_per_minheight(s)
<1> DEFINE heights == max_minheights(s)
           avail == jpeg_mem_available(s)
           least == space_per_minheight(s)
           all == maximum_space(s)
           strips == [a \in DOMAIN s.arrays |-> s.arrays[a].spec.maxaccess * Width(s, a)]
           whole == [a \in DOMAIN s.arrays |-> s.arrays[a].spec.rows * Width(s, a)]
           taken == BufferSpace(s, rows)
<1> SUFFICES taken <= avail \/ taken <= least OBVIOUS
<1>1. avail \in Int /\ least \in Nat \ {0} /\ all \in Nat /\ heights \in Nat \ {0}
      /\ DOMAIN s.arrays = 1 .. Len(s.arrays)
  BY SpaceTypes, HeightsType
<1>2. least = OfUnrealized(s, strips) /\ all = OfUnrealized(s, whole)
  BY DEF space_per_minheight, maximum_space
<1> HIDE DEF heights, avail, least, all, taken
<1>3. ASSUME NEW a \in 1 .. Len(s.arrays), ~ s.arrays[a].realized
      PROVE  /\ rows[a] \in Nat /\ strips[a] \in Nat /\ whole[a] \in Nat
             /\ rows[a] * Width(s, a) <= 1 * whole[a]
             /\ rows[a] * Width(s, a) <= heights * strips[a]
  <2> DEFINE spec == s.arrays[a].spec
             w == Width(s, a)
  <2>1. a \in DOMAIN s.arrays /\ w \in Nat /\ strips[a] \in Nat /\ whole[a] \in Nat
        /\ strips[a] = spec.maxaccess * w /\ whole[a] = spec.rows * w
    BY <1>1, TermTypes
  <2>2. spec \in Arrays BY <2>1, ArrayAt, ArrayFields
  <2>3. spec.rows \in Nat /\ spec.maxaccess \in Nat BY <2>2, SpecTypes
  <2> HIDE DEF strips, whole, w, spec
  <2>4. rows[a] \in Nat /\ rows[a] <= spec.rows /\ rows[a] <= heights * spec.maxaccess
    BY <1>1, <1>3, <2>2, BufferRowsType DEF heights, spec
  <2>5. heights * spec.maxaccess \in Nat BY <1>1, <2>3
  <2>6. rows[a] * w <= spec.rows * w BY <2>1, <2>3, <2>4, ProductGrows
  <2>7. rows[a] * w <= (heights * spec.maxaccess) * w BY <2>1, <2>4, <2>5, ProductGrows
  <2>8. (heights * spec.maxaccess) * w = heights * (spec.maxaccess * w) BY <1>1, <2>1, <2>3, ProductAssociates
  <2>9. 1 * whole[a] = whole[a] BY <2>1
  <2> QED BY <2>1, <2>4, <2>6, <2>7, <2>8, <2>9 DEF w
<1> HIDE DEF strips, whole
<1>4. taken <= 1 * all BY <1>2, <1>3, SpaceBound DEF taken
<1>5. taken <= heights * least BY <1>1, <1>2, <1>3, SpaceBound DEF taken
<1>6. taken \in Int
  <2>1. ASSUME NEW f, \A a \in 1 .. Len(s.arrays) : ~ s.arrays[a].realized => f[a] \in Nat
        PROVE  OfUnrealized(s, f) \in Nat
    <3> DEFINE g == [a \in DOMAIN s.arrays |-> IF s.arrays[a].realized THEN 0 ELSE f[a]]
    <3>1. \A a \in 1 .. Len(s.arrays) : g[a] \in Nat BY <1>1, <2>1
    <3> HIDE DEF g
    <3>2. SumTo(g, Len(s.arrays)) \in Nat BY SpaceTypes, <3>1, SumNatural
    <3> QED BY <3>2 DEF OfUnrealized, g
  <2> DEFINE f == [a \in DOMAIN s.arrays |-> rows[a] * Width(s, a)]
  <2>2. \A a \in 1 .. Len(s.arrays) : ~ s.arrays[a].realized => f[a] \in Nat
    <3>1. \A x, y \in Nat : x * y \in Nat OBVIOUS
    <3> QED BY <1>1, <1>3, <3>1, TermTypes
  <2>3. taken = OfUnrealized(s, f) BY DEF taken, BufferSpace
  <2> HIDE DEF f
  <2>4. OfUnrealized(s, f) \in Nat BY <2>1, <2>2
  <2> QED BY <2>3, <2>4
<1>7. CASE avail >= all BY <1>1, <1>4, <1>6, <1>7
<1>8. CASE ~ (avail >= all) /\ avail < least
  <2>1. heights = 1 BY <1>8 DEF heights, avail, all, least, max_minheights
  <2> QED BY <1>1, <1>5, <1>6, <2>1
<1>9. CASE ~ (avail >= all) /\ ~ (avail < least)
  <2>1. heights = avail \div least BY <1>9 DEF heights, avail, all, least, max_minheights
  <2>2. heights * least <= avail BY <1>1, <2>1, QuotientBelow
  <2>3. heights * least \in Int BY <1>1
  <2> QED BY <1>1, <1>5, <1>6, <2>2, <2>3
<1> QED BY <1>7, <1>8, <1>9

\* All steps but those of realize_virt_arrays leave the arrays that have no buffer without.
NoneRealized ==
  \A a \in DOMAIN m.arrays : a \in DOMAIN m'.arrays => m'.arrays[a].realized = m.arrays[a].realized

\* An allocation leaves the arrays.
LEMMA ArraysSame ==
  ASSUME IInv, NEW s, Kept(m, s), Outcome(s)
  PROVE  m'.arrays = m.arrays
<1>1. s \in Managers /\ s.arrays = m.arrays BY DEF Kept
<1> QED BY <1>1, OutcomeCleared DEF Cleared

\* Requests, accesses and writes realize no array.
LEMMA RequestRealizesNone ==
  ASSUME IInv, NEW spec \in Arrays, Outcome(request_virt(m, spec))
  PROVE  NoneRealized
<1> DEFINE t == alloc_small(m, IMAGE, CONTROL)
           arr == NewArray(spec)
           s == [t EXCEPT !.arrays = Append(@, arr)]
<1>1. Kept(m, t) BY SmallKeeps, SizeTypes DEF IInv, Pools
<1>2. request_virt(m, spec) = IF ~ t.ok THEN t ELSE s BY DEF request_virt, NewArray
<1> HIDE DEF t
<1>3. CASE ~ t.ok
  <2>1. Outcome(t) BY <1>2, <1>3
  <2>2. m'.arrays = m.arrays BY <1>1, <2>1, ArraysSame
  <2> QED BY <2>2 DEF NoneRealized
<1>4. CASE t.ok
  <2>1. t \in Managers /\ t.arrays = m.arrays BY <1>1 DEF Kept
  <2>2. arr \in ArrayRecs BY NewArrayType
  <2>3. m.arrays \in Seq(ArrayRecs) BY ManagerFields DEF IInv
  <2> HIDE DEF arr
  <2> DEFINE new == Append(m.arrays, arr)
  <2>4. new \in Seq(ArrayRecs) /\ \A a \in DOMAIN m.arrays : new[a] = m.arrays[a] BY <2>2, <2>3
  <2> HIDE DEF new
  <2>5. s = [t EXCEPT !.arrays = new] BY <2>1 DEF new
  <2>6. s \in Managers /\ s.arrays = new
    <3> HIDE DEF s
    <3> QED BY <2>1, <2>4, <2>5 DEF Managers
  <2>7. Outcome(s) BY <1>2, <1>4
  <2> HIDE DEF s
  <2>8. m'.arrays = new BY <2>6, <2>7, OutcomeCleared DEF Cleared
  <2> QED BY <2>4, <2>8 DEF NoneRealized
<1> QED BY <1>3, <1>4

LEMMA AccessRealizesNone ==
  ASSUME IInv, Accessed \/ RowWritten
  PROVE  NoneRealized
<1>1. ASSUME NEW a \in DOMAIN m.arrays, NEW new, Replaced(m, a, new, m'),
             new.realized = m.arrays[a].realized
      PROVE  NoneRealized
  BY <1>1 DEF Replaced, NoneRealized
<1>2. ASSUME NEW a \in DOMAIN m.arrays, Refused(a)
      PROVE  NoneRealized
  BY <1>1, <1>2 DEF Refused, Same, NoneRealized
<1>3. ASSUME NEW a \in DOMAIN m.arrays, NEW start_row, NEW num_rows, NEW writable,
             Granted(a, start_row, num_rows, writable)
      PROVE  NoneRealized
  BY <1>1, <1>3 DEF Granted, Shown
<1>4. ASSUME NEW a, NEW r, NEW d, Stored(a, r, d)
      PROVE  NoneRealized
  BY <1>1, <1>4 DEF Stored, Written, Same
<1> QED BY <1>2, <1>3, <1>4 DEF Accessed, RowWritten

\* realize_virt_arrays gives every array it realizes a buffer of BufferRows.
LEMMA RealizedTogether ==
  ASSUME IInv, NEW refused, RealizeVirtArrays(refused)
  PROVE  \/ NoneRealized
         \/ /\ space_per_minheight(m) > 0
            /\ \A a \in DOMAIN m.arrays : ~ m.arrays[a].realized /\ m'.arrays[a].realized =>
                 m'.arrays[a].rows_in_mem = BufferRows(m.arrays[a].spec, max_minheights(m))
<1> DEFINE s == realize_virt_arrays(m, refused)
           heights == max_minheights(m)
<1>1. m \in Managers /\ Outcome(s) BY DEF IInv, RealizeVirtArrays
<1>2. CASE space_per_minheight(m) <= 0
  <2>1. s = m BY <1>2 DEF realize_virt_arrays
  <2>2. m'.arrays = m.arrays BY <1>1, <2>1, KeptItself, ArraysSame
  <2> QED BY <2>2 DEF NoneRealized
<1>3. CASE ~ (space_per_minheight(m) <= 0)
  <2>1. Realizing(m, s, heights) BY <1>1, RealizeStep
  <2>2. space_per_minheight(m) > 0 BY <1>1, <1>3, SpaceTypes
  <2> HIDE DEF s, heights
  <2>3. m'.arrays = s.arrays BY <1>1, <2>1, OutcomeCleared DEF Realizing, Cleared
  <2>4. \A a \in DOMAIN m.arrays : ~ m.arrays[a].realized /\ m'.arrays[a].realized =>
          m'.arrays[a].rows_in_mem = BufferRows(m.arrays[a].spec, heights)
    BY <2>1, <2>3 DEF Realizing, Fresh
  <2> QED BY <2>2, <2>4 DEF heights
<1> QED BY <1>2, <1>3

\* The arrays go with the IMAGE pool.
LEMMA ArraysReleased ==
  ASSUME IInv, FreeImagePool \/ self_destruct
  PROVE  m'.arrays = <<>>
<1> DEFINE t == free_pool(m, IMAGE)
           u == free_pool(t, PERMANENT)
<1>1. m \in Managers /\ IMAGE \in Pools BY DEF IInv, Pools
<1>2. Emptied(m, IMAGE, t) BY <1>1, PoolEmptied
<1>3. t.arrays = <<>> /\ t \in Managers BY <1>2 DEF Emptied
<1>4. CASE FreeImagePool BY <1>3, <1>4 DEF FreeImagePool
<1>5. CASE self_destruct
  <2>1. PERMANENT \in Pools /\ PERMANENT # IMAGE BY DEF Pools, PERMANENT, IMAGE
  <2>2. m' = [u EXCEPT !.heap = @ - MANAGER, !.total = @ - MANAGER] BY <1>5 DEF self_destruct
  <2> HIDE DEF t
  <2>3. Emptied(t, PERMANENT, u) BY <1>3, <2>1, PoolEmptied
  <2>4. u.arrays = <<>> /\ u \in Managers BY <1>3, <2>1, <2>3 DEF Emptied
  <2> HIDE DEF u
  <2> QED BY <2>2, <2>4 DEF Managers
<1> QED BY <1>4, <1>5

\* A step that realizes all arrays keeps to the limit.
LEMMA LimitKept ==
  ASSUME IInv, Next, Unrealized(m) # {}, DOMAIN m'.arrays = DOMAIN m.arrays,
         \A a \in DOMAIN m'.arrays : m'.arrays[a].realized
  PROVE  LET taken == OfUnrealized(m, [a \in DOMAIN m.arrays |-> m'.arrays[a].rows_in_mem * Width(m, a)])
         IN taken <= jpeg_mem_available(m) \/ taken <= space_per_minheight(m)
<1>1. ~ NoneRealized BY DEF NoneRealized, Unrealized
<1>2. ASSUME NEW p \in Pools, NEW size \in Objects, AllocSmall(p, size) \/ AllocLarge(p, size)
      PROVE  NoneRealized
  <2>1. size \in Int /\ m \in Managers BY SizesAssumption DEF IInv
  <2>2. Kept(m, alloc_small(m, p, size)) /\ Kept(m, alloc_large(m, p, size)) BY <2>1, SmallKeeps, LargeKeeps
  <2>3. Outcome(alloc_small(m, p, size)) \/ Outcome(alloc_large(m, p, size))
    BY <1>2 DEF AllocSmall, AllocLarge
  <2>4. m'.arrays = m.arrays BY <2>2, <2>3, ArraysSame
  <2> QED BY <2>4 DEF NoneRealized
<1>3. ASSUME NEW spec \in Arrays, RequestVirtSarray(spec) \/ RequestVirtBarray(spec)
      PROVE  NoneRealized
  BY <1>3, RequestRealizesNone DEF RequestVirtSarray, RequestVirtBarray
<1>4. FreeImagePool \/ self_destruct => NoneRealized BY ArraysReleased DEF NoneRealized
<1>5. CASE Accessed \/ RowWritten BY <1>1, <1>5, AccessRealizesNone
<1>6. ASSUME NEW refused, RealizeVirtArrays(refused)
      PROVE  LET taken == OfUnrealized(m, [a \in DOMAIN m.arrays |-> m'.arrays[a].rows_in_mem * Width(m, a)])
             IN taken <= jpeg_mem_available(m) \/ taken <= space_per_minheight(m)
  <2> DEFINE rows == [a \in DOMAIN m.arrays |-> m'.arrays[a].rows_in_mem]
             taken == OfUnrealized(m, [a \in DOMAIN m.arrays |-> m'.arrays[a].rows_in_mem * Width(m, a)])
  <2>1. m \in Managers /\ DOMAIN m.arrays = 1 .. Len(m.arrays) BY SpaceTypes DEF IInv
  <2>2. /\ space_per_minheight(m) > 0
        /\ \A a \in DOMAIN m.arrays : ~ m.arrays[a].realized /\ m'.arrays[a].realized =>
             m'.arrays[a].rows_in_mem = BufferRows(m.arrays[a].spec, max_minheights(m))
    BY <1>1, <1>6, RealizedTogether
  <2>3. \A a \in 1 .. Len(m.arrays) : ~ m.arrays[a].realized =>
          rows[a] = BufferRows(m.arrays[a].spec, max_minheights(m))
    BY <2>1, <2>2
  <2>4. taken = BufferSpace(m, rows)
    <3>1. [a \in DOMAIN m.arrays |-> m'.arrays[a].rows_in_mem * Width(m, a)]
          = [a \in DOMAIN m.arrays |-> rows[a] * Width(m, a)]
      OBVIOUS
    <3> QED BY <3>1 DEF BufferSpace
  <2> HIDE DEF rows, taken
  <2>5. taken <= jpeg_mem_available(m) \/ taken <= space_per_minheight(m)
    BY <2>1, <2>2, <2>3, <2>4, BuffersFit
  <2> QED BY <2>5 DEF taken
<1>7. ASSUME NEW a \in DOMAIN m.arrays, NEW start_row \in 0 .. m.arrays[a].spec.rows - 1,
             NEW num_rows \in 1 .. m.arrays[a].spec.maxaccess, NEW writable \in BOOLEAN,
             \/ AccessVirtSarray(a, start_row, num_rows, writable)
             \/ AccessVirtBarray(a, start_row, num_rows, writable)
      PROVE  Accessed
  BY <1>7, AccessStep
<1>8. ASSUME NEW a, NEW r, NEW d \in Data, WriteRow(a, r, d)
      PROVE  RowWritten
  BY <1>8, WriteStored DEF RowWritten, WriteRow
<1> QED BY <1>1, <1>2, <1>3, <1>4, <1>5, <1>6, <1>7, <1>8 DEF Next

\* Whenever a call realizes all arrays that had no buffer, the buffers take no more than
\* jpeg_mem_available left for them, unless one strip of each takes more.
THEOREM BuffersStayWithinLimit == Spec => BuffersWithinLimit
<1>1. IInv /\ [Next]_vars =>
        [/\ Unrealized(m) # {} /\ DOMAIN m'.arrays = DOMAIN m.arrays
         /\ \A a \in DOMAIN m'.arrays : m'.arrays[a].realized
         => LET taken == OfUnrealized(m, [a \in DOMAIN m.arrays |-> m'.arrays[a].rows_in_mem * Width(m, a)])
            IN taken <= jpeg_mem_available(m) \/ taken <= space_per_minheight(m)]_vars
  BY LimitKept
<1> QED BY <1>1, Invariance, PTL DEF Spec, BuffersWithinLimit

-------------------------------------------------------------------------------
(* The arrays of the manager are the arrays of VirtualArrays.                     *)
RowsOf(s, a) ==
  IF a \in DOMAIN s.arrays /\ s.arrays[a].realized
  THEN [r \in 0 .. s.arrays[a].first_undef_row - 1 |-> RowOf(s.arrays[a], r)] ELSE <<>>
ViewOf(s, st, a) ==
  IF a \in DOMAIN st
  THEN [rows |-> [r \in st[a].start .. st[a].start + st[a].rows - 1 |-> RowOf(s.arrays[a], r)],
        writable |-> st[a].writable]
  ELSE [rows |-> <<>>, writable |-> FALSE]
Ids == 1 .. MaxArrays

\* The refinement mapping, array by array.
LEMMA Abstract ==
  /\ contents = [a \in Ids |-> RowsOf(m, a)] /\ contents' = [a \in Ids |-> RowsOf(m', a)]
  /\ view = [a \in Ids |-> ViewOf(m, strip, a)] /\ view' = [a \in Ids |-> ViewOf(m', strip', a)]
BY DEF contents, view, RowsOf, ViewOf, Ids, Realized

\* No arrays, no rows; no strips, no views.
LEMMA NothingShown ==
  /\ m'.arrays = <<>> => contents' = VA!Nothing
  /\ strip' = <<>> => view' = VA!NoViews
<1>1. m'.arrays = <<>> => \A a \in Ids : RowsOf(m', a) = <<>> BY DEF RowsOf
<1>2. strip' = <<>> => \A a \in Ids : ViewOf(m', strip', a) = [rows |-> <<>>, writable |-> FALSE]
  BY DEF ViewOf
<1>3. VA!Nothing = [a \in Ids |-> <<>>] /\ VA!NoViews = [a \in Ids |-> [rows |-> <<>>, writable |-> FALSE]]
  BY DEF VA!Nothing, VA!NoViews, VA!NoView, Ids
<1> QED BY <1>1, <1>2, <1>3, Abstract

\* Requests, realizing and allocations change no row; when one fails the strips are gone.
LEMMA SteadyRefines ==
  ASSUME IInv, Steady
  PROVE  VA!Fail \/ UNCHANGED <<contents, view>>
<1>1. \A a \in DOMAIN m.arrays : a \in DOMAIN m'.arrays
  <2>1. m \in Managers /\ m' \in Managers BY DEF IInv, Steady
  <2>2. /\ DOMAIN m.arrays = 1 .. Len(m.arrays) /\ DOMAIN m'.arrays = 1 .. Len(m'.arrays)
        /\ Len(m.arrays) \in Nat /\ Len(m'.arrays) \in Nat
    BY <2>1, SpaceTypes
  <2> QED BY <2>2 DEF Steady
<1>2. ASSUME NEW a \in Ids PROVE RowsOf(m', a) = RowsOf(m, a)
  <2>1. CASE a \in DOMAIN m.arrays /\ m.arrays[a].realized
    BY <1>1, <2>1 DEF RowsOf, Steady
  <2>2. CASE ~ (a \in DOMAIN m.arrays /\ m.arrays[a].realized)
    <3>1. RowsOf(m, a) = <<>> BY <2>2 DEF RowsOf
    <3>2. CASE a \in DOMAIN m'.arrays /\ m'.arrays[a].realized
      <4>1. m'.arrays[a].first_undef_row = 0 BY <2>2, <3>2 DEF Steady
      <4>2. RowsOf(m', a) = [r \in 0 .. 0 - 1 |-> RowOf(m'.arrays[a], r)] BY <3>2, <4>1 DEF RowsOf
      <4> QED BY <3>1, <4>2
    <3>3. CASE ~ (a \in DOMAIN m'.arrays /\ m'.arrays[a].realized)
      BY <3>1, <3>3 DEF RowsOf
    <3> QED BY <3>2, <3>3
  <2> QED BY <2>1, <2>2
<1>3. contents' = contents BY <1>2, Abstract
<1>4. CASE strip' = <<>> BY <1>3, <1>4, NothingShown DEF VA!Fail
<1>5. CASE strip' = strip
  <2>1. \A a \in DOMAIN strip : m'.arrays[a] = m.arrays[a] BY DEF IInv, StripOK, Steady
  <2>2. \A a \in Ids : ViewOf(m', strip', a) = ViewOf(m, strip, a) BY <1>5, <2>1 DEF ViewOf
  <2>3. view' = view BY <2>2, Abstract
  <2> QED BY <1>3, <2>3
<1> QED BY <1>4, <1>5 DEF Steady

\* A refused access changes no row, though it may have moved the window.
LEMMA RefusedRefines ==
  ASSUME IInv, NEW a \in DOMAIN m.arrays, Refused(a)
  PROVE  VA!Fail
<1>1. CASE m' = m BY <1>1, NothingShown, Abstract DEF Refused, VA!Fail
<1>2. ASSUME NEW new, Replaced(m, a, new, m'), Same(m.arrays[a], new),
             \A r \in 0 .. m.arrays[a].first_undef_row - 1 : RowOf(new, r) = RowOf(m.arrays[a], r)
      PROVE  VA!Fail
  <2>1. \A b \in Ids : RowsOf(m', b) = RowsOf(m, b)
    <3> TAKE b \in Ids
    <3>1. CASE b # a BY <1>2, <3>1 DEF Replaced, RowsOf
    <3>2. CASE b = a
      <4>1. m'.arrays[a] = new /\ DOMAIN m'.arrays = DOMAIN m.arrays BY <1>2 DEF Replaced
      <4>2. new.realized = m.arrays[a].realized /\ new.first_undef_row = m.arrays[a].first_undef_row
        BY <1>2 DEF Same
      <4> QED BY <1>2, <3>2, <4>1, <4>2 DEF RowsOf
    <3> QED BY <3>1, <3>2
  <2> QED BY <2>1, NothingShown, Abstract DEF Refused, VA!Fail
<1> QED BY <1>1, <1>2 DEF Refused

\* No array is higher than the highest of Arrays.
MaxRows == Max({s.rows : s \in Arrays})
LEMMA Highest == MaxRows \in Nat /\ \A s \in Arrays : s.rows <= MaxRows
<1> DEFINE heights == {s.rows : s \in Arrays}
<1>1. PICK s \in Arrays : \A t \in Arrays : s.rows >= t.rows BY ArraysAssumption
<1>2. \A t \in Arrays : t.rows \in Nat BY SpecTypes
<1>3. \E x \in heights : \A y \in heights : x >= y BY <1>1
<1>4. MaxRows \in heights /\ \A y \in heights : MaxRows >= y BY <1>3, Zenon DEF MaxRows, Max
<1>5. \A y \in heights : y \in Nat BY <1>2
<1>6. \A t \in Arrays : t.rows \in heights OBVIOUS
<1> HIDE DEF heights
<1> QED BY <1>2, <1>4, <1>5, <1>6

\* The conditions of Access and Store, with the rows and strips of the manager in them.
LEMMA GrantedRefines ==
  ASSUME IInv, NEW a \in DOMAIN m.arrays, m.arrays[a].realized,
         NEW start_row \in Nat, NEW num_rows \in Nat \ {0}, NEW writable \in BOOLEAN,
         Granted(a, start_row, num_rows, writable)
  PROVE  VA!ANext
<1> DEFINE arr == m.arrays[a]
           end_row == start_row + num_rows
           last == end_row - 1
           f == arr.first_undef_row
<1>1. PICK new : /\ Replaced(m, a, new, m') /\ m'.files = m.files
                 /\ Shown(arr, new, start_row, end_row, writable)
  BY DEF Granted
<1>2. /\ m \in Managers /\ arr \in ArrayRecs /\ a \in 1 .. Len(m.arrays) /\ Len(m.arrays) \in Nat
      /\ Len(m.arrays) <= MaxArrays /\ MaxArrays \in Nat
  BY ArrayAt, ArraysAssumption DEF IInv
<1>3. a \in Ids BY <1>2 DEF Ids
<1>4. f \in Nat /\ arr.spec \in Arrays
  <2>1. WindowOK(arr) BY DEF IInv, ArrayOK
  <2> QED BY <1>2, <2>1, ArrayFields, SpecTypes DEF WindowOK
<1>5. end_row \in Nat /\ end_row <= MaxRows /\ MaxRows \in Nat /\ last \in Nat /\ start_row <= last
  <2>1. end_row <= arr.spec.rows BY DEF Granted, Strip
  <2>2. arr.spec.rows <= MaxRows /\ arr.spec.rows \in Nat /\ MaxRows \in Nat BY <1>4, Highest, SpecTypes
  <2> HIDE DEF arr
  <2> QED BY <2>1, <2>2
<1>6. m'.arrays[a] = new /\ DOMAIN m'.arrays = DOMAIN m.arrays
      /\ \A b \in DOMAIN m.arrays \ {a} : m'.arrays[b] = m.arrays[b]
  BY <1>1 DEF Replaced
<1> DEFINE strips == [r \in start_row .. last |-> RowOf(new, r)]
           rows == [r \in 0 .. f - 1 |-> RowOf(arr, r)]
           newf == new.first_undef_row
           newrows == [r \in 0 .. newf - 1 |-> RowOf(new, r)]
<1>7. contents[a] = rows
  <2>1. RowsOf(m, a) = rows BY DEF RowsOf
  <2> QED BY <1>3, <2>1, Abstract
<1>8. contents'[a] = newrows
  <2>1. new.realized BY <1>1 DEF Shown
  <2>2. RowsOf(m', a) = newrows BY <1>6, <2>1 DEF RowsOf
  <2> QED BY <1>3, <2>2, Abstract
<1>9. view'[a] = [rows |-> strips, writable |-> writable]
  <2>1. a \in DOMAIN strip' /\ strip'[a] = [start |-> start_row, rows |-> num_rows, writable |-> writable]
    BY DEF Granted
  <2>2. ViewOf(m', strip', a) = [rows |-> strips, writable |-> writable]
    BY <1>6, <2>1 DEF ViewOf
  <2> QED BY <1>3, <2>2, Abstract
<1>10. /\ writable => start_row <= f
       /\ newf = IF writable /\ f < end_row THEN end_row ELSE f
       /\ \A r \in 0 .. f - 1 : RowOf(new, r) = RowOf(arr, r)
       /\ \A r \in start_row .. last : r >= f /\ ~ writable => RowOf(new, r) = Zero
  BY <1>1 DEF Shown
<1>11. \A b \in Ids \ {a} : RowsOf(m', b) = RowsOf(m, b) /\ ViewOf(m', strip', b) = ViewOf(m, strip, b)
  <2> TAKE b \in Ids \ {a}
  <2>1. RowsOf(m', b) = RowsOf(m, b) BY <1>6 DEF RowsOf
  <2>2. (b \in DOMAIN strip' <=> b \in DOMAIN strip) /\ (b \in DOMAIN strip => strip'[b] = strip[b])
    BY DEF Granted
  <2>3. b \in DOMAIN strip => m'.arrays[b] = m.arrays[b] BY <1>6 DEF IInv
  <2> QED BY <2>1, <2>2, <2>3 DEF ViewOf
<1>12. view' = [view EXCEPT ![a] = view'[a]] BY <1>3, <1>11, Abstract
<1>13. contents' = [contents EXCEPT ![a] = contents'[a]] BY <1>3, <1>11, Abstract
<1> HIDE DEF arr, end_row, f, newf
<1> DEFINE defined == DOMAIN contents[a]
<1>14. defined = 0 .. f - 1 BY <1>7
<1>15. VA!Access(a, start_row, last, writable) => VA!ANext
  <2>1. a \in 1 .. MaxArrays BY <1>3 DEF Ids
  <2>2. start_row \in 0 .. MaxRows - 1 /\ last \in 0 .. MaxRows - 1 BY <1>5 DEF end_row
  <2>3. writable \in BOOLEAN OBVIOUS
  <2> HIDE DEF last
  <2> QED BY <2>1, <2>2, <2>3, Zenon DEF VA!ANext, MaxRows
<1>16. CASE writable
  <2>1. f <= newf /\ end_row <= newf /\ newf \in Nat /\ (newf = f \/ newf = end_row) /\ start_row <= f
    BY <1>4, <1>5, <1>10, <1>16
  <2>2. 0 .. newf - 1 = defined \cup start_row .. last
    BY <1>4, <1>5, <1>14, <2>1 DEF end_row
  <2>3. newrows = [r \in defined \cup start_row .. last |->
                     IF r \in start_row .. last THEN strips[r] ELSE contents[a][r]]
    <3>1. \A r \in defined : contents[a][r] = RowOf(new, r) BY <1>7, <1>10, <1>14
    <3> HIDE DEF defined
    <3> QED BY <2>2, <3>1
  <2>4. contents' = [contents EXCEPT ![a] = [r \in defined \cup start_row .. last |->
                       IF r \in start_row .. last THEN view'[a].rows[r] ELSE contents[a][r]]]
    <3>1. view'[a].rows = strips BY <1>9
    <3> HIDE DEF strips, newrows, defined
    <3> QED BY <1>8, <1>13, <2>3, <3>1
  <2>5. 0 .. start_row - 1 \subseteq defined BY <1>4, <1>14, <2>1
  <2>6. VA!Access(a, start_row, last, writable)
    <3>1. DOMAIN view'[a].rows = start_row .. last /\ view'[a].writable = writable BY <1>9
    <3>2. \A r \in (start_row .. last) \cap defined : view'[a].rows[r] = contents[a][r]
      BY <1>7, <1>9, <1>10, <1>14
    <3> HIDE DEF defined, last
    <3> QED BY <1>5, <1>12, <1>16, <2>4, <2>5, <3>1, <3>2 DEF VA!Access, defined
  <2> QED BY <2>6, <1>15, Zenon
<1>17. CASE ~ writable
  <2>1. newf = f BY <1>10, <1>17
  <2>2. newrows = rows BY <1>10, <2>1
  <2>3. contents' = contents
    <3>1. RowsOf(m', a) = RowsOf(m, a) BY <1>3, <1>7, <1>8, <2>2, Abstract
    <3> QED BY <1>11, <3>1, Abstract
  <2>4. VA!Access(a, start_row, last, writable)
    <3>1. DOMAIN view'[a].rows = start_row .. last /\ view'[a].writable = writable BY <1>9
    <3>2. \A r \in (start_row .. last) \cap defined : view'[a].rows[r] = contents[a][r]
      BY <1>7, <1>9, <1>10, <1>14
    <3>3. \A r \in (start_row .. last) \ defined : view'[a].rows[r] = Zero
      BY <1>4, <1>5, <1>9, <1>10, <1>14, <1>17
    <3> HIDE DEF defined, last
    <3> QED BY <1>5, <1>12, <1>17, <2>3, <3>1, <3>2, <3>3 DEF VA!Access, defined
  <2> QED BY <2>4, <1>15, Zenon
<1> QED BY <1>16, <1>17

\* Writing a row stores it, in the strip and in the array.
LEMMA StoredRefines ==
  ASSUME IInv, RowWritten
  PROVE  VA!ANext
<1>1. PICK a, r, d : Stored(a, r, d) BY DEF RowWritten
<1> DEFINE arr == m.arrays[a]
           st == strip[a]
           f == arr.first_undef_row
<1>2. PICK new : Replaced(m, a, new, m') /\ m'.files = m.files /\ Written(arr, new, r, d)
  BY <1>1 DEF Stored
<1>3. /\ a \in DOMAIN m.arrays /\ a \in DOMAIN strip /\ st.writable /\ d \in Data /\ strip' = strip
      /\ r \in st.start .. st.start + st.rows - 1 /\ r \in 0 .. f - 1
  BY <1>1 DEF Stored
<1>4. /\ m \in Managers /\ arr \in ArrayRecs /\ a \in 1 .. Len(m.arrays) /\ Len(m.arrays) \in Nat
      /\ Len(m.arrays) <= MaxArrays /\ MaxArrays \in Nat /\ StripOK(arr, st) /\ ArrayOK(arr)
  BY <1>3, ArrayAt, ArraysAssumption DEF IInv
<1>5. a \in Ids BY <1>4 DEF Ids
<1>6. arr.realized /\ st.start \in Nat /\ st.rows \in Nat /\ WindowOK(arr) BY <1>4 DEF StripOK, ArrayOK
<1>7. r \in 0 .. MaxRows - 1
  <2>1. arr.spec \in Arrays /\ f \in Int BY <1>4, ArrayFields
  <2>2. arr.spec.rows \in Nat /\ arr.spec.rows <= MaxRows /\ MaxRows \in Nat BY <2>1, SpecTypes, Highest
  <2>3. f <= arr.spec.rows BY <1>6 DEF WindowOK
  <2> HIDE DEF arr, f
  <2> QED BY <1>3, <2>1, <2>2, <2>3
<1>8. m'.arrays[a] = new /\ DOMAIN m'.arrays = DOMAIN m.arrays
      /\ \A b \in DOMAIN m.arrays \ {a} : m'.arrays[b] = m.arrays[b]
  BY <1>2 DEF Replaced
<1>9. new.first_undef_row = f /\ new.realized /\ RowOf(new, r) = d
      /\ \A q \in Int : q # r => RowOf(new, q) = RowOf(arr, q)
  BY <1>2, <1>6 DEF Written, Same
<1> DEFINE shown == [q \in st.start .. st.start + st.rows - 1 |-> RowOf(arr, q)]
           newshown == [q \in st.start .. st.start + st.rows - 1 |-> RowOf(new, q)]
           rows == [q \in 0 .. f - 1 |-> RowOf(arr, q)]
           newrows == [q \in 0 .. f - 1 |-> RowOf(new, q)]
<1>10. contents[a] = rows /\ contents'[a] = newrows
  <2>1. RowsOf(m, a) = rows BY <1>3, <1>6 DEF RowsOf
  <2>2. RowsOf(m', a) = newrows BY <1>3, <1>8, <1>9 DEF RowsOf
  <2> QED BY <1>5, <2>1, <2>2, Abstract
<1>11. /\ view[a] = [rows |-> shown, writable |-> st.writable]
       /\ view'[a] = [rows |-> newshown, writable |-> st.writable]
  <2>1. ViewOf(m, strip, a) = [rows |-> shown, writable |-> st.writable] BY <1>3 DEF ViewOf
  <2>2. ViewOf(m', strip', a) = [rows |-> newshown, writable |-> st.writable] BY <1>3, <1>8 DEF ViewOf
  <2> QED BY <1>5, <2>1, <2>2, Abstract
<1>12. \A b \in Ids \ {a} : RowsOf(m', b) = RowsOf(m, b) /\ ViewOf(m', strip', b) = ViewOf(m, strip, b)
  <2> TAKE b \in Ids \ {a}
  <2>1. RowsOf(m', b) = RowsOf(m, b)
    <3> HIDE DEF shown, newshown, rows, newrows, arr, st, f
    <3>1. DOMAIN m'.arrays = DOMAIN m.arrays BY <1>8
    <3>2. b \in DOMAIN m.arrays => m'.arrays[b] = m.arrays[b] BY <1>8
    <3> QED BY <3>1, <3>2, Zenon DEF RowsOf
  <2>2. b \in DOMAIN strip => m'.arrays[b] = m.arrays[b] BY <1>8 DEF IInv
  <2> QED BY <1>3, <2>1, <2>2 DEF ViewOf
<1>13. newshown = [shown EXCEPT ![r] = d]
  <2>1. \A q \in st.start .. st.start + st.rows - 1 : q \in Int BY <1>6
  <2> HIDE DEF st, arr
  <2> QED BY <1>9, <2>1
<1>14. newrows = [rows EXCEPT ![r] = d]
  <2>1. \A q \in 0 .. f - 1 : q \in Int OBVIOUS
  <2> HIDE DEF arr, f
  <2> QED BY <1>9, <2>1
<1>15. contents' = [contents EXCEPT ![a][r] = d]
  <2>1. contents' = [contents EXCEPT ![a] = contents'[a]] BY <1>5, <1>12, Abstract
  <2>2. DOMAIN contents = Ids BY Abstract
  <2> HIDE DEF rows, newrows
  <2> QED BY <1>5, <1>10, <1>14, <2>1, <2>2
<1>16. view' = [view EXCEPT ![a].rows[r] = d]
  <2>1. view' = [view EXCEPT ![a] = view'[a]] BY <1>5, <1>12, Abstract
  <2>2. DOMAIN view = Ids BY Abstract
  <2> HIDE DEF shown, newshown, st
  <2>3. view'[a] = [view[a] EXCEPT !.rows = [shown EXCEPT ![r] = d]] BY <1>11, <1>13
  <2>4. view[a].rows = shown BY <1>11
  <2> QED BY <1>5, <2>1, <2>2, <2>3, <2>4
<1>17. view[a].writable /\ r \in DOMAIN view[a].rows BY <1>3, <1>11
<1>18. VA!Store(a, r, d) BY <1>15, <1>16, <1>17 DEF VA!Store
<1>19. a \in 1 .. MaxArrays /\ d \in Data BY <1>3, <1>5 DEF Ids
<1> QED BY <1>7, <1>18, <1>19, Zenon DEF VA!ANext, MaxRows

\* The end of an image releases the arrays.
LEMMA ReleasedRefines ==
  ASSUME IInv, FreeImagePool \/ self_destruct
  PROVE  VA!Release
<1>1. m'.arrays = <<>> BY ArraysReleased
<1>2. strip' = <<>> BY DEF FreeImagePool, self_destruct
<1> QED BY <1>1, <1>2, NothingShown DEF VA!Release

\* The strip buffer and the temporary file together implement VirtualArrays: every row is
\* read as it was last written, however the window moves, for any arrays, memory and files.
THEOREM ArraysStayWhole == Spec => ArraysAreWhole
<1>1. Init => VA!AInit
  <2> SUFFICES ASSUME Init PROVE VA!AInit OBVIOUS
  <2>1. m.arrays = <<>> /\ strip = <<>> BY DEF Init
  <2>2. \A a \in Ids : RowsOf(m, a) = <<>> /\ ViewOf(m, strip, a) = [rows |-> <<>>, writable |-> FALSE]
    BY <2>1 DEF RowsOf, ViewOf
  <2> QED BY <2>2, Abstract DEF VA!AInit, VA!Nothing, VA!NoViews, VA!NoView, Ids
<1>2. IInv /\ [Next]_vars => [VA!ANext]_<<contents, view>>
  <2> SUFFICES ASSUME IInv, [Next]_vars PROVE VA!ANext \/ UNCHANGED <<contents, view>> OBVIOUS
  <2>1. CASE Steady BY <2>1, SteadyRefines DEF VA!ANext
  <2>2. CASE Accessed BY <2>2, RefusedRefines, GrantedRefines DEF Accessed, VA!ANext
  <2>3. CASE RowWritten BY <2>3, StoredRefines
  <2>4. CASE FreeImagePool \/ self_destruct BY <2>4, ReleasedRefines DEF VA!ANext
  <2>5. CASE UNCHANGED vars
    <3>1. m' = m /\ strip' = strip BY <2>5 DEF vars
    <3> QED BY <3>1, Abstract
  <2> QED BY <2>1, <2>2, <2>3, <2>4, <2>5, StepCases
<1> QED BY <1>1, <1>2, Invariance, PTL DEF Spec, ArraysAreWhole, VA!ASpec, VA!avars
=================================================================================
