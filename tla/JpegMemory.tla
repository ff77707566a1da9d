------------------------------- MODULE JpegMemory -------------------------------
(* libjpeg's memory manager, jpeg-8c/jmemmgr.c, over malloc and temporary files   *)
(* as in jmemansi.c: two pools of small and large objects, and virtual arrays     *)
(* whose rows are partly in a strip buffer and partly in a temporary file.        *)
(*                                                                                *)
(* One action per method of jpeg_memory_mgr.  The data of an array are a datum    *)
(* per row.  malloc fails when HeapSize is used up and the system may refuse a    *)
(* temporary file; a failed call is error_exit, after which the application can   *)
(* only abort (free_pool of the IMAGE pool) or destroy.                           *)
EXTENDS Integers, Sequences, FiniteSetsExt

CONSTANTS Data, Zero, Noise,      \* contents of rows
          Arrays,                 \* arrays to request: [kind, pre_zero, width, rows, maxaccess]
          MaxArrays,              \* bound: arrays at a time, each different
          Objects, MaxPools,      \* sizes of objects to allocate; bound: pools an object is allocated in
          HeapSize,               \* what malloc can give
          MaxMemory,              \* max_memory_to_use
          MAX_ALLOC_CHUNK, HEADER, ALIGN, MIN_SLOP,
          first_pool_slop, extra_pool_slop,    \* [pool -> size]
          CONTROL, POINTER, MANAGER            \* sizes of control blocks

PERMANENT == 0
IMAGE == 1
Pools == {PERMANENT, IMAGE}

ASSUME SizesAssumption ==
  /\ {HEADER, ALIGN, MIN_SLOP, CONTROL, POINTER, MANAGER} \subseteq Nat \ {0}
  /\ MAX_ALLOC_CHUNK \in Nat /\ MAX_ALLOC_CHUNK % ALIGN = 0 /\ HEADER % ALIGN = 0
  /\ HeapSize \in Nat /\ MaxMemory \in Int /\ Objects \subseteq Nat /\ MaxPools \in Nat
  /\ \A p \in Pools : /\ first_pool_slop[p] \in Nat /\ first_pool_slop[p] \div 512 < MIN_SLOP
                      /\ extra_pool_slop[p] \in Nat /\ extra_pool_slop[p] \div 512 < MIN_SLOP

\* An array has rows, columns and strips; the arrays of one image are of limited height.
ASSUME ArraysAssumption ==
  /\ Arrays \subseteq [kind : {"s", "b"}, pre_zero : BOOLEAN, width : Nat \ {0},
                       rows : Nat \ {0}, maxaccess : Nat \ {0}]
  /\ MaxArrays \in Nat
  /\ \E s \in Arrays : \A t \in Arrays : s.rows >= t.rows

VARIABLES mode,      \* "ready" | "failed" (error_exit was called) | "destroyed"
          m,         \* the manager and its system, a record (below)
          strip      \* [array -> [start, rows, writable]]: the strips callers have
vars == <<mode, m, strip>>

(* m: small, large    [pool -> sequence of headers [used, left]]                  *)
(*    arrays          the virtual arrays, in the order they were requested        *)
(*    total           total_space_allocated                                       *)
(*    heap            bytes obtained from malloc and not freed                    *)
(*    files           arrays whose temporary file is open                         *)
(*    ok              no call inside the current one has failed                   *)

RoundUp(size) == IF size % ALIGN = 0 THEN size ELSE size + (ALIGN - (size % ALIGN))
Fits(s, size) == s.heap + size <= HeapSize
Failed(s) == [s EXCEPT !.ok = FALSE]
Least(a, b) == IF a <= b THEN a ELSE b
SumTo(f, n) ==
  LET sum[i \in Nat] == IF i = 0 THEN 0 ELSE sum[i - 1] + f[i] IN sum[n]

-------------------------------------------------------------------------------
(* Pools                                                                          *)
\* The slop of a new pool: halved until malloc agrees, given up when below MIN_SLOP
\* (SizesAssumption: nine halvings get every slop there).
Halvings == {1, 2, 4, 8, 16, 32, 64, 128, 256}
WantedSlop(s, pool, min_request) ==
  Least(IF s.small[pool] = <<>> THEN first_pool_slop[pool] ELSE extra_pool_slop[pool],
        MAX_ALLOC_CHUNK - min_request)
Slops(s, pool, min_request) ==
  {d \in Halvings : LET slop == WantedSlop(s, pool, min_request) \div d
                    IN Fits(s, min_request + slop) /\ (d = 1 \/ slop >= MIN_SLOP)}
FirstSlop(s, pool, min_request) ==
  WantedSlop(s, pool, min_request) \div Min(Slops(s, pool, min_request))

alloc_small(s, pool, sizeofobject) ==
  LET size == RoundUp(sizeofobject)
      roomy == {i \in DOMAIN s.small[pool] : s.small[pool][i].left >= size}
      min_request == size + HEADER
      slop == FirstSlop(s, pool, min_request)
  IN CASE ~ s.ok -> s
       [] s.ok /\ sizeofobject > MAX_ALLOC_CHUNK - HEADER -> Failed(s)
       [] s.ok /\ sizeofobject <= MAX_ALLOC_CHUNK - HEADER /\ roomy # {} ->
            [s EXCEPT !.small[pool][Min(roomy)] = [used |-> @.used + size, left |-> @.left - size]]
       [] s.ok /\ sizeofobject <= MAX_ALLOC_CHUNK - HEADER /\ roomy = {} ->
            IF Slops(s, pool, min_request) = {} THEN Failed(s)
            ELSE [s EXCEPT !.heap = @ + min_request + slop, !.total = @ + min_request + slop,
                           !.small[pool] = Append(@, [used |-> size, left |-> slop])]

\* Mutant: the header is not counted.
alloc_large_HeaderUncounted(s, pool, sizeofobject) ==
  LET size == RoundUp(sizeofobject)
  IN IF ~ s.ok THEN s
     ELSE IF sizeofobject > MAX_ALLOC_CHUNK - HEADER \/ ~ Fits(s, size + HEADER) THEN Failed(s)
     ELSE [s EXCEPT !.heap = @ + size + HEADER, !.total = @ + size,
                    !.large[pool] = <<[used |-> size, left |-> 0]>> \o @]

alloc_large(s, pool, sizeofobject) ==
  LET size == RoundUp(sizeofobject)
  IN IF ~ s.ok THEN s
     ELSE IF sizeofobject > MAX_ALLOC_CHUNK - HEADER \/ ~ Fits(s, size + HEADER) THEN Failed(s)
     ELSE [s EXCEPT !.heap = @ + size + HEADER, !.total = @ + size + HEADER,
                    !.large[pool] = <<[used |-> size, left |-> 0]>> \o @]

\* Rows are allocated in chunks of as many rows as one allocation may hold.
RowsPerChunk(width, numrows) == Least((MAX_ALLOC_CHUNK - HEADER) \div width, numrows)

AllocRows(s, pool, width, numrows) ==
  LET rowsperchunk == RowsPerChunk(width, numrows)
      chunks == (numrows + rowsperchunk - 1) \div rowsperchunk
      after[i \in 0 .. chunks] ==
        IF i = 0 THEN alloc_small(s, pool, numrows * POINTER)
        ELSE alloc_large(after[i - 1], pool, Least(rowsperchunk, numrows - (i - 1) * rowsperchunk) * width)
  IN IF rowsperchunk <= 0 THEN Failed(s) ELSE after[chunks]
alloc_sarray(s, pool, samplesperrow, numrows) == AllocRows(s, pool, samplesperrow, numrows)
alloc_barray(s, pool, blocksperrow, numrows) == AllocRows(s, pool, blocksperrow, numrows)

-------------------------------------------------------------------------------
(* Virtual arrays.  width is in bytes.  buffer[i] is the datum of row             *)
(* cur_start_row + i, file[r] that of row r in the temporary file.                *)
request_virt(s, spec) ==
  LET t == alloc_small(s, IMAGE, CONTROL)
  IN IF ~ t.ok THEN t
     ELSE [t EXCEPT !.arrays = Append(@,
            [spec |-> spec, realized |-> FALSE, b_s_open |-> FALSE, rows_in_mem |-> 0,
             rowsperchunk |-> 0, cur_start_row |-> 0, first_undef_row |-> 0, dirty |-> FALSE,
             buffer |-> <<>>, file |-> <<>>])]

Unrealized(s) == {a \in DOMAIN s.arrays : ~ s.arrays[a].realized}
Width(s, a) == s.arrays[a].spec.width
OfUnrealized(s, size) == SumTo([a \in DOMAIN s.arrays |-> IF s.arrays[a].realized THEN 0 ELSE size[a]],
                               Len(s.arrays))
space_per_minheight(s) ==
  OfUnrealized(s, [a \in DOMAIN s.arrays |-> s.arrays[a].spec.maxaccess * Width(s, a)])
maximum_space(s) ==
  OfUnrealized(s, [a \in DOMAIN s.arrays |-> s.arrays[a].spec.rows * Width(s, a)])
jpeg_mem_available(s) == MaxMemory - s.total

\* Mutant: the number of strips is rounded up.
max_minheights_Up(s) ==
  IF jpeg_mem_available(s) >= maximum_space(s) THEN 1000000000
  ELSE jpeg_mem_available(s) \div space_per_minheight(s) + 1

max_minheights(s) ==
  IF jpeg_mem_available(s) >= maximum_space(s) THEN 1000000000
  ELSE IF jpeg_mem_available(s) < space_per_minheight(s) THEN 1
  ELSE jpeg_mem_available(s) \div space_per_minheight(s)

\* One array of the loops of realize_virt_arrays; refused are the arrays the system has
\* no temporary file for.
InMemory(spec, heights) == (spec.rows - 1) \div spec.maxaccess + 1 <= heights
BufferRows(spec, heights) ==
  IF InMemory(spec, heights) THEN spec.rows ELSE heights * spec.maxaccess
jpeg_open_backing_store(s, a, rows, refused) ==
  IF a \in refused THEN Failed(s)
  ELSE [s EXCEPT !.arrays[a] = [@ EXCEPT !.b_s_open = TRUE, !.rows_in_mem = rows], !.files = @ \cup {a}]
WithBuffer(arr, rows) ==
  [spec |-> arr.spec, realized |-> TRUE, b_s_open |-> arr.b_s_open, rows_in_mem |-> rows,
   rowsperchunk |-> RowsPerChunk(arr.spec.width, rows), cur_start_row |-> 0, first_undef_row |-> 0,
   dirty |-> FALSE, buffer |-> [i \in 0 .. rows - 1 |-> Noise], file |-> arr.file]

RealizeOne(s, a, heights, refused) ==
  LET spec == s.arrays[a].spec
      rows == BufferRows(spec, heights)
      opened == IF InMemory(spec, heights) THEN s ELSE jpeg_open_backing_store(s, a, rows, refused)
      t == IF spec.kind = "s" THEN alloc_sarray(opened, IMAGE, spec.width, rows)
           ELSE alloc_barray(opened, IMAGE, spec.width, rows)
  IN IF ~ s.ok THEN s
     ELSE IF ~ t.ok THEN t
     ELSE [t EXCEPT !.arrays[a] = WithBuffer(@, rows)]

\* The list of the arrays of a kind holds the latest request first.
RealizeList(s, kind, heights, refused) ==
  LET n == Len(s.arrays)
      after[i \in 0 .. n] ==
        IF i = 0 THEN s
        ELSE IF s.arrays[n + 1 - i].spec.kind = kind /\ ~ s.arrays[n + 1 - i].realized
        THEN RealizeOne(after[i - 1], n + 1 - i, heights, refused)
        ELSE after[i - 1]
  IN after[n]

realize_virt_arrays(s, refused) ==
  LET heights == max_minheights(s)
  IN IF space_per_minheight(s) <= 0 THEN s
     ELSE RealizeList(RealizeList(s, "s", heights, refused), "b", heights, refused)

\* The rows of the buffer a transfer moves: of each chunk as many as are defined and
\* inside the array.
Transferred(arr) ==
  {i \in DOMAIN arr.buffer :
     LET base == (i \div arr.rowsperchunk) * arr.rowsperchunk
         thisrow == arr.cur_start_row + base
     IN \A rows \in {arr.rowsperchunk, arr.rows_in_mem - base,
                     arr.first_undef_row - thisrow, arr.spec.rows - thisrow} : i - base < rows}
WriteOut(arr) ==
  LET rows == {arr.cur_start_row + i : i \in Transferred(arr)}
  IN [arr EXCEPT !.dirty = FALSE,
                 !.file = [r \in DOMAIN arr.file \cup rows |->
                             IF r \in rows THEN arr.buffer[r - arr.cur_start_row] ELSE arr.file[r]]]
ReadIn(arr) ==
  [arr EXCEPT !.buffer = [i \in DOMAIN arr.buffer |->
                            IF i \in Transferred(arr) THEN arr.file[arr.cur_start_row + i] ELSE arr.buffer[i]]]

do_sarray_io(arr, writing) == IF writing THEN WriteOut(arr) ELSE ReadIn(arr)
do_barray_io(arr, writing) == IF writing THEN WriteOut(arr) ELSE ReadIn(arr)

ReadPossible(arr) == \A i \in Transferred(arr) : arr.cur_start_row + i \in DOMAIN arr.file

\* The window is moved when the strip is not inside: forwards to begin with the strip,
\* backwards to end with it.
Outside(arr, start_row, end_row) ==
  start_row < arr.cur_start_row \/ end_row > arr.cur_start_row + arr.rows_in_mem
\* Mutant: what was written is not kept when the window moves.
Flushed_Never(arr) == arr
Flushed(arr) == IF arr.dirty THEN do_sarray_io(arr, TRUE) ELSE arr
Moved(arr, start_row, end_row) ==
  [Flushed(arr) EXCEPT !.cur_start_row =
     IF start_row > arr.cur_start_row THEN start_row
     ELSE IF end_row < arr.rows_in_mem THEN 0 ELSE end_row - arr.rows_in_mem]

Positioned(arr, start_row, end_row) ==
  IF Outside(arr, start_row, end_row)
  THEN do_sarray_io(Moved(arr, start_row, end_row), FALSE) ELSE arr

\* Mutant: only a writer's rows are zeroed.
Defined_ReadersUnzeroed(arr, start_row, end_row, writable) ==
  LET undef_row == IF arr.first_undef_row < start_row THEN start_row ELSE arr.first_undef_row
      zeroed == IF arr.spec.pre_zero /\ writable
                THEN {r - arr.cur_start_row : r \in undef_row .. end_row - 1} ELSE {}
  IN [arr EXCEPT !.first_undef_row = IF writable /\ @ < end_row THEN end_row ELSE @,
                 !.buffer = [i \in DOMAIN @ |-> IF i \in zeroed THEN Zero ELSE @[i]],
                 !.dirty = IF writable THEN TRUE ELSE @]

\* The strip is defined, and zeroed where it was not if the array asked for that.
Defined(arr, start_row, end_row, writable) ==
  LET undef_row == IF arr.first_undef_row < start_row THEN start_row ELSE arr.first_undef_row
      zeroed == IF arr.spec.pre_zero THEN {r - arr.cur_start_row : r \in undef_row .. end_row - 1} ELSE {}
  IN [arr EXCEPT !.first_undef_row = IF writable /\ @ < end_row THEN end_row ELSE @,
                 !.buffer = [i \in DOMAIN @ |-> IF i \in zeroed THEN Zero ELSE @[i]],
                 !.dirty = IF writable THEN TRUE ELSE @]

\* A writer may not skip rows; a reader may read ahead only of an array that is zeroed.
BadAccess(arr, start_row, end_row, writable) ==
  /\ arr.first_undef_row < end_row
  /\ IF writable THEN arr.first_undef_row < start_row ELSE ~ arr.spec.pre_zero

access_virt(a, start_row, num_rows, writable) ==
  LET arr == m.arrays[a]
      end_row == start_row + num_rows
      here == Positioned(arr, start_row, end_row)
  IN /\ arr.realized /\ end_row <= arr.spec.rows /\ num_rows <= arr.spec.maxaccess
     /\ IF \/ Outside(arr, start_row, end_row) /\ ~ arr.b_s_open
           \/ Outside(arr, start_row, end_row) /\ ~ ReadPossible(Moved(arr, start_row, end_row))
        THEN mode' = "failed" /\ strip' = <<>> /\ UNCHANGED m
        ELSE IF BadAccess(here, start_row, end_row, writable)
        THEN mode' = "failed" /\ strip' = <<>> /\ m' = [m EXCEPT !.arrays[a] = here]
        ELSE /\ m' = [m EXCEPT !.arrays[a] = Defined(here, start_row, end_row, writable)]
             /\ strip' = [b \in DOMAIN strip \cup {a} |->
                            IF b = a THEN [start |-> start_row, rows |-> num_rows, writable |-> writable]
                            ELSE strip[b]]
             /\ UNCHANGED mode

-------------------------------------------------------------------------------
(* Methods                                                                        *)
Empty == [p \in Pools |-> <<>>]

\* jinit_memory_mgr
Init ==
  /\ mode = "ready" /\ strip = <<>>
  /\ m = [small |-> Empty, large |-> Empty, arrays |-> <<>>, total |-> MANAGER, heap |-> MANAGER,
          files |-> {}, ok |-> TRUE]

\* A call that fails ends in error_exit; what it had done so far stays done.
Outcome(s) ==
  /\ m' = [s EXCEPT !.ok = TRUE]
  /\ mode' = IF s.ok THEN "ready" ELSE "failed"
  /\ strip' = IF s.ok THEN strip ELSE <<>>

PoolCount == Len(m.small[PERMANENT]) + Len(m.large[PERMANENT]) + Len(m.small[IMAGE]) + Len(m.large[IMAGE])

AllocSmall(p, size) == mode = "ready" /\ PoolCount < MaxPools /\ Outcome(alloc_small(m, p, size))
AllocLarge(p, size) == mode = "ready" /\ PoolCount < MaxPools /\ Outcome(alloc_large(m, p, size))
Requestable(spec) == Len(m.arrays) < MaxArrays /\ \A a \in DOMAIN m.arrays : m.arrays[a].spec # spec
RequestVirtSarray(spec) ==
  mode = "ready" /\ spec.kind = "s" /\ Requestable(spec) /\ Outcome(request_virt(m, spec))
RequestVirtBarray(spec) ==
  mode = "ready" /\ spec.kind = "b" /\ Requestable(spec) /\ Outcome(request_virt(m, spec))
RealizeVirtArrays(refused) ==
  mode = "ready" /\ Unrealized(m) # {} /\ Outcome(realize_virt_arrays(m, refused))
AccessVirtSarray(a, start_row, num_rows, writable) ==
  mode = "ready" /\ m.arrays[a].spec.kind = "s" /\ access_virt(a, start_row, num_rows, writable)
AccessVirtBarray(a, start_row, num_rows, writable) ==
  mode = "ready" /\ m.arrays[a].spec.kind = "b" /\ access_virt(a, start_row, num_rows, writable)

\* The caller writes a row of its strip, through the pointer the access returned.
WriteRow(a, r, d) ==
  /\ mode = "ready" /\ a \in DOMAIN strip /\ strip[a].writable
  /\ r \in strip[a].start .. strip[a].start + strip[a].rows - 1
  /\ m' = [m EXCEPT !.arrays[a] = [@ EXCEPT !.buffer[r - m.arrays[a].cur_start_row] = d]]
  /\ UNCHANGED <<mode, strip>>

Bytes(headers) ==
  SumTo([i \in DOMAIN headers |-> headers[i].used + headers[i].left + HEADER], Len(headers))
\* Mutant: the temporary files are not closed.
free_pool_FilesOpen(s, p) ==
  LET freed == Bytes(s.small[p]) + Bytes(s.large[p])
      closed == IF p = IMAGE THEN [s EXCEPT !.arrays = <<>>] ELSE s
  IN [closed EXCEPT !.total = @ - freed, !.heap = @ - freed, !.small[p] = <<>>, !.large[p] = <<>>]

free_pool(s, p) ==
  LET freed == Bytes(s.small[p]) + Bytes(s.large[p])
      open == {a \in DOMAIN s.arrays : s.arrays[a].b_s_open}
      closed == IF p = IMAGE THEN [s EXCEPT !.files = @ \ open, !.arrays = <<>>] ELSE s
  IN [closed EXCEPT !.total = @ - freed, !.heap = @ - freed, !.small[p] = <<>>, !.large[p] = <<>>]

\* jpeg_finish_..., jpeg_abort: the IMAGE pool is freed and the object can be used again.
FreeImagePool ==
  /\ mode \in {"ready", "failed"} /\ mode' = "ready" /\ strip' = <<>> /\ m' = free_pool(m, IMAGE)

\* jpeg_destroy
self_destruct ==
  /\ mode \in {"ready", "failed"} /\ mode' = "destroyed" /\ strip' = <<>>
  /\ LET s == free_pool(free_pool(m, IMAGE), PERMANENT)
     IN m' = [s EXCEPT !.heap = @ - MANAGER, !.total = @ - MANAGER]

Next ==
  \/ \E p \in Pools, size \in Objects : AllocSmall(p, size) \/ AllocLarge(p, size)
  \/ \E spec \in Arrays : RequestVirtSarray(spec) \/ RequestVirtBarray(spec)
  \/ \E refused \in SUBSET DOMAIN m.arrays : RealizeVirtArrays(refused)
  \/ \E a \in DOMAIN m.arrays :
       \E start_row \in 0 .. m.arrays[a].spec.rows - 1, num_rows \in 1 .. m.arrays[a].spec.maxaccess :
         \E writable \in BOOLEAN :
           \/ AccessVirtSarray(a, start_row, num_rows, writable)
           \/ AccessVirtBarray(a, start_row, num_rows, writable)
  \/ \E a \in DOMAIN strip : \E r \in 0 .. m.arrays[a].spec.rows - 1, d \in Data : WriteRow(a, r, d)
  \/ FreeImagePool \/ self_destruct

Spec == Init /\ [][Next]_vars

-------------------------------------------------------------------------------
Realized(a) == a \in DOMAIN m.arrays /\ m.arrays[a].realized
InBuffer(arr, r) == r - arr.cur_start_row \in DOMAIN arr.buffer
RowOf(arr, r) ==
  IF InBuffer(arr, r) THEN arr.buffer[r - arr.cur_start_row]
  ELSE IF r \in DOMAIN arr.file THEN arr.file[r] ELSE "lost"

(* Whatever part of an array is in memory and whichever strips are asked for, the *)
(* caller finds every row as it last wrote it: the strip buffer and the temporary *)
(* file together are an array that is all there.                                  *)
contents ==
  [a \in 1 .. MaxArrays |->
     IF Realized(a) THEN [r \in 0 .. m.arrays[a].first_undef_row - 1 |-> RowOf(m.arrays[a], r)] ELSE <<>>]
view ==
  [a \in 1 .. MaxArrays |->
     IF a \in DOMAIN strip
     THEN [rows |-> [r \in strip[a].start .. strip[a].start + strip[a].rows - 1 |-> RowOf(m.arrays[a], r)],
           writable |-> strip[a].writable]
     ELSE [rows |-> <<>>, writable |-> FALSE]]
VA == INSTANCE VirtualArrays WITH Ids <- 1 .. MaxArrays, MaxRows <- Max({s.rows : s \in Arrays})
ArraysAreWhole == VA!ASpec

(* The space the manager believes to hold is what malloc gave and free has not    *)
(* got back, through rounding, slop, failures half way and the release of pools;  *)
(* nothing is left after self_destruct.                                           *)
SpaceBalances ==
  /\ m.total = m.heap
  /\ mode # "destroyed" => m.heap = MANAGER + Bytes(m.small[PERMANENT]) + Bytes(m.small[IMAGE])
                                       + Bytes(m.large[PERMANENT]) + Bytes(m.large[IMAGE])
  /\ mode = "destroyed" => m.heap = 0

(* A temporary file is open only for an array that will close it, also when       *)
(* realize_virt_arrays gave up between opening the file and getting the buffer.   *)
FilesHaveOwners == m.files = {a \in DOMAIN m.arrays : m.arrays[a].b_s_open}

(* The buffers realized together take no more than what jpeg_mem_available left   *)
(* for them, unless even one strip per array takes more.                          *)
BuffersWithinLimit ==
  [][/\ Unrealized(m) # {} /\ DOMAIN m'.arrays = DOMAIN m.arrays
     /\ \A a \in DOMAIN m'.arrays : m'.arrays[a].realized
     => LET taken == OfUnrealized(m, [a \in DOMAIN m.arrays |-> m'.arrays[a].rows_in_mem * Width(m, a)])
        IN taken <= jpeg_mem_available(m) \/ taken <= space_per_minheight(m)]_vars

(* No caller of an array that asked for zeros ever gets at a row nobody has       *)
(* written or zeroed, read ahead or written for the first time.                   *)
NoNoiseInStrips ==
  \A a \in DOMAIN strip : m.arrays[a].spec.pre_zero =>
    \A r \in strip[a].start .. strip[a].start + strip[a].rows - 1 :
      RowOf(m.arrays[a], r) \in Data \cup {Zero}
=================================================================================
