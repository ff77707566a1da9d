------------------------------ MODULE VirtualArrays -----------------------------
(* What the virtual arrays of libjpeg's memory manager promise their callers      *)
(* (the comment "About virtual array management" of jpeg-8c/jmemmgr.c): every     *)
(* array keeps all its rows, however many of them are in memory; the caller gets  *)
(* at a strip of one array at a time, reads there what it last wrote, and may     *)
(* write there if it said so.  Rows are defined from the first one onwards.       *)
EXTENDS Integers

CONSTANTS Ids,         \* the arrays there may be
          MaxRows,     \* no array has more rows
          Data,        \* what a caller writes into a row
          Zero         \* a row of zeros

VARIABLES contents,    \* [array -> [row -> datum]]: the rows defined so far
          view         \* [array -> [rows, writable]]: what the caller has at hand
avars == <<contents, view>>

NoView == [rows |-> <<>>, writable |-> FALSE]
Nothing == [a \in Ids |-> <<>>]
NoViews == [a \in Ids |-> NoView]

AInit == contents = Nothing /\ view = NoViews

(* A strip of array a is made accessible, in place of the one before.  It shows   *)
(* the rows defined as they are.  A reader sees zeros beyond them; what a writer  *)
(* has in its strip is defined from now on.                                       *)
Access(a, first, last, writable) ==
  LET defined == DOMAIN contents[a]
      strip == first .. last
  IN /\ first <= last
     /\ writable => 0 .. first - 1 \subseteq defined
     /\ DOMAIN view'[a].rows = strip /\ view'[a].writable = writable
     /\ \A r \in strip \cap defined : view'[a].rows[r] = contents[a][r]
     /\ ~ writable => \A r \in strip \ defined : view'[a].rows[r] = Zero
     /\ view' = [view EXCEPT ![a] = view'[a]]
     /\ contents' = IF writable
                    THEN [contents EXCEPT ![a] = [r \in defined \cup strip |->
                            IF r \in strip THEN view'[a].rows[r] ELSE contents[a][r]]]
                    ELSE contents

\* The caller writes one row of a strip.
Store(a, r, d) ==
  /\ view[a].writable /\ r \in DOMAIN view[a].rows
  /\ view' = [view EXCEPT ![a].rows[r] = d]
  /\ contents' = [contents EXCEPT ![a][r] = d]

\* The image is done with; an error, which leaves the arrays as they are.
Release == contents' = Nothing /\ view' = NoViews
Fail == contents' = contents /\ view' = NoViews

ANext ==
  \/ \E a \in Ids, first, last \in 0 .. MaxRows - 1, writable \in BOOLEAN :
       Access(a, first, last, writable)
  \/ \E a \in Ids, r \in 0 .. MaxRows - 1, d \in Data : Store(a, r, d)
  \/ Release \/ Fail

ASpec == AInit /\ [][ANext]_avars
=================================================================================
