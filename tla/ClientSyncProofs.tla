-------------------------- MODULE ClientSyncProofs --------------------------
(***************************************************************************)
(* Proofs about ClientSync, for any units, page size, number of syncs and  *)
(* whatever other tablets do.                                              *)
(*                                                                         *)
(* With or without Back: TypeOK and CleanIsServers.  The latter needs that *)
(* what a sync holds of the server, a pulled page or an accepted push, is  *)
(* no newer than the server (Held), and that no stamp is ahead of the      *)
(* clock.  Without Back a sync runs alone (Quiet), so a pushed page still  *)
(* has the content of the rows when it is saved: NewUnitKept.              *)
(*                                                                         *)
(* Last, "同步数据成功！" is true (SuccessMeansInSync) when also no form    *)
(* takes its unit to the server and other tablets write between this one's *)
(* syncs only.  The watermark is not stored but read off the newest clean  *)
(* row; it may be trusted because every clean row stands for all that the  *)
(* server has up to its time (Complete): pages come oldest first, and a    *)
(* push is only stamped after everything was pulled (AllHere).             *)
(***************************************************************************)
EXTENDS ClientSync, TLAPS, FiniteSetTheorems, WellFoundedInduction

\* The watermark of any table is a time: 2000 or that of one of its rows.
LEMMA WatermarkType ==
    ASSUME NEW r \in [Units -> Rows]
    PROVE  Watermark(r) \in Nat
  <1>1. CASE \E u \in Units : NewestClean(r, u)
    <2>1. (CHOOSE u \in Units : NewestClean(r, u)) \in Units
      BY <1>1
    <2> QED BY <1>1, <2>1 DEF Watermark, Rows
  <1>2. CASE ~\E u \in Units : NewestClean(r, u)
    BY <1>2 DEF Watermark
  <1> QED BY <1>1, <1>2

\* The three shapes a slot's record is given by the steps that read or end.
LEMMA SyncRecords ==
    /\ IdleSync \in SyncStates /\ IdleSync.pc = "idle" /\ [IdleSync EXCEPT !.pc = "push"] \in SyncStates
    /\ \A m \in Nat : [IdleSync EXCEPT !.pc = "pull", !.mark = m] \in SyncStates
  <1>1. NoPage \in [Units -> ServerUnits]
    BY DEF NoPage, NoUnit, ServerUnits
  <1> QED BY <1>1 DEF IdleSync, SyncStates

\* A slot stays well formed when it is given a page.
LEMMA HoldingType ==
    ASSUME NEW x \in SyncStates, NEW q \in {"pulled", "pushing", "pushed"}, NEW p \in [Units -> ServerUnits]
    PROVE  Holding(x, q, p) \in SyncStates
  BY DEF Holding, SyncStates

\* Ending a sync keeps the types when the rows saved with it have theirs.
LEMMA EndType ==
    ASSUME TypeOK, NEW s \in Syncs, NEW o \in Outcomes, End(s, o), row' \in [Units -> Rows],
           \A u \in Units : row'[u].in /\ ~row'[u].dirty => row'[u].id
    PROVE  TypeOK'
  <1>1. sync' \in [Syncs -> SyncStates]
    BY SyncRecords DEF End, TypeOK
  <1> QED BY <1>1 DEF End, TypeOK

\* What the server answered is saved over some of the rows.
LEMMA SavedRows ==
    ASSUME TypeOK, NEW s \in Syncs, NEW S \in SUBSET Units,
           row' = [u \in Units |-> IF u \in S THEN FromServer(sync[s].page[u]) ELSE row[u]]
    PROVE  /\ row' \in [Units -> Rows]
           /\ \A u \in Units : row'[u].in /\ ~row'[u].dirty => row'[u].id
  <1>1. \A x \in ServerUnits : /\ FromServer(x) \in Rows
                               /\ FromServer(x).id
    BY DEF FromServer, ServerUnits, Rows
  <1>2. \A u \in Units : sync[s].page[u] \in ServerUnits
    BY DEF TypeOK, SyncStates
  <1>3. row' \in [Units -> Rows]
    BY <1>1, <1>2 DEF TypeOK
  <1>4. ASSUME NEW u \in Units, row'[u].in, ~row'[u].dirty PROVE row'[u].id
    <2>1. CASE u \in S
      BY <1>1, <1>2, <2>1
    <2>2. CASE u \notin S
      BY <1>4, <2>2 DEF TypeOK
    <2> QED BY <2>1, <2>2
  <1> QED BY <1>3, <1>4

(***************************************************************************)
(* Types.                                                                  *)
(***************************************************************************)

\* Every variable of ClientSync keeps its type, and a clean row has a remote id.
THEOREM TypeCorrect == Spec => []TypeOK
  <1>1. Init => TypeOK
    <2> SUFFICES ASSUME Init PROVE TypeOK
      OBVIOUS
    <2>1. row \in [Units -> Rows] /\ server \in [Units -> ServerUnits]
      BY DEF Init, NoRow, Rows, NoUnit, ServerUnits
    <2>2. \A u \in Units : ~row[u].in
      BY DEF Init, NoRow
    <2>3. sync \in [Syncs -> SyncStates]
      BY SyncRecords DEF Init
    <2>4. edit \in [open : SUBSET Units, stored : BOOLEAN, id : BOOLEAN]
      BY DEF Init, NoEdit
    <2> QED BY <2>1, <2>2, <2>3, <2>4 DEF Init, TypeOK, Outcomes
  <1>2. TypeOK /\ [Next]_vars => TypeOK'
    <2> SUFFICES ASSUME TypeOK, [Next]_vars PROVE TypeOK'
      OBVIOUS
    <2>1. ASSUME NEW u \in Units, OpenUnit(u) PROVE TypeOK'
      BY <2>1 DEF OpenUnit, TypeOK, Rows
    <2>2. ASSUME NEW u \in Units, SaveUnit(u) PROVE TypeOK'
      <3>1. Edited(edit.id, now + 1) \in Rows /\ Edited(edit.id, now + 1).dirty
        BY DEF Edited, Rows, TypeOK
      <3>2. row' \in [Units -> Rows]
        BY <2>2, <3>1 DEF SaveUnit, TypeOK
      <3>3. \A v \in Units : row'[v].in /\ ~row'[v].dirty => row'[v].id
        BY <2>2, <3>1 DEF SaveUnit, TypeOK
      <3> QED BY <2>2, <3>2, <3>3 DEF SaveUnit, NoEdit, TypeOK
    <2>3. ASSUME NEW u \in Units, OtherWrites(u) PROVE TypeOK'
      <3>1. server' \in [Units -> ServerUnits]
        BY <2>3 DEF OtherWrites, TypeOK, ServerUnits
      <3> QED BY <2>3, <3>1 DEF OtherWrites, TypeOK
    <2>4. ASSUME NEW u \in Units, UploadClientUnit(u) PROVE TypeOK'
      <3>1. server' \in [Units -> ServerUnits]
        BY <2>4 DEF UploadClientUnit, TypeOK, ServerUnits, Rows
      <3>2. row' \in [Units -> Rows] /\ \A v \in Units : row'[v].in /\ ~row'[v].dirty => row'[v].id
        <4>0. row[u] \in Rows /\ now + 1 \in Nat
          BY DEF TypeOK
        <4>1. Uploaded(row[u]) \in Rows /\ Uploaded(row[u]).id = TRUE
          BY <4>0 DEF Rows, Uploaded
        <4> QED BY <2>4, <4>1 DEF UploadClientUnit, TypeOK
      <3> QED BY <2>4, <3>1, <3>2 DEF UploadClientUnit, TypeOK
    <2>5. CASE CloseUnit
      BY <2>5 DEF CloseUnit, NoEdit, TypeOK
    <2>6. ASSUME NEW s \in Syncs, StartSync(s) PROVE TypeOK'
      <3>1. sync' \in [Syncs -> SyncStates]
        BY <2>6, WatermarkType, SyncRecords DEF StartSync, TypeOK
      <3> QED BY <2>6, <3>1 DEF StartSync, TypeOK, Outcomes
    <2>7. ASSUME NEW s \in Syncs, SyncStep(s) PROVE TypeOK'
      <3>1. CASE PullAnswer(s)
        <4>1. [u \in Units |-> IF InPage(sync[s].mark, u) THEN server[u] ELSE NoUnit] \in [Units -> ServerUnits]
          BY DEF TypeOK, NoUnit, ServerUnits
        <4>2. sync' \in [Syncs -> SyncStates]
          BY <3>1, <4>1, HoldingType DEF PullAnswer, TypeOK
        <4> QED BY <3>1, <4>2 DEF PullAnswer, TypeOK
      <3>2. CASE PullSave(s)
        <4>1. Got(s) \in SUBSET Units
          BY DEF Got
        <4>2. /\ row' \in [Units -> Rows]
              /\ \A u \in Units : row'[u].in /\ ~row'[u].dirty => row'[u].id
          BY <3>2, <4>1, SavedRows DEF PullSave
        <4>3. sync' \in [Syncs -> SyncStates]
          BY <3>2, <4>2, WatermarkType, SyncRecords DEF PullSave, TypeOK
        <4> QED BY <3>2, <4>2, <4>3 DEF PullSave, TypeOK
      <3>3. CASE PullClash(s) \/ PushNothing(s)
        BY <3>3, EndType DEF PullClash, PushNothing, Outcomes, TypeOK
      <3>4. CASE PushRead(s)
        <4>1. [u \in Units |-> IF u \in Dirty
                 THEN [in |-> TRUE, val |-> row[u].val, lmt |-> IF row[u].id THEN row[u].lmt ELSE 0]
                 ELSE NoUnit] \in [Units -> ServerUnits]
          BY DEF TypeOK, NoUnit, ServerUnits, Rows
        <4>2. sync' \in [Syncs -> SyncStates]
          BY <3>4, <4>1, HoldingType DEF PushRead, TypeOK
        <4> QED BY <3>4, <4>2 DEF PushRead, TypeOK
      <3>5. CASE PushAnswer(s)
        <4>1. PICK refused \in SUBSET Got(s) :
                LET stamped(u) == [in |-> TRUE, val |-> sync[s].page[u].val, lmt |-> now + 1]
                    accepted == Got(s) \ refused
                IN /\ server' = [u \in Units |-> IF u \in accepted THEN stamped(u) ELSE server[u]]
                   /\ sync' = [sync EXCEPT ![s] = [Holding(@, "pushed",
                         [u \in Units |-> IF u \in accepted THEN stamped(u) ELSE @.page[u]])
                         EXCEPT !.refused = refused]]
          BY <3>5 DEF PushAnswer
        <4>2. \A u \in Units : [in |-> TRUE, val |-> sync[s].page[u].val, lmt |-> now + 1] \in ServerUnits
          BY DEF TypeOK, SyncStates, ServerUnits
        <4>3. server' \in [Units -> ServerUnits]
          BY <4>1, <4>2 DEF TypeOK
        <4>4. refused \in SUBSET Units
          BY DEF Got
        <4> DEFINE answered == [u \in Units |-> IF u \in Got(s) \ refused
                                  THEN [in |-> TRUE, val |-> sync[s].page[u].val, lmt |-> now + 1]
                                  ELSE sync[s].page[u]]
        <4>5. answered \in [Units -> ServerUnits]
          BY <4>2 DEF TypeOK, SyncStates
        <4>6. [Holding(sync[s], "pushed", answered) EXCEPT !.refused = refused] \in SyncStates
          <5>1. Holding(sync[s], "pushed", answered) \in SyncStates
            BY <4>5, HoldingType DEF TypeOK
          <5> QED BY <4>4, <5>1 DEF SyncStates
        <4>7. sync' = [sync EXCEPT ![s] = [Holding(sync[s], "pushed", answered) EXCEPT !.refused = refused]]
          BY <4>1 DEF TypeOK
        <4>8. sync' \in [Syncs -> SyncStates]
          BY <4>6, <4>7 DEF TypeOK
        <4> QED BY <3>5, <4>3, <4>8 DEF PushAnswer, TypeOK
      <3>6. CASE PushSave(s)
        <4>1. Saved(s) \in SUBSET Units
          BY DEF Saved, Got
        <4>2. /\ row' \in [Units -> Rows]
              /\ \A u \in Units : row'[u].in /\ ~row'[u].dirty => row'[u].id
          BY <3>6, <4>1, SavedRows DEF PushSave
        <4> QED BY <3>6, <4>2, EndType DEF PushSave, Outcomes
      <3> QED BY <2>7, <3>1, <3>2, <3>3, <3>4, <3>5, <3>6 DEF SyncStep
    <2>8. ASSUME NEW s \in Syncs, SyncFails(s) PROVE TypeOK'
      BY <2>8, EndType DEF SyncFails, Outcomes, TypeOK
    <2>9. CASE BackOnDialog
      BY <2>9 DEF BackOnDialog, TypeOK
    <2>10. CASE UNCHANGED vars
      BY <2>10 DEF vars, TypeOK
    <2> QED BY <2>1, <2>2, <2>3, <2>4, <2>5, <2>6, <2>7, <2>8, <2>9, <2>10 DEF Next
  <1> QED BY <1>1, <1>2, PTL DEF Spec

(***************************************************************************)
(* Clean rows are the server's.                                            *)
(***************************************************************************)

\* x, of the server once, is no newer than the server's unit y, and the same if as old.
Behind(x, y) == y.in /\ x.lmt <= y.lmt /\ (x.lmt = y.lmt => x.val = y.val)

\* What the server said to a sync is still behind the server.
Held ==
    \A s \in Syncs : sync[s].pc \in {"pulled", "pushed"} =>
        \A u \in Got(s) \ sync[s].refused : Behind(sync[s].page[u], server[u])

\* A slot that has only pulled has refused nothing, and no stamp is ahead of the clock.
Stamps ==
    /\ \A s \in Syncs : sync[s].pc \in {"pull", "pulled"} => sync[s].refused = {}
    /\ \A u \in Units : server[u].lmt <= now

CleanInv == CleanIsServers /\ Held /\ Stamps

\* A step that only stamps some units anew, at now + 1, leaves what was behind behind.
LEMMA StampedAnew ==
    ASSUME TypeOK, Stamps, NEW u \in Units, NEW x \in Rows \cup ServerUnits, Behind(x, server[u]),
           server'[u] = server[u] \/ (server'[u].in /\ server'[u].lmt = now + 1)
    PROVE  Behind(x, server'[u])
  <1>1. x.lmt \in Nat /\ server[u].lmt \in Nat /\ server[u].lmt <= now /\ now \in Nat
    BY DEF TypeOK, Rows, ServerUnits, Stamps
  <1>2. CASE server'[u] = server[u]
    BY <1>2
  <1>3. CASE server'[u].in /\ server'[u].lmt = now + 1
    <2>1. x.lmt <= server[u].lmt
      BY DEF Behind
    <2>2. x.lmt < server'[u].lmt
      BY <1>1, <1>3, <2>1
    <2> QED BY <1>1, <1>3, <2>2 DEF Behind
  <1> QED BY <1>2, <1>3

\* Rows saved from a page that is behind the server are clean rows of the server.
LEMMA SavedIsServers ==
    ASSUME TypeOK, CleanInv, NEW s \in Syncs, NEW S \in SUBSET (Got(s) \ sync[s].refused),
           sync[s].pc \in {"pulled", "pushed"}, UNCHANGED server,
           row' = [u \in Units |-> IF u \in S THEN FromServer(sync[s].page[u]) ELSE row[u]]
    PROVE  CleanIsServers'
  <1> SUFFICES ASSUME NEW u \in Units, row'[u].in, ~row'[u].dirty
               PROVE  row'[u].id /\ Behind(row'[u], server[u])
    BY DEF CleanIsServers, Behind
  <1>1. CASE u \in S
    <2>1. row'[u] = FromServer(sync[s].page[u])
      BY <1>1
    <2>2. row'[u].id = TRUE
      BY <2>1 DEF FromServer
    <2>3. row'[u].lmt = sync[s].page[u].lmt /\ row'[u].val = sync[s].page[u].val
      BY <2>1 DEF FromServer
    <2>4. Behind(sync[s].page[u], server[u])
      BY <1>1 DEF CleanInv, Held
    <2> QED BY <2>2, <2>3, <2>4 DEF Behind
  <1>2. CASE u \notin S
    <2>1. row'[u] = row[u]
      BY <1>2
    <2> QED BY <2>1 DEF CleanInv, CleanIsServers, Behind
  <1> QED BY <1>1, <1>2

\* A slot that is reset, or in which only what is not held of the server changes.
LEMMA HeldKept ==
    ASSUME TypeOK, Held, Stamps, NEW s \in Syncs, UNCHANGED <<server, now>>,
           NEW x, sync' = [sync EXCEPT ![s] = x],
           x.pc \notin {"pulled", "pushed"}, x.pc = "pull" => x.refused = {}
    PROVE  Held' /\ Stamps'
  <1>1. ASSUME NEW r \in Syncs, sync'[r].pc \in {"pulled", "pushed"}
        PROVE  sync'[r] = sync[r] /\ Got(r)' = Got(r)
    <2>1. r # s
      BY <1>1 DEF TypeOK
    <2> QED BY <2>1 DEF TypeOK, Got
  <1>2. Held'
    <2> SUFFICES ASSUME NEW r \in Syncs, sync'[r].pc \in {"pulled", "pushed"},
                        NEW u \in Got(r)' \ sync'[r].refused
                 PROVE  Behind(sync'[r].page[u], server[u])
      BY DEF Held, Behind
    <2> QED BY <1>1 DEF Held
  <1>3. ASSUME NEW r \in Syncs, sync'[r].pc \in {"pull", "pulled"}
        PROVE  sync'[r].refused = {}
    BY <1>3, <1>1 DEF TypeOK, Stamps
  <1> QED BY <1>2, <1>3 DEF Stamps

\* No slot changes, and the server only stamps anew.
LEMMA HeldStamped ==
    ASSUME TypeOK, Held, Stamps, UNCHANGED sync, now' \in Nat, now <= now',
           \A u \in Units : server'[u] = server[u]
                            \/ (server'[u].in /\ server'[u].lmt = now + 1 /\ now' = now + 1)
    PROVE  Held' /\ Stamps'
  <1>1. Held'
    <2> SUFFICES ASSUME NEW r \in Syncs, sync[r].pc \in {"pulled", "pushed"},
                        NEW u \in Got(r) \ sync[r].refused
                 PROVE  Behind(sync[r].page[u], server'[u])
      BY DEF Held, Behind, Got
    <2>1. u \in Units /\ sync[r].page[u] \in ServerUnits
      BY DEF Got, TypeOK, SyncStates
    <2>2. Behind(sync[r].page[u], server[u])
      BY DEF Held
    <2> QED BY <2>1, <2>2, StampedAnew
  <1>2. ASSUME NEW u \in Units PROVE server'[u].lmt <= now'
    BY DEF TypeOK, ServerUnits, Stamps
  <1> QED BY <1>1, <1>2 DEF Stamps

\* CleanInv, the strengthening of CleanIsServers, holds with and without Back.
LEMMA CleanInvariant == Spec => []CleanInv
  <1>1. Init => CleanInv
    <2> SUFFICES ASSUME Init PROVE CleanInv
      OBVIOUS
    <2>1. CleanIsServers
      BY DEF Init, CleanIsServers, NoRow
    <2>2. Held /\ \A s \in Syncs : sync[s].pc \in {"pull", "pulled"} => sync[s].refused = {}
      BY DEF Init, Held, IdleSync
    <2>3. \A u \in Units : server[u].lmt <= now
      BY DEF Init, NoUnit
    <2> QED BY <2>1, <2>2, <2>3 DEF CleanInv, Stamps
  <1>2. TypeOK /\ CleanInv /\ [Next]_vars => CleanInv'
    <2> SUFFICES ASSUME TypeOK, CleanInv, [Next]_vars PROVE CleanInv'
      OBVIOUS
    <2>a. \A u \in Units : row[u] \in Rows
      BY DEF TypeOK
    <2>b. \A u \in Units : server[u] \in ServerUnits /\ server[u].lmt \in Nat
      BY DEF TypeOK, ServerUnits
    <2>c. now \in Nat
      BY DEF TypeOK
    <2>d. \A u \in Units : row[u].in /\ ~row[u].dirty => row[u].id /\ Behind(row[u], server[u])
      BY DEF CleanInv, CleanIsServers, Behind
    <2>1. CASE (\E u \in Units : OpenUnit(u)) \/ CloseUnit \/ BackOnDialog
      BY <2>1 DEF OpenUnit, CloseUnit, BackOnDialog, CleanInv, CleanIsServers, Held, Got, Stamps, Behind
    <2>2. ASSUME NEW u \in Units, SaveUnit(u) PROVE CleanInv'
      <3>1. Edited(edit.id, now + 1).dirty = TRUE
        BY DEF Edited
      <3>2. CleanIsServers'
        BY <2>2, <3>1 DEF SaveUnit, TypeOK, CleanInv, CleanIsServers
      <3>3. Held' /\ Stamps'
        BY <2>2, HeldStamped DEF SaveUnit, CleanInv, TypeOK
      <3> QED BY <3>2, <3>3 DEF CleanInv
    <2>3. ASSUME NEW u \in Units, OtherWrites(u) \/ UploadClientUnit(u) PROVE CleanInv'
      <3>1. \A v \in Units : server'[v] = server[v]
                             \/ (server'[v].in /\ server'[v].lmt = now + 1 /\ now' = now + 1)
        BY <2>3 DEF OtherWrites, UploadClientUnit, TypeOK
      <3>2. Held' /\ Stamps'
        BY <2>3, <3>1, HeldStamped DEF OtherWrites, UploadClientUnit, CleanInv, TypeOK
      <3>3. CleanIsServers'
        <4> SUFFICES ASSUME NEW v \in Units, row'[v].in, ~row'[v].dirty
                     PROVE  row'[v].id /\ Behind(row'[v], server'[v])
          BY DEF CleanIsServers, Behind
        <4>1. CASE row'[v] = row[v]
          <5>0. row[v] \in Rows \cup ServerUnits
            BY <2>a
          <5>1. row[v].id /\ Behind(row[v], server[v])
            BY <2>d, <4>1
          <5>2. Behind(row[v], server'[v])
            BY <3>1, <5>0, <5>1, StampedAnew DEF CleanInv
          <5>3. row'[v].id
            BY <4>1, <5>1
          <5> QED BY <4>1, <5>2, <5>3
        <4>2. CASE row'[v] # row[v]
          <5>1. v = u /\ UploadClientUnit(u) /\ row'[u] = Uploaded(row[u])
                /\ server'[u] = [in |-> TRUE, val |-> row[u].val, lmt |-> now + 1]
            BY <2>3, <4>2 DEF OtherWrites, UploadClientUnit, TypeOK
          <5>2. Uploaded(row[u]).id = TRUE
            BY <2>a DEF Uploaded, Rows
          <5>3. Uploaded(row[u]).lmt = now + 1 /\ Uploaded(row[u]).val = row[u].val
            BY <2>a DEF Uploaded, Rows
          <5> QED BY <2>c, <5>1, <5>2, <5>3 DEF Behind
        <4> QED BY <4>1, <4>2
      <3> QED BY <3>2, <3>3 DEF CleanInv
    <2>4. ASSUME NEW s \in Syncs, StartSync(s) PROVE CleanInv'
      <3>1. Held' /\ Stamps'
        <4>1. [IdleSync EXCEPT !.pc = "pull", !.mark = Watermark(row)].pc = "pull"
              /\ [IdleSync EXCEPT !.pc = "pull", !.mark = Watermark(row)].refused = {}
          BY DEF IdleSync
        <4> QED BY <2>4, <4>1, HeldKept DEF StartSync, CleanInv
      <3> QED BY <2>4, <3>1 DEF StartSync, CleanInv, CleanIsServers
    <2>5. ASSUME NEW s \in Syncs, NEW o \in Outcomes, End(s, o), CleanIsServers' PROVE CleanInv'
      BY <2>5, HeldKept DEF End, IdleSync, CleanInv
    <2>6. ASSUME NEW s \in Syncs, SyncFails(s) \/ PullClash(s) \/ PushNothing(s) PROVE CleanInv'
      <3>1. UNCHANGED <<row, server>>
        BY <2>6 DEF SyncFails, PullClash, PushNothing, End
      <3>2. CleanIsServers'
        BY <3>1 DEF CleanInv, CleanIsServers
      <3> QED BY <2>6, <2>5, <3>2 DEF SyncFails, PullClash, PushNothing, Outcomes
    <2>7. ASSUME NEW s \in Syncs, PullAnswer(s) PROVE CleanInv'
      <3> DEFINE page == [u \in Units |-> IF InPage(sync[s].mark, u) THEN server[u] ELSE NoUnit]
      <3>1. sync' = [sync EXCEPT ![s] = Holding(sync[s], "pulled", page)]
        BY <2>7 DEF PullAnswer, TypeOK
      <3>2. sync'[s].pc = "pulled" /\ sync'[s].page = page /\ sync'[s].refused = sync[s].refused
        BY <3>1 DEF TypeOK, SyncStates, Holding
      <3>3. sync'[s].refused = {}
        BY <2>7, <3>2 DEF PullAnswer, CleanInv, Stamps
      <3>4. Held'
        <4> SUFFICES ASSUME NEW r \in Syncs, sync'[r].pc \in {"pulled", "pushed"},
                            NEW u \in Got(r)' \ sync'[r].refused
                     PROVE  Behind(sync'[r].page[u], server[u])
          BY <2>7 DEF Held, Behind, PullAnswer
        <4>1. CASE r = s
          <5>1. u \in Units /\ page[u].in
            BY <3>2, <4>1 DEF Got
          <5>2. page[u] = server[u]
            BY <5>1 DEF NoUnit
          <5>3. server[u].lmt \in Nat
            BY <2>b, <5>1
          <5>4. Behind(server[u], server[u])
            BY <5>1, <5>2, <5>3 DEF Behind
          <5>5. sync'[r].page[u] = server[u]
            BY <3>2, <4>1, <5>2
          <5> QED BY <5>4, <5>5
        <4>2. CASE r # s
          <5>1. sync'[r] = sync[r]
            BY <3>1, <4>2 DEF TypeOK
          <5> QED BY <5>1 DEF CleanInv, Held, Got
        <4> QED BY <4>1, <4>2
      <3>5. Stamps'
        BY <2>7, <3>1, <3>3 DEF PullAnswer, TypeOK, CleanInv, Stamps
      <3> QED BY <2>7, <3>4, <3>5 DEF PullAnswer, CleanInv, CleanIsServers
    <2>8. ASSUME NEW s \in Syncs, PullSave(s) PROVE CleanInv'
      <3>1. sync[s].pc = "pulled" /\ sync[s].refused = {}
        BY <2>8 DEF PullSave, CleanInv, Stamps
      <3>2. CleanIsServers'
        <4>1. Got(s) \in SUBSET (Got(s) \ sync[s].refused)
          BY <3>1
        <4> QED BY <2>8, <3>1, <4>1, SavedIsServers DEF PullSave
      <3>3. PICK x : /\ sync' = [sync EXCEPT ![s] = x]
                     /\ x.pc \in {"push", "pull"} /\ x.refused = {}
        <4> DEFINE more == [IdleSync EXCEPT !.pc = "pull", !.mark = Watermark(row')]
                   last == [IdleSync EXCEPT !.pc = "push"]
        <4>1. /\ more.pc = "pull" /\ more.refused = {}
              /\ last.pc = "push" /\ last.refused = {}
          BY DEF IdleSync
        <4>2. sync' = [sync EXCEPT ![s] = last] \/ sync' = [sync EXCEPT ![s] = more]
          BY <2>8 DEF PullSave
        <4> QED BY <4>1, <4>2
      <3>4. Held' /\ Stamps'
        BY <2>8, <3>3, HeldKept DEF PullSave, CleanInv
      <3> QED BY <3>2, <3>4 DEF CleanInv
    <2>9. ASSUME NEW s \in Syncs, PushRead(s) PROVE CleanInv'
      <3>1. PICK p : sync' = [sync EXCEPT ![s] = Holding(sync[s], "pushing", p)]
        BY <2>9 DEF PushRead, TypeOK
      <3>2. Holding(sync[s], "pushing", p).pc = "pushing"
        BY DEF Holding, TypeOK, SyncStates
      <3>3. Held' /\ Stamps'
        BY <2>9, <3>1, <3>2, HeldKept DEF PushRead, CleanInv
      <3> QED BY <2>9, <3>3 DEF PushRead, CleanInv, CleanIsServers
    <2>10. ASSUME NEW s \in Syncs, PushAnswer(s) PROVE CleanInv'
      <3> DEFINE stamped(u) == [in |-> TRUE, val |-> sync[s].page[u].val, lmt |-> now + 1]
      <3>1. PICK refused \in SUBSET Got(s) :
              /\ server' = [u \in Units |-> IF u \in Got(s) \ refused THEN stamped(u) ELSE server[u]]
              /\ sync' = [sync EXCEPT ![s] = [Holding(@, "pushed",
                    [u \in Units |-> IF u \in Got(s) \ refused THEN stamped(u) ELSE @.page[u]])
                    EXCEPT !.refused = refused]]
        BY <2>10 DEF PushAnswer
      <3> DEFINE answered == [u \in Units |-> IF u \in Got(s) \ refused THEN stamped(u) ELSE sync[s].page[u]]
      <3>2. sync' = [sync EXCEPT ![s] = [Holding(sync[s], "pushed", answered) EXCEPT !.refused = refused]]
        BY <3>1 DEF TypeOK
      <3>3. sync'[s].pc = "pushed" /\ sync'[s].page = answered /\ sync'[s].refused = refused
        <4> HIDE DEF answered
        <4> QED BY <3>2 DEF TypeOK, SyncStates, Holding
      <3>4. \A v \in Units : server'[v] = server[v]
                             \/ (server'[v].in /\ server'[v].lmt = now + 1 /\ now' = now + 1)
        BY <2>10, <3>1 DEF PushAnswer
      <3>5. Held'
        <4> SUFFICES ASSUME NEW r \in Syncs, sync'[r].pc \in {"pulled", "pushed"},
                            NEW u \in Got(r)' \ sync'[r].refused
                     PROVE  Behind(sync'[r].page[u], server'[u])
          BY DEF Held, Behind
        <4>1. CASE r = s
          <5>1. u \in Units /\ answered[u].in /\ u \notin refused
            BY <3>3, <4>1 DEF Got
          <5>2. u \in Got(s) \ refused
            BY <5>1 DEF Got
          <5>3. answered[u] = stamped(u) /\ server'[u] = stamped(u)
            BY <3>1, <5>1, <5>2
          <5> QED BY <2>c, <3>3, <4>1, <5>3 DEF Behind
        <4>2. CASE r # s
          <5>1. sync'[r] = sync[r] /\ Got(r)' = Got(r)
            BY <3>2, <4>2 DEF TypeOK, Got
          <5>2. Behind(sync[r].page[u], server[u])
            BY <5>1 DEF CleanInv, Held
          <5>3. u \in Units /\ sync[r].page[u] \in ServerUnits
            BY <5>1 DEF Got, TypeOK, SyncStates
          <5> QED BY <3>4, <5>1, <5>2, <5>3, StampedAnew DEF CleanInv
        <4> QED BY <4>1, <4>2
      <3>6. Stamps'
        <4>1. ASSUME NEW r \in Syncs, sync'[r].pc \in {"pull", "pulled"}
              PROVE  sync'[r].refused = {}
          BY <4>1, <3>2, <3>3 DEF TypeOK, CleanInv, Stamps
        <4>2. ASSUME NEW u \in Units PROVE server'[u].lmt <= now'
          <5>1. server[u].lmt <= now /\ server[u].lmt \in Nat /\ now' = now + 1
            BY <2>b, <2>10 DEF PushAnswer, CleanInv, Stamps
          <5> QED BY <2>c, <3>4, <5>1
        <4> QED BY <4>1, <4>2 DEF Stamps
      <3>7. CleanIsServers'
        <4> SUFFICES ASSUME NEW v \in Units, row[v].in, ~row[v].dirty
                     PROVE  row[v].id /\ Behind(row[v], server'[v])
          BY <2>10 DEF PushAnswer, CleanIsServers, Behind
        <4>0. row[v] \in Rows \cup ServerUnits
          BY <2>a
        <4>1. row[v].id /\ Behind(row[v], server[v])
          BY <2>d
        <4>2. Behind(row[v], server'[v])
          BY <3>4, <4>0, <4>1, StampedAnew DEF CleanInv
        <4> QED BY <4>1, <4>2
      <3> QED BY <3>5, <3>6, <3>7 DEF CleanInv
    <2>11. ASSUME NEW s \in Syncs, PushSave(s) PROVE CleanInv'
      <3>1. Saved(s) \in SUBSET (Got(s) \ sync[s].refused)
        BY DEF Saved
      <3>2. CleanIsServers'
        BY <2>11, <3>1, SavedIsServers DEF PushSave, End
      <3> QED BY <2>11, <2>5, <3>2 DEF PushSave, Outcomes
    <2>12. CASE UNCHANGED vars
      BY <2>12 DEF vars, CleanInv, CleanIsServers, Held, Got, Stamps, Behind
    <2> QED BY <2>1, <2>2, <2>3, <2>4, <2>6, <2>7, <2>8, <2>9, <2>10, <2>11, <2>12 DEF Next, SyncStep
  <1> QED BY <1>1, <1>2, TypeCorrect, PTL DEF Spec

\* A clean row is what the server once had (CleanIsServers), with or without Back, for
\* any number of syncs at once and any page size: the rows the code marks clean were not
\* made up from an answer that had an error or from a copy that was edited.
THEOREM CleanRowsAreTheServers == Spec => []CleanIsServers
  <1>1. CleanInv => CleanIsServers
    BY DEF CleanInv
  <1> QED BY <1>1, CleanInvariant, PTL

(***************************************************************************)
(* Without Back a sync runs alone.                                         *)
(***************************************************************************)

\* While a sync runs it is the only one, its dialog shows, and no unit is open for editing.
Quiet ==
    /\ Running # {} => dialog /\ edit.open = {}
    /\ \A s, t \in Running : s = t

\* What is pushed is what the rows hold.
Fresh ==
    \A s \in Syncs : sync[s].pc \in {"pushing", "pushed"} =>
        \A u \in Got(s) : sync[s].page[u].val = row[u].val

\* When the one running sync ends, none runs.
LEMMA EndQuiet ==
    ASSUME TypeOK, Quiet, NEW s \in Running, NEW o, End(s, o)
    PROVE  Quiet' /\ Fresh'
  <1>1. Running' = {}
    <2>1. ASSUME NEW t \in Syncs PROVE sync'[t].pc = "idle"
      BY SyncRecords DEF End, Quiet, Running, TypeOK
    <2> QED BY <2>1 DEF Running
  <1>2. \A t \in Syncs : sync'[t].pc \notin {"pushing", "pushed"}
    BY <1>1 DEF Running
  <1> QED BY <1>1, <1>2 DEF Quiet, Fresh

\* The one running sync goes on.
LEMMA GoesOn ==
    ASSUME TypeOK, Quiet, NEW s \in Running, UNCHANGED <<dialog, edit>>,
           NEW x, sync' = [sync EXCEPT ![s] = x], x.pc # "idle",
           x.pc \in {"pushing", "pushed"} =>
               \A u \in Units : x.page[u].in => x.page[u].val = row'[u].val
    PROVE  Quiet' /\ Fresh'
  <1>1. Running' = {s}
    BY DEF Running, Quiet, TypeOK
  <1>2. Quiet'
    BY <1>1 DEF Quiet
  <1>3. ASSUME NEW t \in Syncs, sync'[t].pc \in {"pushing", "pushed"}, NEW u \in Got(t)'
        PROVE  sync'[t].page[u].val = row'[u].val
    <2>1. t = s
      BY <1>1, <1>3 DEF Running
    <2>2. sync'[t] = x
      BY <2>1 DEF Running, TypeOK
    <2> QED BY <1>3, <2>2 DEF Got
  <1> QED BY <1>2, <1>3 DEF Fresh

\* The dialog of a sync keeps other syncs, edits and form uploads out.
LEMMA QuietInvariant == ASSUME ~BackDismisses PROVE Spec => [](Quiet /\ Fresh)
  <1>1. Init => Quiet /\ Fresh
    BY SyncRecords DEF Init, Quiet, Fresh, Running
  <1>2. TypeOK /\ Quiet /\ Fresh /\ [Next]_vars => Quiet' /\ Fresh'
    <2> SUFFICES ASSUME TypeOK, Quiet, Fresh, [Next]_vars PROVE Quiet' /\ Fresh'
      OBVIOUS
    <2>1. ASSUME NEW u \in Units, SaveUnit(u) \/ UploadClientUnit(u) PROVE Quiet' /\ Fresh'
      <3>1. Running = {} /\ UNCHANGED sync
        BY <2>1 DEF SaveUnit, UploadClientUnit, Quiet
      <3> QED BY <3>1 DEF Quiet, Fresh, Running
    <2>2. CASE (\E u \in Units : OpenUnit(u)) \/ CloseUnit
      <3>1. Running = {} /\ UNCHANGED <<sync, row>>
        BY <2>2 DEF OpenUnit, CloseUnit, Quiet
      <3> QED BY <3>1 DEF Quiet, Fresh, Running
    <2>3. ASSUME NEW u \in Units, OtherWrites(u) PROVE Quiet' /\ Fresh'
      BY <2>3 DEF OtherWrites, Quiet, Fresh, Running, Got
    <2>4. ASSUME NEW s \in Syncs, StartSync(s) PROVE Quiet' /\ Fresh'
      <3>1. Running = {}
        BY <2>4 DEF StartSync, Quiet
      <3>2. sync'[s].pc = "pull" /\ Running' = {s}
        BY <2>4, <3>1 DEF StartSync, Running, TypeOK, IdleSync
      <3>3. \A t \in Syncs : sync'[t].pc \notin {"pushing", "pushed"}
        BY <3>2 DEF Running
      <3> QED BY <2>4, <3>2, <3>3 DEF StartSync, Quiet, Fresh
    <2>5. ASSUME NEW s \in Syncs, SyncFails(s) \/ PullClash(s) \/ PushNothing(s) \/ PushSave(s)
          PROVE  Quiet' /\ Fresh'
      BY <2>5, EndQuiet DEF SyncFails, PullClash, PushNothing, PushSave, Running
    <2>6. ASSUME NEW s \in Syncs, PullAnswer(s) PROVE Quiet' /\ Fresh'
      <3>1. PICK p : sync' = [sync EXCEPT ![s] = Holding(sync[s], "pulled", p)]
        BY <2>6 DEF PullAnswer, TypeOK
      <3>2. Holding(sync[s], "pulled", p).pc = "pulled"
        BY DEF Holding, TypeOK, SyncStates
      <3> QED BY <2>6, <3>1, <3>2, GoesOn DEF PullAnswer, Running
    <2>7. ASSUME NEW s \in Syncs, PullSave(s) PROVE Quiet' /\ Fresh'
      <3> DEFINE more == [IdleSync EXCEPT !.pc = "pull", !.mark = Watermark(row')]
                 last == [IdleSync EXCEPT !.pc = "push"]
      <3>1. more.pc = "pull" /\ last.pc = "push"
        BY DEF IdleSync
      <3>2. sync' = [sync EXCEPT ![s] = last] \/ sync' = [sync EXCEPT ![s] = more]
        BY <2>7 DEF PullSave
      <3> HIDE DEF more, last
      <3> QED BY <2>7, <3>1, <3>2, GoesOn DEF PullSave, Running
    <2>8. ASSUME NEW s \in Syncs, PushRead(s) PROVE Quiet' /\ Fresh'
      <3> DEFINE read == [u \in Units |-> IF u \in Dirty
                            THEN [in |-> TRUE, val |-> row[u].val, lmt |-> IF row[u].id THEN row[u].lmt ELSE 0]
                            ELSE NoUnit]
      <3>1. sync' = [sync EXCEPT ![s] = Holding(sync[s], "pushing", read)]
        BY <2>8 DEF PushRead, TypeOK
      <3>2. \A u \in Units : read[u].in => read[u].val = row[u].val
        BY DEF NoUnit
      <3> HIDE DEF read
      <3>3. PICK x : sync' = [sync EXCEPT ![s] = x] /\ x.pc = "pushing" /\ x.page = read
        <4>1. /\ Holding(sync[s], "pushing", read).pc = "pushing"
              /\ Holding(sync[s], "pushing", read).page = read
          BY DEF Holding, TypeOK, SyncStates
        <4> QED BY <3>1, <4>1
      <3>4. s \in Running /\ UNCHANGED <<row, dialog, edit>>
        BY <2>8 DEF PushRead, Running
      <3> QED BY <3>2, <3>3, <3>4, GoesOn
    <2>9. ASSUME NEW s \in Syncs, PushAnswer(s) PROVE Quiet' /\ Fresh'
      <3> DEFINE stamped(u) == [in |-> TRUE, val |-> sync[s].page[u].val, lmt |-> now + 1]
      <3>1. PICK refused \in SUBSET Got(s) :
              sync' = [sync EXCEPT ![s] = [Holding(@, "pushed",
                    [u \in Units |-> IF u \in Got(s) \ refused THEN stamped(u) ELSE @.page[u]])
                    EXCEPT !.refused = refused]]
        BY <2>9 DEF PushAnswer
      <3> DEFINE answered == [u \in Units |-> IF u \in Got(s) \ refused THEN stamped(u) ELSE sync[s].page[u]]
      <3>2. sync' = [sync EXCEPT ![s] = [Holding(sync[s], "pushed", answered) EXCEPT !.refused = refused]]
        BY <3>1 DEF TypeOK
      <3>3. \A u \in Units : answered[u].in => answered[u].val = row[u].val
        <4>1. \A u \in Units : answered[u].val = sync[s].page[u].val /\ (answered[u].in => u \in Got(s))
          BY DEF Got
        <4>2. \A u \in Got(s) : sync[s].page[u].val = row[u].val
          BY <2>9 DEF PushAnswer, Fresh
        <4> QED BY <4>1, <4>2
      <3> HIDE DEF answered
      <3>4. PICK x : sync' = [sync EXCEPT ![s] = x] /\ x.pc = "pushed" /\ x.page = answered
        <4> DEFINE y == [Holding(sync[s], "pushed", answered) EXCEPT !.refused = refused]
        <4>1. y.pc = "pushed" /\ y.page = answered
          BY DEF Holding, TypeOK, SyncStates
        <4>2. sync' = [sync EXCEPT ![s] = y]
          BY <3>2
        <4> HIDE DEF y
        <4> QED BY <4>1, <4>2
      <3>5. s \in Running /\ UNCHANGED <<row, dialog, edit>>
        BY <2>9 DEF PushAnswer, Running
      <3> QED BY <3>3, <3>4, <3>5, GoesOn
    <2>10. CASE BackOnDialog \/ UNCHANGED vars
      BY <2>10 DEF BackOnDialog, vars, Quiet, Fresh, Running, Got
    <2> QED BY <2>1, <2>2, <2>3, <2>4, <2>5, <2>6, <2>7, <2>8, <2>9, <2>10 DEF Next, SyncStep
  <1> QED BY <1>1, <1>2, TypeCorrect, PTL DEF Spec

\* As long as the dialog is waited for, a sync keeps the content of every unit that was
\* added on the tablet and has no remote id yet: pulled units are only saved over rows
\* they share an id with, and what comes back from a push is what was sent.
THEOREM NewUnitsAreKept == ASSUME ~BackDismisses PROVE Spec => NewUnitKept
  <1>1. TypeOK /\ Quiet /\ Fresh /\ [Next]_vars =>
          [\A u \in Units : row[u].in /\ ~row[u].id /\ Running # {} => row'[u].val = row[u].val]_vars
    <2> SUFFICES ASSUME TypeOK, Quiet, Fresh, Next, NEW u \in Units, row[u].in, ~row[u].id, Running # {}
                 PROVE  row'[u].val = row[u].val
      OBVIOUS
    <2>1. ASSUME NEW v \in Units, OpenUnit(v) \/ SaveUnit(v) \/ OtherWrites(v) \/ UploadClientUnit(v)
          PROVE  UNCHANGED row
      BY <2>1 DEF OpenUnit, SaveUnit, OtherWrites, UploadClientUnit, Quiet
    <2>2. ASSUME NEW s \in Syncs, PullSave(s) PROVE row'[u].val = row[u].val
      <3>1. u \notin Got(s)
        BY <2>2 DEF PullSave, Clash
      <3> QED BY <2>2, <3>1 DEF PullSave
    <2>3. ASSUME NEW s \in Syncs, PushSave(s) PROVE row'[u].val = row[u].val
      <3>1. CASE u \in Saved(s)
        <4>1. row'[u] = FromServer(sync[s].page[u])
          BY <2>3, <3>1 DEF PushSave
        <4>2. sync[s].page[u].val = row[u].val
          BY <2>3, <3>1 DEF PushSave, Saved, Fresh
        <4> QED BY <4>1, <4>2 DEF FromServer
      <3>2. CASE u \notin Saved(s)
        BY <2>3, <3>2 DEF PushSave
      <3> QED BY <3>1, <3>2
    <2>4. ASSUME NEW s \in Syncs, StartSync(s) \/ PullAnswer(s) \/ PullClash(s) \/ PushRead(s)
                                  \/ PushNothing(s) \/ PushAnswer(s) \/ SyncFails(s)
          PROVE  UNCHANGED row
      BY <2>4 DEF StartSync, PullAnswer, PullClash, PushRead, PushNothing, PushAnswer, SyncFails
    <2>5. CASE CloseUnit \/ BackOnDialog
      BY <2>5 DEF CloseUnit, BackOnDialog
    <2> QED BY <2>1, <2>2, <2>3, <2>4, <2>5 DEF Next, SyncStep
  <1> QED BY <1>1, TypeCorrect, QuietInvariant, PTL DEF Spec, NewUnitKept

(***************************************************************************)
(* Pages.                                                                  *)
(***************************************************************************)

\* A set of times has an oldest.
LEMMA Oldest == ASSUME NEW S \in SUBSET Nat, S # {} PROVE \E n \in S : \A m \in S : n <= m
  <1> DEFINE R == {p \in Nat \X Nat : p[1] < p[2]}
  <1>1. IsWellFoundedOn(R, Nat)
    BY NatLessThanWellFounded DEF OpToRel
  <1>2. PICK n \in S : \A m \in S : ~(<<m, n>> \in R)
    BY <1>1, WFMin
  <1>3. \A m \in S : ~(m < n)
    BY <1>2
  <1> QED BY <1>3

\* What of Newer(m) is older than u.
Before(m, u) == {v \in Newer(m) : server[v].lmt < server[u].lmt}

\* Sets of units are finite, and a part of one has no more members.
LEMMA Sizes ==
    ASSUME NEW S \in SUBSET Units, NEW T \in SUBSET S
    PROVE  Cardinality(S) \in Nat /\ Cardinality(T) \in Nat /\ Cardinality(T) <= Cardinality(S)
  <1>1. IsFiniteSet(S)
    BY SyncAssumption, FS_Subset
  <1> QED BY <1>1, FS_Subset, FS_CardinalityType

\* GetLatest leaves nothing out that is older than what it gives.
LEMMA PagesAreOldest ==
    ASSUME TypeOK, NEW m \in Nat, NEW u \in Units, NEW v \in Units, InPage(m, v), u \in Newer(m),
           server[u].lmt <= server[v].lmt
    PROVE  InPage(m, u)
  <1>1. server[u].lmt \in Nat /\ server[v].lmt \in Nat /\ \A w \in Units : server[w].lmt \in Nat
    BY DEF TypeOK, ServerUnits
  <1>2. Before(m, u) \subseteq Before(m, v) /\ Before(m, v) \subseteq Units
    BY <1>1 DEF Before, Newer
  <1>3. Cardinality(Before(m, u)) <= Cardinality(Before(m, v)) /\ Cardinality(Before(m, u)) \in Nat
        /\ Cardinality(Before(m, v)) \in Nat
    BY <1>2, Sizes
  <1>4. Cardinality(Before(m, v)) < PageSize
    BY DEF InPage, Before
  <1>5. Cardinality(Before(m, u)) < PageSize
    BY <1>3, <1>4, SyncAssumption
  <1> QED BY <1>5 DEF InPage, Before

\* A page that is not full is the last one.
LEMMA ShortPageIsLast ==
    ASSUME TypeOK, NEW m \in Nat, Cardinality({u \in Units : InPage(m, u)}) < PageSize
    PROVE  \A u \in Newer(m) : InPage(m, u)
  <1> DEFINE P == {u \in Units : InPage(m, u)}
             Out == Newer(m) \ P
             Times == {server[u].lmt : u \in Out}
  <1>0. \A w \in Units : server[w].lmt \in Nat
    BY DEF TypeOK, ServerUnits
  <1>1. SUFFICES ASSUME Out # {} PROVE FALSE
    BY DEF Newer
  <1>2. Times \in SUBSET Nat /\ Times # {}
    BY <1>0, <1>1 DEF Newer
  <1>3. PICK n \in Times : \A k \in Times : n <= k
    BY <1>2, Oldest
  <1>4. PICK u \in Out : n = server[u].lmt
    OBVIOUS
  <1>5. \A v \in Out : server[u].lmt <= server[v].lmt
    BY <1>3, <1>4
  <1>6. Before(m, u) \subseteq P /\ P \subseteq Units
    BY <1>0, <1>5 DEF Before, Newer
  <1>7. Cardinality(Before(m, u)) <= Cardinality(P) /\ Cardinality(Before(m, u)) \in Nat /\ Cardinality(P) \in Nat
    BY <1>6, Sizes
  <1>8. Cardinality(Before(m, u)) < PageSize
    BY <1>7, SyncAssumption
  <1>9. InPage(m, u)
    BY <1>8 DEF InPage, Before
  <1> QED BY <1>4, <1>9 DEF Newer

(***************************************************************************)
(* The invariant.                                                          *)
(***************************************************************************)

\* The tablet has u, edited or as the server has it.
Known(u) == row[u].in /\ (row[u].dirty \/ row[u].lmt = server[u].lmt)

\* The tablet knows all that the server has up to time t.
KnownUpTo(t) == \A u \in Units : server[u].in /\ server[u].lmt <= t => Known(u)

Complete == \A v \in Units : row[v].in /\ ~row[v].dirty => KnownUpTo(row[v].lmt)

\* The watermark 2000 is before anything the server has.
Since2000 == \A u \in Units : server[u].in => server[u].lmt > 0

\* The mark of a pull is one of those times, and a page is what the server still has.
Marked ==
    \A s \in Syncs :
        /\ sync[s].pc \in {"pull", "pulled"} => KnownUpTo(sync[s].mark)
        /\ sync[s].pc = "pulled" =>
             /\ Got(s) = {u \in Units : InPage(sync[s].mark, u)}
             /\ \A u \in Got(s) : sync[s].page[u] = server[u]

\* After the last page the tablet has everything.
AllHere == \A s \in Syncs : sync[s].pc \in {"push", "pushing", "pushed"} =>
                              \A u \in Units : server[u].in => Known(u)

\* What is pushed are the edited rows; what was accepted is what the server has.
Pushing ==
    \A s \in Syncs :
        /\ sync[s].pc \in {"pushing", "pushed"} => Got(s) = Dirty
        /\ sync[s].pc = "pushed" =>
             \A u \in Got(s) \ sync[s].refused : server[u].in /\ sync[s].page[u] = server[u]

Told == Complete /\ Since2000 /\ Marked /\ AllHere /\ Pushing

\* What the server had when the sync began it still has.
Kept == \A u \in began : server[u].in

\* The newest clean row's time, or 2000, is a time up to which everything is known.
LEMMA WatermarkKnown == TypeOK /\ Complete /\ Since2000 => KnownUpTo(Watermark(row))
  <1> SUFFICES ASSUME TypeOK, Complete, Since2000 PROVE KnownUpTo(Watermark(row))
    OBVIOUS
  <1>1. CASE \E u \in Units : NewestClean(row, u)
    <2> DEFINE w == CHOOSE u \in Units : NewestClean(row, u)
    <2>1. w \in Units /\ NewestClean(row, w)
      BY <1>1
    <2>2. Watermark(row) = row[w].lmt
      BY <1>1 DEF Watermark
    <2> HIDE DEF w
    <2> QED BY <2>1, <2>2 DEF NewestClean, Complete
  <1>2. CASE ~\E u \in Units : NewestClean(row, u)
    <2>1. Watermark(row) = 0
      BY <1>2 DEF Watermark
    <2>2. ASSUME NEW u \in Units, server[u].in, server[u].lmt <= 0 PROVE FALSE
      BY <2>2 DEF Since2000, TypeOK, ServerUnits
    <2> QED BY <2>1, <2>2 DEF KnownUpTo
  <1> QED BY <1>1, <1>2

\* A sync that has ended carries nothing.
LEMMA Ended ==
    ASSUME TypeOK, Quiet, NEW s \in Running, NEW o, End(s, o), Complete', Since2000
    PROVE  Told'
  <1>1. \A t \in Syncs : sync'[t].pc = "idle"
    BY SyncRecords DEF End, Quiet, Running, TypeOK
  <1>2. Since2000'
    BY DEF End, Since2000
  <1> QED BY <1>1, <1>2 DEF Told, Marked, AllHere, Pushing

\* Where only one slot is not idle, that one is all there is to show.
LEMMA OnlyOne ==
    ASSUME TypeOK, Quiet, NEW s \in Running, NEW x, sync' = [sync EXCEPT ![s] = x]
    PROVE  sync'[s] = x /\ \A t \in Syncs : sync'[t].pc # "idle" => t = s
  BY DEF Quiet, Running, TypeOK

\* While no sync runs, only the table and the server have something to show.
LEMMA NoneRuns ==
    ASSUME Running' = {}, Complete', Since2000'
    PROVE  Told'
  BY DEF Told, Marked, AllHere, Pushing, Running

\* Rows that were pulled are as complete as those that were there.
LEMMA PulledIsComplete ==
    ASSUME TypeOK, Told, NEW s \in Syncs, PullSave(s)
    PROVE  /\ Complete'
           /\ Cardinality(Got(s)) < PageSize => \A u \in Units : server[u].in => Known(u)'
  <1> DEFINE m == sync[s].mark
  <1>1. /\ KnownUpTo(m) /\ Got(s) = {u \in Units : InPage(m, u)} /\ m \in Nat
        /\ \A u \in Got(s) : sync[s].page[u] = server[u]
    BY DEF PullSave, Told, Marked, TypeOK, SyncStates
  <1>2. UNCHANGED server /\ \A w \in Units : server[w].lmt \in Nat
    BY DEF PullSave, TypeOK, ServerUnits
  <1>3. ASSUME NEW u \in Got(s) PROVE /\ row'[u].in /\ ~row'[u].dirty
                                      /\ row'[u].lmt = server[u].lmt /\ Known(u)'
    <2>1. row'[u] = FromServer(server[u]) /\ u \in Units
      BY <1>1 DEF PullSave, Got
    <2> QED BY <1>2, <2>1 DEF FromServer, Known
  <1>4. ASSUME NEW u \in Units, u \notin Got(s) PROVE row'[u] = row[u]
    BY <1>4 DEF PullSave
  <1>5. ASSUME NEW u \in Units, Known(u) PROVE Known(u)'
    <2>1. CASE u \in Got(s)
      BY <1>3, <2>1
    <2>2. CASE u \notin Got(s)
      BY <1>2, <1>4, <1>5, <2>2 DEF Known
    <2> QED BY <2>1, <2>2
  <1> HIDE DEF m
  <1>6. ASSUME NEW v \in Units, row'[v].in, ~row'[v].dirty,
               NEW u \in Units, server[u].in, server[u].lmt <= row'[v].lmt
        PROVE  Known(u)'
    <2>1. CASE v \in Got(s)
      <3>1. server[u].lmt <= server[v].lmt /\ InPage(m, v)
        BY <1>1, <1>3, <1>6, <2>1
      <3>2. CASE server[u].lmt <= m
        <4>1. Known(u)
          BY <1>1, <1>6, <3>2 DEF KnownUpTo
        <4> QED BY <1>5, <4>1
      <3>3. CASE ~(server[u].lmt <= m)
        <4>1. u \in Newer(m)
          BY <1>1, <1>2, <1>6, <3>3 DEF Newer
        <4>2. InPage(m, u)
          BY <1>1, <3>1, <4>1, PagesAreOldest
        <4> QED BY <1>1, <1>3, <4>2
      <3> QED BY <3>2, <3>3
    <2>2. CASE v \notin Got(s)
      <3>1. row[v].in /\ ~row[v].dirty /\ server[u].lmt <= row[v].lmt
        BY <1>4, <1>6, <2>2
      <3>2. Known(u)
        BY <1>6, <3>1 DEF Told, Complete, KnownUpTo
      <3> QED BY <1>5, <3>2
    <2> QED BY <2>1, <2>2
  <1>7. Complete'
    BY <1>2, <1>6 DEF Complete, KnownUpTo, Known
  <1>8. ASSUME Cardinality(Got(s)) < PageSize, NEW u \in Units, server[u].in PROVE Known(u)'
    <2>1. CASE server[u].lmt <= m
      <3>1. Known(u)
        BY <1>1, <1>8, <2>1 DEF KnownUpTo
      <3> QED BY <1>5, <3>1
    <2>2. CASE ~(server[u].lmt <= m)
      <3>1. u \in Newer(m)
        BY <1>1, <1>2, <1>8, <2>2 DEF Newer
      <3>2. Cardinality({w \in Units : InPage(m, w)}) < PageSize
        BY <1>1, <1>8
      <3>3. InPage(m, u)
        BY <1>1, <3>1, <3>2, ShortPageIsLast
      <3> QED BY <1>1, <1>3, <3>3
    <2> QED BY <2>1, <2>2
  <1> QED BY <1>7, <1>8

\* Once everything is here, rows saved from a push are as complete as the others.
LEMMA PushedIsComplete ==
    ASSUME TypeOK, Told, NEW s \in Syncs, PushSave(s)
    PROVE  Complete'
  <1>1. /\ \A u \in Units : server[u].in => Known(u)
        /\ \A u \in Saved(s) : sync[s].page[u] = server[u]
        /\ UNCHANGED server
    BY DEF PushSave, End, Told, AllHere, Pushing, Saved
  <1>2. ASSUME NEW u \in Units, server[u].in PROVE Known(u)'
    <2>1. CASE u \in Saved(s)
      <3>1. row'[u] = FromServer(server[u])
        BY <1>1, <2>1 DEF PushSave
      <3> QED BY <1>1, <3>1 DEF FromServer, Known
    <2>2. CASE u \notin Saved(s)
      <3>1. row'[u] = row[u]
        BY <2>2 DEF PushSave
      <3> QED BY <1>1, <1>2, <3>1 DEF Known
    <2> QED BY <2>1, <2>2
  <1> QED BY <1>1, <1>2 DEF Complete, KnownUpTo

\* A step that changes neither table nor server, but the slot that runs.
LEMMA SlotOnly ==
    ASSUME TypeOK, Quiet, Told, NEW s \in Running, UNCHANGED <<row, server>>,
           NEW x, sync' = [sync EXCEPT ![s] = x],
           x.pc \in {"pull", "pulled"} => KnownUpTo(x.mark),
           x.pc = "pulled" => /\ {u \in Units : x.page[u].in} = {u \in Units : InPage(x.mark, u)}
                              /\ \A u \in Units : x.page[u].in => x.page[u] = server[u],
           x.pc \in {"push", "pushing"} => sync[s].pc \in {"push", "pushing", "pushed"},
           x.pc = "pushing" => {u \in Units : x.page[u].in} = Dirty,
           x.pc # "pushed"
    PROVE  Told'
  <1>1. Complete' /\ Since2000'
    BY DEF Told, Complete, KnownUpTo, Known, Since2000
  <1>2. sync'[s] = x /\ \A t \in Syncs : sync'[t].pc # "idle" => t = s
    BY OnlyOne
  <1>3. Got(s)' = {u \in Units : x.page[u].in} /\ Dirty' = Dirty
    BY <1>2 DEF Got, Dirty
  <1>4. Marked'
    <2> SUFFICES ASSUME NEW t \in Syncs
                 PROVE  /\ sync'[t].pc \in {"pull", "pulled"} => KnownUpTo(sync[t].mark)'
                        /\ sync'[t].pc = "pulled" =>
                             /\ Got(t)' = {u \in Units : InPage(sync[t].mark, u)}'
                             /\ \A u \in Got(t)' : sync'[t].page[u] = server'[u]
      BY DEF Marked
    <2>1. CASE t = s
      <3>1. sync'[t].pc = "pulled" => Got(t)' = {u \in Units : InPage(sync[t].mark, u)}'
        BY <1>2, <1>3, <2>1 DEF InPage, Newer
      <3>2. sync'[t].pc = "pulled" => \A u \in Got(t)' : sync'[t].page[u] = server'[u]
        BY <1>2, <1>3, <2>1
      <3>3. sync'[t].pc \in {"pull", "pulled"} => KnownUpTo(sync[t].mark)'
        BY <1>2, <2>1 DEF KnownUpTo, Known
      <3> QED BY <3>1, <3>2, <3>3
    <2>2. CASE t # s
      BY <1>2, <2>2
    <2> QED BY <2>1, <2>2
  <1>5. AllHere'
    <2>1. ASSUME sync[s].pc \in {"push", "pushing", "pushed"}, NEW u \in Units, server[u].in PROVE Known(u)
      BY <2>1 DEF Told, AllHere, Running
    <2> QED BY <1>2, <2>1 DEF AllHere, Known
  <1>6. Pushing'
    BY <1>2, <1>3 DEF Pushing
  <1> QED BY <1>1, <1>4, <1>5, <1>6 DEF Told

(***************************************************************************)
(* The steps.                                                              *)
(***************************************************************************)

\* The assumptions of the theorem: one sync at a time, and nobody else at the server in it.
Alone == ~BackDismisses /\ ~FormUploads /\ Others # "anytime"

\* A unit saved on the tablet, or written by another one between syncs, is newer than what is there.
LEMMA WrittenBetween ==
    ASSUME Alone, TypeOK, CleanInv, Quiet, Told, NEW u \in Units, SaveUnit(u) \/ OtherWrites(u)
    PROVE  Told'
  <1>1. /\ Running = {} /\ UNCHANGED sync /\ now \in Nat
        /\ \A w \in Units : server[w].lmt \in Nat /\ row[w].lmt \in Nat
    BY DEF SaveUnit, OtherWrites, Quiet, Alone, TypeOK, ServerUnits, Rows
  <1>2. Running' = {}
    BY <1>1 DEF Running
  <1>3. CASE SaveUnit(u)
    <2>1. row' = [row EXCEPT ![u] = Edited(edit.id, now + 1)] /\ UNCHANGED server
      BY <1>3 DEF SaveUnit
    <2>2. row'[u].in /\ row'[u].dirty
      BY <2>1 DEF TypeOK, Edited
    <2>3. \A w \in Units : w # u => row'[w] = row[w]
      BY <2>1 DEF TypeOK
    <2>4. \A w \in Units : Known(w) => Known(w)'
      BY <2>1, <2>2, <2>3 DEF Known
    <2>5. Complete'
      BY <2>1, <2>2, <2>3, <2>4 DEF Told, Complete, KnownUpTo
    <2>6. Since2000'
      BY <2>1 DEF Told, Since2000
    <2> QED BY <1>2, <2>5, <2>6, NoneRuns
  <1>4. CASE OtherWrites(u)
    <2>1. server' = [server EXCEPT ![u] = [in |-> TRUE, val |-> now + 1, lmt |-> now + 1]] /\ UNCHANGED row
      BY <1>4 DEF OtherWrites
    <2>2. server'[u].lmt = now + 1 /\ \A w \in Units : w # u => server'[w] = server[w]
      BY <2>1 DEF TypeOK
    <2>3. ASSUME NEW v \in Units, row[v].in, ~row[v].dirty PROVE row[v].lmt <= now
      <3>1. row[v].lmt <= server[v].lmt /\ server[v].lmt <= now
        BY <2>3 DEF CleanInv, CleanIsServers, Stamps
      <3> QED BY <1>1, <3>1
    <2>4. ASSUME NEW v \in Units, row[v].in, ~row[v].dirty,
                 NEW w \in Units, server'[w].in, server'[w].lmt <= row[v].lmt
          PROVE  Known(w)'
      <3>1. w # u
        BY <1>1, <2>2, <2>3, <2>4
      <3>2. Known(w)
        BY <2>2, <2>4, <3>1 DEF Told, Complete, KnownUpTo
      <3> QED BY <2>1, <2>2, <3>1, <3>2 DEF Known
    <2>5. Complete'
      BY <2>1, <2>4 DEF Complete, KnownUpTo
    <2>6. Since2000'
      BY <1>1, <2>2 DEF Told, Since2000
    <2> QED BY <1>2, <2>5, <2>6, NoneRuns
  <1> QED BY <1>3, <1>4

\* A page is read as the server has it; nobody changes the server until it is saved.
LEMMA PullKeeps ==
    ASSUME TypeOK, TypeOK', Quiet, Told, NEW s \in Syncs, PullAnswer(s) \/ PullSave(s)
    PROVE  Told'
  <1>1. CASE PullAnswer(s)
    <2> DEFINE p == [u \in Units |-> IF InPage(sync[s].mark, u) THEN server[u] ELSE NoUnit]
               x == Holding(sync[s], "pulled", p)
    <2>1. sync' = [sync EXCEPT ![s] = x] /\ s \in Running /\ UNCHANGED <<row, server>>
      BY <1>1 DEF PullAnswer, TypeOK, Running
    <2>2. x.pc = "pulled" /\ x.mark = sync[s].mark /\ x.page = p
      BY DEF Holding, TypeOK, SyncStates
    <2>3. /\ {u \in Units : p[u].in} = {u \in Units : InPage(sync[s].mark, u)}
          /\ \A u \in Units : p[u].in => p[u] = server[u]
      BY DEF NoUnit, InPage, Newer
    <2>4. KnownUpTo(sync[s].mark)
      BY <1>1 DEF PullAnswer, Told, Marked
    <2> HIDE DEF x, p
    <2> QED BY <2>1, <2>2, <2>3, <2>4, SlotOnly
  <1>2. CASE PullSave(s)
    <2>1. /\ Complete'
          /\ Cardinality(Got(s)) < PageSize => \A u \in Units : server[u].in => Known(u)'
      BY <1>2, PulledIsComplete
    <2>2. Since2000' /\ UNCHANGED server /\ s \in Running
      BY <1>2 DEF PullSave, Told, Since2000, Running
    <2> DEFINE last == [IdleSync EXCEPT !.pc = "push"]
               more == [IdleSync EXCEPT !.pc = "pull", !.mark = Watermark(row')]
    <2>3. last.pc = "push" /\ more.pc = "pull" /\ more.mark = Watermark(row')
      BY DEF IdleSync
    <2>4. KnownUpTo(Watermark(row))'
      <3>1. (TypeOK /\ Complete /\ Since2000 => KnownUpTo(Watermark(row)))'
        BY WatermarkKnown, PTL
      <3> QED BY <2>1, <2>2, <3>1
    <2>5. PICK x \in {last, more} : /\ sync' = [sync EXCEPT ![s] = x]
                                    /\ x = last => Cardinality(Got(s)) < PageSize
      <3>1. last # more
        BY <2>3
      <3>2. sync' = [sync EXCEPT ![s] = IF Cardinality(Got(s)) < PageSize THEN last ELSE more]
        BY <1>2 DEF PullSave
      <3> HIDE DEF last, more
      <3> QED BY <3>1, <3>2
    <2>6. sync'[s] = x /\ \A t \in Syncs : sync'[t].pc # "idle" => t = s
      BY <2>2, <2>5, OnlyOne
    <2> HIDE DEF last, more
    <2>7. Marked'
      <3>1. \A t \in Syncs : sync'[t].pc # "pulled"
        BY <2>3, <2>5, <2>6
      <3>2. ASSUME NEW t \in Syncs, sync'[t].pc = "pull" PROVE KnownUpTo(sync[t].mark)'
        <4>1. sync'[t].mark = Watermark(row')
          BY <2>3, <2>5, <2>6, <3>2
        <4> QED BY <2>4, <4>1 DEF KnownUpTo
      <3> QED BY <3>1, <3>2 DEF Marked
    <2>8. AllHere'
      <3>1. ASSUME NEW t \in Syncs, sync'[t].pc \in {"push", "pushing", "pushed"} PROVE x = last
        BY <2>3, <2>5, <2>6, <3>1
      <3> QED BY <2>1, <2>2, <2>5, <3>1 DEF AllHere
    <2>9. Pushing'
      <3>1. \A t \in Syncs : sync'[t].pc \notin {"pushing", "pushed"}
        BY <2>3, <2>5, <2>6
      <3> QED BY <3>1 DEF Pushing
    <2> QED BY <2>1, <2>2, <2>7, <2>8, <2>9 DEF Told
  <1> QED BY <1>1, <1>2

\* The edited rows are read, and stamped by the server.
LEMMA PushKeeps ==
    ASSUME TypeOK, Quiet, Told, NEW s \in Syncs, PushRead(s) \/ PushAnswer(s)
    PROVE  Told'
  <1>1. CASE PushRead(s)
    <2> DEFINE p == [u \in Units |-> IF u \in Dirty
                       THEN [in |-> TRUE, val |-> row[u].val, lmt |-> IF row[u].id THEN row[u].lmt ELSE 0]
                       ELSE NoUnit]
               x == Holding(sync[s], "pushing", p)
    <2>1. /\ sync' = [sync EXCEPT ![s] = x] /\ s \in Running /\ UNCHANGED <<row, server>>
          /\ sync[s].pc = "push"
      BY <1>1 DEF PushRead, TypeOK, Running
    <2>2. x.pc = "pushing" /\ x.page = p
      BY DEF Holding, TypeOK, SyncStates
    <2>3. {u \in Units : p[u].in} = Dirty
      BY DEF NoUnit, Dirty
    <2> HIDE DEF x, p
    <2> QED BY <2>1, <2>2, <2>3, SlotOnly
  <1>2. CASE PushAnswer(s)
    <2> DEFINE stamped(u) == [in |-> TRUE, val |-> sync[s].page[u].val, lmt |-> now + 1]
    <2>1. PICK refused \in SUBSET Got(s) :
            /\ server' = [u \in Units |-> IF u \in Got(s) \ refused THEN stamped(u) ELSE server[u]]
            /\ sync' = [sync EXCEPT ![s] = [Holding(@, "pushed",
                  [u \in Units |-> IF u \in Got(s) \ refused THEN stamped(u) ELSE @.page[u]])
                  EXCEPT !.refused = refused]]
      BY <1>2 DEF PushAnswer
    <2> DEFINE p == [u \in Units |-> IF u \in Got(s) \ refused THEN stamped(u) ELSE sync[s].page[u]]
               x == [Holding(sync[s], "pushed", p) EXCEPT !.refused = refused]
    <2>2. sync' = [sync EXCEPT ![s] = x]
      BY <2>1 DEF TypeOK
    <2>3. x.pc = "pushed" /\ x.page = p /\ x.refused = refused
      BY DEF Holding, TypeOK, SyncStates
    <2>4. {u \in Units : p[u].in} = Got(s) /\ \A u \in Got(s) \ refused : server'[u].in /\ p[u] = server'[u]
      BY <2>1 DEF Got
    <2>5. /\ \A u \in Got(s) \ refused : server'[u].in /\ server'[u].lmt = now + 1
          /\ \A u \in Units : u \notin Got(s) \ refused => server'[u] = server[u]
      BY <2>1 DEF Got
    <2> HIDE DEF x, p, stamped
    <2>6. s \in Running /\ UNCHANGED row /\ Got(s) = Dirty /\ sync[s].pc = "pushing" /\ now \in Nat
      BY <1>2 DEF PushAnswer, Running, Told, Pushing, TypeOK
    <2>7. sync'[s] = x /\ \A t \in Syncs : sync'[t].pc # "idle" => t = s
      BY <2>2, <2>6, OnlyOne
    <2>8. ASSUME NEW u \in Units, server'[u].in PROVE Known(u)'
      <3>1. CASE u \in Got(s) \ refused
        BY <2>6, <3>1 DEF Dirty, Known
      <3>2. CASE u \notin Got(s) \ refused
        <4>1. Known(u)
          BY <2>5, <2>6, <2>8, <3>2 DEF Told, AllHere
        <4> QED BY <2>5, <2>6, <3>2, <4>1 DEF Known
      <3> QED BY <3>1, <3>2
    <2>9. Complete' /\ AllHere'
      BY <2>8 DEF Complete, KnownUpTo, AllHere
    <2>10. Since2000'
      BY <2>5, <2>6 DEF Told, Since2000
    <2>11. Marked'
      BY <2>3, <2>7 DEF Marked
    <2>12. Got(s)' = Got(s) /\ Dirty' = Dirty
      BY <2>3, <2>4, <2>6, <2>7 DEF Got, Dirty
    <2>13. Pushing'
      BY <2>3, <2>4, <2>6, <2>7, <2>12 DEF Pushing
    <2> QED BY <2>9, <2>10, <2>11, <2>13 DEF Told
  <1> QED BY <1>1, <1>2

\* Told holds throughout, while Alone.
LEMMA ToldInvariant == ASSUME Alone PROVE Spec => [](Told /\ Kept)
  <1>1. Init => Told /\ Kept
    <2> SUFFICES ASSUME Init PROVE Told /\ Kept
      OBVIOUS
    <2>1. \A u \in Units : row[u].in = FALSE /\ server[u].in = FALSE
      BY DEF Init, NoRow, NoUnit
    <2>2. \A s \in Syncs : sync[s].pc = "idle"
      BY SyncRecords DEF Init
    <2>3. Complete /\ Since2000
      BY <2>1 DEF Complete, Since2000
    <2>4. Marked /\ AllHere /\ Pushing
      BY <2>2 DEF Marked, AllHere, Pushing
    <2>5. Kept
      BY DEF Init, Kept
    <2> QED BY <2>3, <2>4, <2>5 DEF Told
  <1>2. TypeOK /\ TypeOK' /\ CleanInv /\ Quiet /\ Told /\ [Next]_vars => Told'
    <2> SUFFICES ASSUME TypeOK, TypeOK', CleanInv, Quiet, Told, [Next]_vars PROVE Told'
      OBVIOUS
    <2>1. ASSUME NEW u \in Units, SaveUnit(u) \/ OtherWrites(u) PROVE Told'
      BY <2>1, WrittenBetween
    <2>2. ASSUME NEW u \in Units, UploadClientUnit(u) PROVE Told'
      BY <2>2 DEF UploadClientUnit, Alone
    <2>3. ASSUME UNCHANGED <<row, server, sync>> PROVE Told'
      BY <2>3 DEF Told, Complete, KnownUpTo, Known, Since2000, Marked, AllHere, Pushing, Got, InPage,
                  Newer, Dirty
    <2>4. CASE (\E u \in Units : OpenUnit(u)) \/ CloseUnit \/ BackOnDialog \/ UNCHANGED vars
      BY <2>3, <2>4 DEF OpenUnit, CloseUnit, BackOnDialog, vars
    <2>5. ASSUME NEW s \in Syncs, StartSync(s) PROVE Told'
      <3> DEFINE x == [IdleSync EXCEPT !.pc = "pull", !.mark = Watermark(row)]
      <3>1. sync' = [sync EXCEPT ![s] = x] /\ UNCHANGED <<row, server>> /\ Running = {}
        BY <2>5 DEF StartSync, Quiet
      <3>2. x.pc = "pull" /\ x.mark = Watermark(row)
        BY DEF IdleSync
      <3> HIDE DEF x
      <3>3. sync'[s] = x /\ \A t \in Syncs : t # s => sync'[t].pc = "idle"
        BY <3>1 DEF TypeOK, Running
      <3>4. Complete' /\ Since2000'
        BY <3>1 DEF Told, Complete, KnownUpTo, Known, Since2000
      <3>5. KnownUpTo(Watermark(row))
        BY WatermarkKnown DEF Told
      <3>6. Marked'
        BY <3>1, <3>2, <3>3, <3>5 DEF Marked, KnownUpTo, Known
      <3>7. AllHere' /\ Pushing'
        BY <3>2, <3>3 DEF AllHere, Pushing
      <3> QED BY <3>4, <3>6, <3>7 DEF Told
    <2>6. ASSUME NEW s \in Syncs, PullAnswer(s) \/ PullSave(s) PROVE Told'
      BY <2>6, PullKeeps
    <2>7. ASSUME NEW s \in Syncs, PushRead(s) \/ PushAnswer(s) PROVE Told'
      BY <2>7, PushKeeps
    <2>8. ASSUME NEW s \in Syncs, PushSave(s) PROVE Told'
      <3>1. Complete' /\ s \in Running
        BY <2>8, PushedIsComplete DEF PushSave, Running
      <3> QED BY <2>8, <3>1, Ended DEF PushSave, Told
    <2>9. ASSUME NEW s \in Syncs, PullClash(s) \/ PushNothing(s) \/ SyncFails(s) PROVE Told'
      <3>1. UNCHANGED <<row, server>> /\ s \in Running
        BY <2>9 DEF PullClash, PushNothing, SyncFails, End, Running
      <3>2. Complete'
        BY <3>1 DEF Told, Complete, KnownUpTo, Known
      <3> QED BY <2>9, <3>1, <3>2, Ended DEF PullClash, PushNothing, SyncFails, Told
    <2> QED BY <2>1, <2>2, <2>4, <2>5, <2>6, <2>7, <2>8, <2>9 DEF Next, SyncStep
  <1>3. TypeOK /\ Kept /\ [Next]_vars => Kept'
    <2> SUFFICES ASSUME TypeOK, Kept, [Next]_vars PROVE Kept'
      OBVIOUS
    <2>1. ASSUME NEW u \in Units, OtherWrites(u) \/ UploadClientUnit(u) PROVE Kept'
      BY <2>1 DEF OtherWrites, UploadClientUnit, Kept, TypeOK
    <2>2. ASSUME NEW s \in Syncs, StartSync(s) PROVE Kept'
      BY <2>2 DEF StartSync, Kept
    <2>3. ASSUME NEW s \in Syncs, PushAnswer(s) PROVE Kept'
      <3>1. UNCHANGED began /\ \A u \in Units : server[u].in => server'[u].in
        BY <2>3 DEF PushAnswer
      <3> QED BY <3>1 DEF Kept, TypeOK
    <2>4. ASSUME UNCHANGED <<server, began>> PROVE Kept'
      BY <2>4 DEF Kept
    <2>5. ASSUME NEW u \in Units, OpenUnit(u) \/ SaveUnit(u) PROVE UNCHANGED <<server, began>>
      BY <2>5 DEF OpenUnit, SaveUnit
    <2>6. CASE CloseUnit \/ BackOnDialog \/ UNCHANGED vars
      BY <2>4, <2>6 DEF CloseUnit, BackOnDialog, vars
    <2>7. ASSUME NEW s \in Syncs, PullAnswer(s) \/ PullSave(s) \/ PullClash(s) \/ PushRead(s)
                                  \/ PushNothing(s) \/ PushSave(s) \/ SyncFails(s)
          PROVE  UNCHANGED <<server, began>>
      BY <2>7 DEF PullAnswer, PullSave, PullClash, PushRead, PushNothing, PushSave, SyncFails, End
    <2> QED BY <2>1, <2>2, <2>3, <2>4, <2>5, <2>6, <2>7 DEF Next, SyncStep
  <1>4. Spec => [](TypeOK /\ CleanInv /\ Quiet)
    BY TypeCorrect, CleanInvariant, QuietInvariant, PTL DEF Alone
  <1> QED BY <1>1, <1>2, <1>3, <1>4, PTL DEF Spec

\* When the user is told that the sync succeeded, the tablet has every unit the server
\* had when it began, and each unit's content is the server's: the pages since the
\* watermark were all there was to pull, and all that was edited has been pushed.
THEOREM SuccessIsInSync == ASSUME Alone PROVE Spec => SuccessMeansInSync
  <1> DEFINE Same == /\ \A u \in began : row'[u].in
                     /\ \A u \in Units : row'[u].in => server[u].in /\ row'[u].val = server[u].val
  <1>1. TypeOK /\ CleanInv /\ Quiet /\ Told /\ Kept /\ [Next]_vars =>
          [told' = "success" /\ told # "success" => Same]_vars
    <2> SUFFICES ASSUME TypeOK, CleanInv, Quiet, Told, Kept, Next, told' = "success", told # "success"
                 PROVE  Same
      OBVIOUS
    <2>1. PICK s \in Syncs : PushNothing(s) \/ (PushSave(s) /\ sync[s].refused = {})
      <3>1. ASSUME NEW u \in Units, OpenUnit(u) \/ SaveUnit(u) \/ OtherWrites(u) \/ UploadClientUnit(u)
            PROVE  FALSE
        BY <3>1 DEF OpenUnit, SaveUnit, OtherWrites, UploadClientUnit
      <3>2. ~CloseUnit /\ ~BackOnDialog
        BY DEF CloseUnit, BackOnDialog
      <3>3. ASSUME NEW s \in Syncs, StartSync(s) \/ PullAnswer(s) \/ PullSave(s) \/ PullClash(s) \/ PushRead(s)
                                    \/ PushAnswer(s) \/ SyncFails(s)
            PROVE  FALSE
        BY <3>3 DEF StartSync, PullAnswer, PullSave, PullClash, PushRead, PushAnswer, SyncFails, End
      <3>4. ASSUME NEW s \in Syncs, PushSave(s) PROVE sync[s].refused = {}
        BY <3>4 DEF PushSave, End
      <3> QED BY <3>1, <3>2, <3>3, <3>4 DEF Next, SyncStep
    <2>2. /\ \A u \in Units : server[u].in => Known(u)
          /\ began \subseteq Units /\ \A u \in began : server[u].in
      BY <2>1 DEF PushNothing, PushSave, Told, AllHere, Kept, TypeOK
    <2>3. \A u \in Units : row[u].in /\ ~row[u].dirty =>
             server[u].in /\ (row[u].lmt = server[u].lmt => row[u].val = server[u].val)
      BY DEF CleanInv, CleanIsServers
    <2>4. CASE PushNothing(s)
      BY <2>2, <2>3, <2>4 DEF PushNothing, Dirty, Known
    <2>5. CASE PushSave(s) /\ sync[s].refused = {}
      <3>1. /\ Saved(s) = Dirty
            /\ \A u \in Saved(s) : server[u].in /\ row'[u] = FromServer(server[u])
        BY <2>5 DEF PushSave, Saved, Told, Pushing, Dirty
      <3>2. \A u \in Saved(s) : row'[u].in /\ server[u].in /\ row'[u].val = server[u].val
        <4> SUFFICES ASSUME NEW u \in Saved(s)
                     PROVE  row'[u].in /\ server[u].in /\ row'[u].val = server[u].val
          OBVIOUS
        <4>1. server[u].in /\ row'[u] = FromServer(server[u])
          BY <3>1
        <4> QED BY <4>1 DEF FromServer
      <3>3. \A u \in Units : u \notin Saved(s) => row'[u] = row[u] /\ (row[u].in => ~row[u].dirty)
        BY <2>5, <3>1 DEF PushSave, Dirty
      <3> QED BY <2>2, <2>3, <3>2, <3>3 DEF Known
    <2> QED BY <2>1, <2>4, <2>5
  <1>2. Spec => [](TypeOK /\ CleanInv /\ Quiet /\ Told /\ Kept)
    BY TypeCorrect, CleanInvariant, QuietInvariant, ToldInvariant, PTL DEF Alone
  <1> QED BY <1>1, <1>2, PTL DEF Spec, SuccessMeansInSync

=============================================================================
