--------------------------- MODULE FormFinalProofs ---------------------------
(***************************************************************************)
(* Proofs about FormArchive when the user waits for the progress dialogs   *)
(* (Back does not cancel them), for every set of clients, samples,         *)
(* signature kinds and tasks and every bound: what the server holds, and   *)
(* that an archived form stays what it is.                                 *)
(***************************************************************************)
EXTENDS FormArchiveProofs

-----------------------------------------------------------------------------
(* The dialog keeps the user out while an image is made or an upload runs,  *)
(* and so at most one of them runs: nothing else in the code sees to that.  *)

Waiting ==
    /\ Behind => dialog /\ screen = "detail"
    /\ \A k, l \in ImgJobs : imgs[k].pc # "idle" /\ imgs[l].pc # "idle" => k = l
    /\ \A u, v \in UplJobs : upls[u].pc # "idle" /\ upls[v].pc # "idle" => u = v
    /\ \A k \in ImgJobs, u \in UplJobs : imgs[k].pc = "idle" \/ upls[u].pc = "idle"
    /\ \A u \in UplJobs : upls[u].pc = "idle" => ~upls[u].clientDone /\ upls[u].files = "check"

\* Whatever the user does is done while neither runs.
LEMMA UiWaits ==
  ASSUME ~BackDismisses, Waiting, UiStep
  PROVE  /\ ~Behind
         /\ \A k \in ImgJobs : imgs[k].pc = "idle"
         /\ \A u \in UplJobs : upls[u].pc = "idle" /\ ~upls[u].clientDone /\ upls[u].files = "check"
<1>1. ~Behind
  BY DEF Waiting, UiStep, ShowAddSampleType, SampleTypeResult, ShowCompany, CompanyResult,
         ShowSampling, SampleSave, SampleResult, LongClickSample, DeleteSample, Cancel,
         ShowSignature, Paint, SignSave, SignResult, BackOnDialog, Close, ClearForm, Open,
         CreateImage, UploadArchives, Tap, Touchable
<1>. QED
  BY <1>1 DEF Behind, Waiting

\* A step of the user starts at most one task, under its dialog, and sends nothing.
LEMMA UiStarts ==
  ASSUME ~BackDismisses, TypeInv, Waiting, UiStep
  PROVE  /\ server' = server /\ lost' = lost
         /\ \A u \in UplJobs : ~upls'[u].clientDone /\ upls'[u].files = "check"
                               /\ upls'[u].pc \in {"idle", "parts"}
         /\ \A k \in ImgJobs : imgs'[k].pc \in {"idle", "samples"}
         /\ \A u \in UplJobs : upls'[u].pc # "idle" => UploadArchives(u)
         /\ \A k \in ImgJobs : imgs'[k].pc # "idle" => CreateImage(k)
<1>. USE UiWaits
<1>0. imgs \in [ImgJobs -> ImgTask] /\ upls \in [UplJobs -> UplTask]
  BY DEF TypeInv, TypeOK
<1>1. ASSUME NEW k \in ImgJobs, CreateImage(k)
      PROVE  /\ server' = server /\ lost' = lost /\ upls' = upls
             /\ \A l \in ImgJobs : imgs'[l].pc = IF l = k THEN "samples" ELSE "idle"
  <2>. DEFINE t == [IdleImg EXCEPT !.pc = "samples", !.here = TRUE]
  <2>1. imgs' = [imgs EXCEPT ![k] = t] /\ t.pc = "samples"
    BY <1>1 DEF CreateImage, IdleImg
  <2>2. server' = server /\ lost' = lost /\ upls' = upls
    BY <1>1 DEF CreateImage, counts
  <2>. HIDE DEF t
  <2>. QED
    BY <1>0, <2>1, <2>2
<1>2. ASSUME NEW u \in UplJobs, UploadArchives(u)
      PROVE  /\ server' = server /\ lost' = lost /\ imgs' = imgs
             /\ \A v \in UplJobs : /\ upls'[v].pc = IF v = u THEN "parts" ELSE "idle"
                                   /\ ~upls'[v].clientDone /\ upls'[v].files = "check"
  <2>. DEFINE t == [IdleUpl EXCEPT !.pc = "parts", !.here = TRUE,
                                   !.sigs = mem.sigs, !.images = mem.images]
  <2>1. upls' = [upls EXCEPT ![u] = t] /\ t.pc = "parts" /\ ~t.clientDone /\ t.files = "check"
    BY <1>2 DEF UploadArchives, IdleUpl
  <2>2. server' = server /\ lost' = lost /\ imgs' = imgs
    BY <1>2 DEF UploadArchives, counts
  <2>. HIDE DEF t
  <2>. QED
    BY <1>0, <2>1, <2>2
<1>3. ASSUME Leave
      PROVE  /\ \A k \in ImgJobs : imgs'[k].pc = "idle"
             /\ \A u \in UplJobs : upls'[u].pc = "idle" /\ ~upls'[u].clientDone
                                   /\ upls'[u].files = "check"
  BY <1>0, <1>3 DEF Leave, ImgTask, UplTask
<1>4. CASE Close \/ ClearForm
  BY <1>3, <1>4 DEF Close, ClearForm, counts
<1>5. CASE imgs' = imgs /\ upls' = upls /\ server' = server /\ lost' = lost
  BY <1>5
<1>. QED
  BY <1>1, <1>2, <1>4, <1>5
  DEF UiStep, ShowAddSampleType, SampleTypeResult, ShowCompany, CompanyResult,
      ShowSampling, SampleSave, SampleResult, LongClickSample, DeleteSample, Cancel,
      ShowSignature, Paint, SignSave, SignResult, BackOnDialog, Open,
      ghosts, counts, jobVars

\* A step of a rendering touches no other task and keeps its dialog until its end.
LEMMA ImgShape ==
  ASSUME TypeInv, NEW k \in ImgJobs, ImgStep(k)
  PROVE  /\ imgs[k].pc # "idle" /\ UNCHANGED <<screen, copy, samples, typeSave, strips, upls, server, ghosts>>
         /\ \E t \in ImgTask : /\ imgs' = [imgs EXCEPT ![k] = t]
                               /\ t.pc # "idle" => dialog' = dialog
<1>. USE DEF uiVars
<1>0. imgs[k] \in ImgTask /\ imgs' \in [ImgJobs -> ImgTask]
  BY ImgStepType DEF TypeInv, TypeOK
<1>1. imgs[k].pc # "idle" /\ UNCHANGED <<screen, copy, samples, typeSave, strips, upls, server, ghosts>>
  BY DEF ImgStep, ImgSamples, ImgSigns, ImgCheck, ImgBind, ImgWrite, ImgFill, ImgDone
<1>2. \E t : imgs' = [imgs EXCEPT ![k] = t]
  BY DEF ImgStep, ImgSamples, ImgSigns, ImgCheck, ImgBind, ImgWrite, ImgFill, ImgDone, ImgFail
<1>3. imgs' = [imgs EXCEPT ![k] = imgs'[k]] /\ imgs'[k] \in ImgTask
  BY <1>0, <1>2 DEF TypeInv, TypeOK
<1>4. imgs'[k] = IdleImg \/ dialog' = dialog
  BY <1>3 DEF ImgStep, ImgSamples, ImgSigns, ImgCheck, ImgBind, ImgWrite, ImgFill, ImgDone, ImgFail,
         TypeInv, TypeOK
<1>5. IdleImg.pc = "idle"
  BY DEF IdleImg
<1>. QED
  BY <1>1, <1>3, <1>4, <1>5

\* So does a step of an upload.
LEMMA UplShape ==
  ASSUME TypeInv, NEW u \in UplJobs, UplClientStep(u) \/ UplFilesStep(u) \/ UplFormStep(u)
  PROVE  /\ upls[u].pc # "idle" /\ UNCHANGED <<screen, copy, samples, disk, typeSave, strips, imgs>>
         /\ \E t \in UplTask : /\ upls' = [upls EXCEPT ![u] = t]
                               /\ t.pc = "idle" => ~t.clientDone /\ t.files = "check"
                               /\ t.pc # "idle" => dialog' = dialog
<1>. USE DEF uiVars, UplClientStep, UplFilesStep, UplFormStep
<1>0. upls[u] \in UplTask /\ upls' \in [UplJobs -> UplTask]
  BY UplStepType DEF TypeInv, TypeOK
<1>1. upls[u].pc # "idle" /\ UNCHANGED <<screen, copy, samples, disk, typeSave, strips, imgs>>
  BY DEF UplClient, UplCheck, UplSend, UplImageId, UplPost, UplReady, UplStatus, Answered,
         UplRemote, UplSave, UplDone, UplLost
<1>2. \E t : upls' = [upls EXCEPT ![u] = t]
  BY DEF UplClient, UplCheck, UplSend, UplImageId, UplPost, UplStatus,
         UplRemote, UplSave, UplDone, UplLost, UplFail
<1>3. upls' = [upls EXCEPT ![u] = upls'[u]] /\ upls'[u] \in UplTask
  BY <1>0, <1>2 DEF TypeInv, TypeOK
<1>4. upls'[u] = IdleUpl \/ (dialog' = dialog /\ upls'[u].pc # "idle")
  <2>1. CASE UplFail(u) \/ UplDone(u)
    BY <1>3, <2>1 DEF UplFail, UplDone, TypeInv, TypeOK
  <2>2. CASE UplClient(u) /\ ~UplFail(u)
    <3>. DEFINE t == [upls[u] EXCEPT !.clientDone = TRUE, !.val = samples.val]
    <3>1. upls' = [upls EXCEPT ![u] = t] /\ upls[u].pc = "parts" /\ dialog' = dialog
      BY <2>2 DEF UplClient
    <3>2. t.pc = "parts"
      BY <1>0, <3>1 DEF UplTask
    <3>. HIDE DEF t
    <3>. QED
      BY <3>1, <3>2 DEF TypeInv, TypeOK
  <2>3. CASE UplCheck(u) /\ ~UplFail(u)
    <3>. DEFINE t == [upls[u] EXCEPT !.files = IF mem.imageId = 0 THEN "send" ELSE "id",
                                     !.imageId = mem.imageId]
    <3>1. upls' = [upls EXCEPT ![u] = t] /\ upls[u].pc = "parts" /\ dialog' = dialog
      BY <2>3 DEF UplCheck
    <3>2. t.pc = "parts"
      BY <1>0, <3>1 DEF UplTask
    <3>. HIDE DEF t
    <3>. QED
      BY <3>1, <3>2 DEF TypeInv, TypeOK
  <2>4. CASE UplSend(u) /\ ~UplFail(u)
    <3>. DEFINE t == [upls[u] EXCEPT !.files = "id", !.imageId = Len(server.images) + 1]
    <3>1. upls' = [upls EXCEPT ![u] = t] /\ upls[u].pc = "parts" /\ dialog' = dialog
      BY <2>4 DEF UplSend
    <3>2. t.pc = "parts"
      BY <1>0, <3>1 DEF UplTask
    <3>. HIDE DEF t
    <3>. QED
      BY <3>1, <3>2 DEF TypeInv, TypeOK
  <2>5. CASE UplPost(u) /\ ~UplFail(u)
    <3>. DEFINE t == [upls[u] EXCEPT !.pc = "posted", !.remote = Len(server.forms) + 1]
    <3>1. upls' = [upls EXCEPT ![u] = t] /\ dialog' = dialog
      BY <2>5 DEF UplPost
    <3>2. t.pc = "posted"
      BY <1>0 DEF UplTask
    <3>. HIDE DEF t
    <3>. QED
      BY <3>1, <3>2 DEF TypeInv, TypeOK
  <2>6. CASE UplImageId(u)
    BY <1>0, <2>6 DEF UplImageId, UplTask, TypeInv, TypeOK
  <2>7. CASE UplStatus(u) \/ UplRemote(u) \/ UplSave(u)
    BY <1>0, <2>7 DEF UplStatus, UplRemote, UplSave, UplTask, TypeInv, TypeOK
  <2>8. CASE UplLost(u)
    BY <2>1, <2>8 DEF UplLost
  <2>. QED
    BY <2>1, <2>2, <2>3, <2>4, <2>5, <2>6, <2>7, <2>8
<1>5. IdleUpl.pc = "idle" /\ ~IdleUpl.clientDone /\ IdleUpl.files = "check"
  BY DEF IdleUpl
<1>. QED
  BY <1>1, <1>3, <1>4, <1>5

\* The dialog is there from the first step of a task to its last.
LEMMA StepWaiting ==
  ASSUME ~BackDismisses, TypeInv, Waiting, [Next]_vars
  PROVE  Waiting'
<1>. USE DEF uiVars
<1>0. imgs \in [ImgJobs -> ImgTask] /\ upls \in [UplJobs -> UplTask]
  BY DEF TypeInv, TypeOK
<1>1. CASE UiStep
  <2>1. ASSUME NEW k \in ImgJobs, CreateImage(k)
        PROVE  /\ dialog' /\ screen' = "detail" /\ upls' = upls
               /\ \A l \in ImgJobs : l # k => imgs'[l].pc = "idle"
    BY <1>0, <1>1, <2>1, UiWaits DEF CreateImage, Tap, Touchable
  <2>2. ASSUME NEW u \in UplJobs, UploadArchives(u)
        PROVE  /\ dialog' /\ screen' = "detail" /\ imgs' = imgs
               /\ \A v \in UplJobs : v # u => upls'[v].pc = "idle"
    BY <1>0, <1>1, <2>2, UiWaits DEF UploadArchives, Tap, Touchable
  <2>3. ASSUME NEW k \in ImgJobs, imgs'[k].pc # "idle"
        PROVE  /\ dialog' /\ screen' = "detail"
               /\ \A l \in ImgJobs : l # k => imgs'[l].pc = "idle"
               /\ \A u \in UplJobs : upls'[u].pc = "idle"
    BY <1>1, <2>1, <2>3, UiStarts, UiWaits
  <2>4. ASSUME NEW u \in UplJobs, upls'[u].pc # "idle"
        PROVE  /\ dialog' /\ screen' = "detail"
               /\ \A v \in UplJobs : v # u => upls'[v].pc = "idle"
    BY <1>1, <2>2, <2>4, UiStarts, UiWaits
  <2>5. \A u \in UplJobs : ~upls'[u].clientDone /\ upls'[u].files = "check"
    BY <1>1, UiStarts
  <2>. QED
    BY <2>3, <2>4, <2>5 DEF Waiting, Behind
<1>2. ASSUME UNCHANGED <<screen, dialog, imgs, upls>> PROVE Waiting'
  BY <1>2 DEF Waiting, Behind
<1>3. CASE TypeSave
  BY <1>2, <1>3 DEF TypeSave
<1>4. ASSUME NEW j \in StripJobs, StripStep(j) PROVE Waiting'
  BY <1>2, <1>4 DEF StripStep, StripRead, StripCheck, StripDelete, StripSave
<1>5. ASSUME NEW k \in ImgJobs, ImgStep(k) PROVE Waiting'
  <2>1. PICK t \in ImgTask : imgs' = [imgs EXCEPT ![k] = t] /\ (t.pc # "idle" => dialog' = dialog)
    BY <1>5, ImgShape
  <2>2. imgs[k].pc # "idle" /\ upls' = upls /\ screen' = screen
    BY <1>5, ImgShape
  <2>3. /\ \A l \in ImgJobs : l # k => imgs'[l].pc = "idle"
        /\ \A u \in UplJobs : upls'[u].pc = "idle"
        /\ imgs'[k] = t /\ dialog /\ screen = "detail"
    BY <1>0, <2>1, <2>2 DEF Waiting, Behind
  <2>. QED
    BY <2>1, <2>2, <2>3 DEF Waiting, Behind
<1>6. ASSUME NEW u \in UplJobs, UplClientStep(u) \/ UplFilesStep(u) \/ UplFormStep(u) PROVE Waiting'
  <2>1. PICK t \in UplTask : /\ upls' = [upls EXCEPT ![u] = t]
                             /\ t.pc = "idle" => ~t.clientDone /\ t.files = "check"
                             /\ t.pc # "idle" => dialog' = dialog
    BY <1>6, UplShape
  <2>2. upls[u].pc # "idle" /\ imgs' = imgs /\ screen' = screen
    BY <1>6, UplShape
  <2>3. /\ \A v \in UplJobs : v # u => upls'[v] = upls[v] /\ upls'[v].pc = "idle"
        /\ \A k \in ImgJobs : imgs'[k].pc = "idle"
        /\ upls'[u] = t /\ dialog /\ screen = "detail"
    BY <1>0, <2>1, <2>2 DEF Waiting, Behind
  <2>. QED
    BY <2>1, <2>2, <2>3 DEF Waiting, Behind
<1>7. CASE Die
  BY <1>7 DEF Die, Waiting, Behind, IdleImg, IdleUpl
<1>8. CASE UNCHANGED vars
  BY <1>2, <1>8 DEF vars
<1>. QED
  BY <1>1, <1>3, <1>4, <1>5, <1>6, <1>7, <1>8 DEF Next, Killed, ArchiveThrows

LEMMA InitWaiting ==
  ASSUME Init
  PROVE  Waiting
  BY DEF Init, Waiting, Behind, IdleUpl, IdleImg

-----------------------------------------------------------------------------
(* Every form at the server names an image at the server.                   *)

KnownIn(m, n) == m.imageId \in 0..n

\* An upload that has found or sent its image: the id is known, and then in the form.
Kept(t, m, n) ==
    /\ t.files = "id" => t.imageId \in 1..n
    /\ t.files = "done" => m.imageId # 0

ImagesKnown ==
    /\ KnownIn(mem, Len(server.images))
    /\ row # NoRow => KnownIn(row, Len(server.images))
    /\ copy # NoCopy => KnownIn(copy.dan, Len(server.images))
    /\ \A u \in UplJobs : Kept(upls[u], mem, Len(server.images))
    /\ FormsHaveImage

\* save() keeps what holds of the object it is given.
LEMMA StoreKnown ==
  ASSUME NEW n \in Nat, NEW m \in Dan, KnownIn(m, n), Store(m)
  PROVE  KnownIn(mem', n) /\ (row' # NoRow => KnownIn(row', n)) /\ mem'.imageId = m.imageId
  BY DEF Store, Dan, KnownIn

\* The remote image of a form changes where one is uploaded and nowhere else.
LEMMA DanKnown ==
  ASSUME NEW n \in Nat, NEW m \in Dan, KnownIn(m, n)
  PROVE  /\ \A c \in Clients : KnownIn([m EXCEPT !.client = c], n)
         /\ \A t \in SampleTypes : KnownIn([m EXCEPT !.stype = t], n)
         /\ \A k \in 0..n : KnownIn([m EXCEPT !.imageId = k], n)
         /\ \A ps \in SUBSET Pictures :
              /\ KnownIn([m EXCEPT !.images = ps, !.status = "open"], n)
              /\ [m EXCEPT !.images = ps, !.status = "open"].imageId = m.imageId
         /\ \A s \in Signatures, ps \in SUBSET Pictures :
              /\ KnownIn([m EXCEPT !.sigs = s, !.images = ps], n)
              /\ [m EXCEPT !.sigs = s, !.images = ps].imageId = m.imageId
         /\ KnownIn([m EXCEPT !.id = TRUE], n)
         /\ KnownIn([m EXCEPT !.status = "archived"], n)
         /\ [m EXCEPT !.status = "archived"].imageId = m.imageId
         /\ \A k \in Nat : /\ KnownIn([m EXCEPT !.remoteId = k], n)
                           /\ [m EXCEPT !.remoteId = k].imageId = m.imageId
  BY DEF KnownIn, Dan

\* The server has nothing at the start.
LEMMA InitKnown ==
  ASSUME Init
  PROVE  ImagesKnown
  BY DEF Init, ImagesKnown, KnownIn, Kept, FormsHaveImage, Blank, IdleUpl

\* The user changes a form only while no upload runs.
LEMMA UiKnown ==
  ASSUME ~BackDismisses, TypeInv, Waiting, ImagesKnown, UiStep
  PROVE  ImagesKnown'
<1>. DEFINE n == Len(server.images)
<1>0. /\ n \in Nat /\ KnownIn(mem, n) /\ (row # NoRow => KnownIn(row, n))
      /\ (copy # NoCopy => KnownIn(copy.dan, n))
      /\ mem \in Dan /\ row \in Dan \cup {NoRow} /\ (copy # NoCopy => copy \in Copies)
  BY DEF TypeInv, TypeOK, ImagesKnown
<1>goal. ASSUME KnownIn(mem', n), row' # NoRow => KnownIn(row', n),
                copy' # NoCopy => KnownIn(copy'.dan, n)
         PROVE  ImagesKnown'
  <2>1. server' = server /\ \A u \in UplJobs : upls'[u].files = "check"
    BY UiStarts
  <2>. QED
    BY <1>goal, <2>1 DEF ImagesKnown, FormsHaveImage, Kept
<1>. HIDE DEF n
<1>. USE DEF uiVars, jobVars, ghosts
<1>1. CASE SampleTypeResult
  <2>1. PICK t \in SampleTypes : mem' = [mem EXCEPT !.stype = t]
    BY <1>1 DEF SampleTypeResult
  <2>2. KnownIn(mem', n)
    BY <1>0, <2>1, DanKnown
  <2>. QED
    BY <1>0, <1>1, <2>2, <1>goal DEF SampleTypeResult
<1>2. CASE CompanyResult
  BY <1>0, <1>2, <1>goal, DanKnown, DanFields, StoreKnown DEF CompanyResult
<1>3. CASE Cancel \/ SignResult \/ Close \/ ClearForm \/ Open
  BY <1>0, <1>3, <1>goal DEF Cancel, SignResult, Close, ClearForm, Open
<1>4. CASE ShowSignature
  BY <1>0, <1>4, <1>goal DEF ShowSignature
<1>5. ASSUME NEW t \in SigTypes, Paint(t) PROVE ImagesKnown'
  <2>1. copy \in Copies /\ copy'.dan = copy.dan
    BY <1>5 DEF Paint, TypeInv, TaskInv, Copies
  <2>2. KnownIn(copy'.dan, n)
    BY <1>0, <2>1, NoValuesAssumption
  <2>. QED
    BY <1>0, <1>5, <2>2, <1>goal DEF Paint
<1>6. CASE SignSave
  <2>. DEFINE d == [copy.dan EXCEPT !.sigs = copy.ids, !.images = {}]
  <2>1. copy \in Copies /\ copy.dan \in Dan /\ copy.ids \in Signatures /\ KnownIn(copy.dan, n)
    BY <1>0, <1>6, CopyFields, NoValuesAssumption DEF SignSave, TypeInv, TaskInv
  <2>2. d \in Dan /\ KnownIn(d, n)
    BY <1>0, <2>1, DanKnown, DanFields
  <2>3. KnownIn([d EXCEPT !.id = TRUE], n)
    BY <1>0, <2>2, DanKnown
  <2>4. copy'.dan = d
    BY <1>6, <2>1 DEF SignSave, Copies
  <2>. QED
    BY <1>0, <1>6, <2>2, <2>3, <2>4, <1>goal DEF SignSave
<1>7. ASSUME NEW k \in ImgJobs, CreateImage(k) PROVE ImagesKnown'
  <2>. DEFINE d == [mem EXCEPT !.sigs = Intact(mem.sigs), !.images = {}]
  <2>1. Intact(mem.sigs) \in Signatures
    BY <1>0, DanFields, IntactType
  <2>2. d \in Dan /\ KnownIn(d, n)
    BY <1>0, <2>1, DanKnown, DanFields
  <2>3. (UNCHANGED <<mem, row>> \/ Store(d)) /\ copy' = copy
    BY <1>7 DEF CreateImage
  <2>. HIDE DEF d
  <2>. QED
    BY <1>0, <2>2, <2>3, <1>goal, StoreKnown
<1>8. CASE UNCHANGED <<mem, row, copy>>
  BY <1>0, <1>8, <1>goal
<1>. QED
  BY <1>1, <1>2, <1>3, <1>4, <1>5, <1>6, <1>7, <1>8
  DEF UiStep, ShowAddSampleType, ShowCompany, ShowSampling, SampleSave, SampleResult,
      LongClickSample, DeleteSample, BackOnDialog, UploadArchives

\* An upload posts the form with the image it sent or found.
LEMMA UplKnown ==
  ASSUME TypeInv, Waiting, ImagesKnown, NEW u \in UplJobs,
         UplClientStep(u) \/ UplFilesStep(u) \/ UplFormStep(u)
  PROVE  ImagesKnown'
<1>. DEFINE n == Len(server.images)
<1>0. /\ n \in Nat /\ KnownIn(mem, n) /\ (row # NoRow => KnownIn(row, n))
      /\ (copy # NoCopy => KnownIn(copy.dan, n))
      /\ mem \in Dan /\ row \in Dan \cup {NoRow} /\ (copy # NoCopy => copy.dan \in Dan)
      /\ upls \in [UplJobs -> UplTask] /\ upls[u] \in UplTask /\ Kept(upls[u], mem, n)
      /\ server \in [images : Seq(Content \cup {CutOff}), forms : Seq(Form)]
      /\ server.forms \in Seq(Form) /\ server.images \in Seq(Content \cup {CutOff})
  BY CopyFields DEF TypeInv, TypeOK, ImagesKnown
<1>u. /\ upls[u].pc # "idle" /\ copy' = copy
      /\ \A v \in UplJobs : v # u => upls[v].files = "check"
  BY UplShape DEF Waiting
<1>goal. ASSUME server'.images = server.images, FormsHaveImage',
                KnownIn(mem', n), row' # NoRow => KnownIn(row', n),
                NEW t, upls' = [upls EXCEPT ![u] = t], Kept(t, mem', n)
         PROVE  ImagesKnown'
  <2>1. \A v \in UplJobs : Kept(upls'[v], mem', n)
    BY <1>0, <1>u, <1>goal DEF Kept
  <2>. QED
    BY <1>0, <1>u, <1>goal, <2>1 DEF ImagesKnown
<1>same. server' = server => server'.images = server.images /\ FormsHaveImage'
  BY DEF ImagesKnown, FormsHaveImage
<1>idle. \A m : Kept(IdleUpl, m, n)
  BY DEF Kept, IdleUpl
<1>fail. ASSUME UplFail(u), server' = server PROVE ImagesKnown'
  BY <1>0, <1>fail, <1>goal, <1>same, <1>idle DEF UplFail
<1>. HIDE DEF n
<1>. USE DEF uiVars, jobVars
<1>1. CASE UplClient(u) /\ ~UplFail(u)
  <2>. DEFINE t == [upls[u] EXCEPT !.clientDone = TRUE, !.val = samples.val]
  <2>1. upls' = [upls EXCEPT ![u] = t] /\ UNCHANGED <<mem, row, server>>
    BY <1>1 DEF UplClient
  <2>2. Kept(t, mem, n)
    BY <1>0 DEF Kept, UplTask
  <2>. HIDE DEF t
  <2>. QED
    BY <1>0, <2>1, <2>2, <1>goal, <1>same
<1>2. CASE UplCheck(u) /\ ~UplFail(u)
  <2>. DEFINE t == [upls[u] EXCEPT !.files = IF mem.imageId = 0 THEN "send" ELSE "id",
                                   !.imageId = mem.imageId]
  <2>1. upls' = [upls EXCEPT ![u] = t] /\ UNCHANGED <<mem, row, server>>
    BY <1>2 DEF UplCheck
  <2>2. Kept(t, mem, n)
    BY <1>0 DEF Kept, UplTask, KnownIn
  <2>. HIDE DEF t
  <2>. QED
    BY <1>0, <2>1, <2>2, <1>goal, <1>same
<1>3. CASE UplSend(u)
  <2>1. CASE UplFail(u) /\ server' = server
    BY <2>1, <1>fail
  <2>2. CASE ~(UplFail(u) /\ server' = server)
    <3>1. PICK f \in FileToSend : server' = [server EXCEPT !.images = Append(@, f)]
      BY <1>3, <2>2 DEF UplSend
    <3>0. f \in Content \cup {CutOff}
      BY DEF FileToSend, Files, TypeInv, TypeOK
    <3>2. server'.forms = server.forms /\ Len(server'.images) = n + 1 /\ n + 1 \in 1..(n + 1)
      BY <1>0, <3>0, <3>1 DEF n
    <3>3. FormsHaveImage'
      BY <1>0, <3>2 DEF FormsHaveImage, ImagesKnown, n
    <3>4. /\ KnownIn(mem, n + 1) /\ (row # NoRow => KnownIn(row, n + 1))
          /\ (copy # NoCopy => KnownIn(copy.dan, n + 1))
      BY <1>0 DEF KnownIn
    <3>5. UNCHANGED <<mem, row>>
      BY <1>3 DEF UplSend, UplFail
    <3>6. PICK t : upls' = [upls EXCEPT ![u] = t] /\ Kept(t, mem, n + 1)
      <4>1. CASE UplFail(u)
        <5>1. Kept(IdleUpl, mem, n + 1)
          BY DEF Kept, IdleUpl
        <5>. QED
          BY <4>1, <5>1 DEF UplFail
      <4>2. CASE ~UplFail(u)
        <5>. DEFINE t == [upls[u] EXCEPT !.files = "id", !.imageId = n + 1]
        <5>1. upls' = [upls EXCEPT ![u] = t]
          BY <1>3, <4>2 DEF UplSend, n
        <5>2. t.files = "id" /\ t.imageId = n + 1
          BY <1>0 DEF UplTask
        <5>3. Kept(t, mem, n + 1)
          BY <3>2, <5>2 DEF Kept
        <5>. QED
          BY <5>1, <5>3
      <4>. QED
        BY <4>1, <4>2
    <3>7. \A v \in UplJobs : Kept(upls'[v], mem, n + 1)
      BY <1>0, <1>u, <3>6 DEF Kept
    <3>. QED
      BY <1>u, <3>2, <3>3, <3>4, <3>5, <3>7 DEF ImagesKnown
  <2>. QED
    BY <2>1, <2>2
<1>4. CASE UplImageId(u)
  <2>. DEFINE t == [upls[u] EXCEPT !.files = "done"]
              d == [mem EXCEPT !.imageId = upls[u].imageId]
  <2>1. upls' = [upls EXCEPT ![u] = t] /\ Store(d) /\ server' = server
    BY <1>4 DEF UplImageId
  <2>2. upls[u].imageId \in 1..n
    BY <1>0, <1>4 DEF UplImageId, Kept
  <2>9. upls[u].imageId \in Nat
    BY <1>0 DEF UplTask
  <2>3. d \in Dan /\ d.imageId = upls[u].imageId
    <3>1. d \in Dan
      BY <1>0, <2>9, DanFields
    <3>2. d.imageId = upls[u].imageId
      BY <1>0 DEF Dan
    <3>. QED
      BY <3>1, <3>2
  <2>7. KnownIn(d, n) /\ d.imageId # 0
    BY <1>0, <2>2, <2>3 DEF KnownIn
  <2>. HIDE DEF d
  <2>4. KnownIn(mem', n) /\ (row' # NoRow => KnownIn(row', n)) /\ mem'.imageId # 0
    BY <1>0, <2>1, <2>3, <2>7, StoreKnown
  <2>5. t.files = "done"
    BY <1>0 DEF UplTask
  <2>6. Kept(t, mem', n)
    BY <2>4, <2>5 DEF Kept
  <2>. HIDE DEF t
  <2>. QED
    BY <2>1, <2>4, <2>6, <1>goal, <1>same
<1>5. CASE UplPost(u)
  <2>1. CASE UplFail(u) /\ server' = server
    BY <2>1, <1>fail
  <2>2. CASE ~(UplFail(u) /\ server' = server)
    <3>. DEFINE f == [samples |-> upls[u].val, client |-> mem.client,
                      stype |-> mem.stype, imageId |-> mem.imageId]
                fs == Append(server.forms, f)
                t == [upls[u] EXCEPT !.pc = "posted", !.remote = Len(server.forms) + 1]
    <3>1. f.imageId \in 1..n
      BY <1>0, <1>5 DEF UplPost, UplReady, KnownIn, Kept
    <3>2. /\ server' = [server EXCEPT !.forms = fs] /\ UNCHANGED <<mem, row>>
          /\ upls' = [upls EXCEPT ![u] = t]
      BY <1>5, <2>2 DEF UplPost
    <3>. HIDE DEF f
    <3>3. server'.images = server.images /\ server'.forms = fs /\ Kept(t, mem, n)
      BY <1>0, <3>2 DEF UplTask, Kept
    <3>4. ASSUME NEW i \in 1..Len(fs) PROVE fs[i].imageId \in 1..n
      <4>1. CASE i = Len(server.forms) + 1
        BY <1>0, <3>1, <4>1
      <4>2. CASE i # Len(server.forms) + 1
        BY <1>0, <3>4, <4>2 DEF ImagesKnown, FormsHaveImage, n
      <4>. QED
        BY <4>1, <4>2
    <3>. HIDE DEF fs, t
    <3>5. FormsHaveImage'
      BY <3>3, <3>4 DEF FormsHaveImage, n
    <3>. QED
      BY <1>0, <3>2, <3>3, <3>5, <1>goal
  <2>. QED
    BY <2>1, <2>2
<1>6. CASE UplStatus(u)
  <2>1. Kept([upls[u] EXCEPT !.pc = "status"], mem', n) /\ KnownIn(mem', n)
    BY <1>0, <1>6, DanKnown DEF UplStatus, Kept, UplTask
  <2>. QED
    BY <1>0, <1>6, <2>1, <1>goal, <1>same DEF UplStatus
<1>7. CASE UplRemote(u)
  <2>1. upls[u].remote \in Nat
    BY <1>0 DEF UplTask
  <2>3. KnownIn(mem', n) /\ mem'.imageId = mem.imageId
    BY <1>0, <1>7, <2>1 DEF UplRemote, KnownIn, Dan
  <2>2. Kept([upls[u] EXCEPT !.pc = "remote"], mem', n) /\ KnownIn(mem', n)
    BY <1>0, <2>3 DEF Kept, UplTask
  <2>. QED
    BY <1>0, <1>7, <2>2, <1>goal, <1>same DEF UplRemote
<1>8. CASE UplSave(u)
  <2>1. KnownIn(mem', n) /\ (row' # NoRow => KnownIn(row', n)) /\ mem'.imageId = mem.imageId
    BY <1>0, <1>8, StoreKnown DEF UplSave
  <2>2. Kept([upls[u] EXCEPT !.pc = "saved"], mem', n)
    BY <1>0, <2>1 DEF Kept, UplTask
  <2>. QED
    BY <1>0, <1>8, <2>1, <2>2, <1>goal, <1>same DEF UplSave
<1>9. CASE UplDone(u)
  BY <1>0, <1>9, <1>goal, <1>same, <1>idle, DanKnown DEF UplDone
<1>10. CASE UplLost(u) \/ (UplFail(u) /\ (UplClient(u) \/ UplCheck(u)))
  BY <1>10, <1>fail DEF UplLost, UplClient, UplCheck
<1>11. CASE UplClientStep(u)
  BY <1>1, <1>10, <1>11 DEF UplClientStep
<1>12. CASE UplFilesStep(u)
  BY <1>2, <1>3, <1>4, <1>10, <1>12 DEF UplFilesStep
<1>13. CASE UplFormStep(u)
  BY <1>5, <1>6, <1>7, <1>8, <1>9, <1>10, <1>13 DEF UplFormStep
<1>. QED
  BY <1>11, <1>12, <1>13

LEMMA StepKnown ==
  ASSUME ~BackDismisses, TypeInv, Waiting, ImagesKnown, [Next]_vars
  PROVE  ImagesKnown'
<1>. DEFINE n == Len(server.images)
<1>0. /\ n \in Nat /\ KnownIn(mem, n) /\ (row # NoRow => KnownIn(row, n))
      /\ (copy # NoCopy => KnownIn(copy.dan, n))
      /\ mem \in Dan /\ row \in Dan \cup {NoRow} /\ disk.img \in Files
  BY DEF TypeInv, TypeOK, ImagesKnown
<1>goal. ASSUME UNCHANGED <<copy, upls, server>>, KnownIn(mem', n),
                row' # NoRow => KnownIn(row', n), mem'.imageId = mem.imageId
         PROVE  ImagesKnown'
  BY <1>0, <1>goal DEF ImagesKnown, FormsHaveImage, Kept
<1>. HIDE DEF n
<1>. USE DEF uiVars, jobVars, ghosts
<1>1. CASE UNCHANGED <<mem, row, copy, upls, server>>
  BY <1>0, <1>1, <1>goal
<1>2. CASE TypeSave
  BY <1>0, <1>2, <1>goal, StoreKnown DEF TypeSave
<1>3. ASSUME NEW j \in StripJobs, StripSave(j) PROVE ImagesKnown'
  <2>. DEFINE d == [mem EXCEPT !.sigs = strips[j].sigs, !.images = {}]
  <2>1. strips[j].sigs \in Signatures
    BY DEF TypeInv, TypeOK, StripTask
  <2>2. d \in Dan /\ KnownIn(d, n) /\ d.imageId = mem.imageId
    BY <1>0, <2>1 DEF KnownIn, Dan
  <2>3. Store(d) /\ UNCHANGED <<copy, upls, server>>
    BY <1>3 DEF StripSave
  <2>. HIDE DEF d
  <2>. QED
    BY <1>0, <2>2, <2>3, <1>goal, StoreKnown
<1>4. ASSUME NEW k \in ImgJobs, ImgCheck(k) PROVE ImagesKnown'
  <2>1. CASE ImgFail(k)
    BY <1>0, <1>4, <2>1, <1>goal DEF ImgCheck, ImgFail
  <2>2. CASE ~ImgFail(k)
    <3>. DEFINE d == [mem EXCEPT !.sigs = imgs[k].sigs, !.images = imgs[k].images]
    <3>1. imgs[k].sigs \in Signatures /\ imgs[k].images \in SUBSET Pictures
      BY DEF TypeInv, TypeOK, ImgTask
    <3>2. KnownIn(d, n) /\ d.imageId = mem.imageId
      BY <1>0, <3>1 DEF KnownIn, Dan
    <3>3. mem' = d /\ UNCHANGED <<row, copy, upls, server>>
      BY <1>4, <2>2 DEF ImgCheck
    <3>. QED
      BY <1>0, <3>2, <3>3, <1>goal
  <2>. QED
    BY <2>1, <2>2
<1>5. ASSUME NEW k \in ImgJobs, ImgDone(k) PROVE ImagesKnown'
  <2>. DEFINE ps == mem.images \cup {IF disk.img = NoImage THEN NoDigest ELSE disk.img}
              d == [mem EXCEPT !.images = ps, !.status = "open"]
  <2>1. ps \in SUBSET Pictures
    BY <1>0, DanFields DEF Files, Pictures
  <2>2. Store(d) /\ UNCHANGED <<copy, upls, server>>
    BY <1>5 DEF ImgDone
  <2>. HIDE DEF ps
  <2>3. d \in Dan /\ KnownIn(d, n) /\ d.imageId = mem.imageId
    BY <1>0, <2>1, DanFields, DanKnown
  <2>. HIDE DEF d
  <2>. QED
    BY <1>0, <2>2, <2>3, <1>goal, StoreKnown
<1>6. CASE Die
  BY <1>0, <1>6 DEF Die, Blank, KnownIn, Kept, IdleUpl, ImagesKnown, FormsHaveImage, n
<1>7. CASE UNCHANGED vars
  BY <1>1, <1>7 DEF vars
<1>8. ASSUME NEW j \in StripJobs, StripStep(j) PROVE ImagesKnown'
  BY <1>1, <1>3, <1>8 DEF StripStep, StripRead, StripCheck, StripDelete
<1>9. ASSUME NEW k \in ImgJobs, ImgStep(k) PROVE ImagesKnown'
  BY <1>1, <1>4, <1>5, <1>9
     DEF ImgStep, ImgSamples, ImgSigns, ImgBind, ImgWrite, ImgFill, ImgFail
<1>. QED
  BY <1>2, <1>6, <1>7, <1>8, <1>9, UiKnown, UplKnown DEF Next, Killed, ArchiveThrows

\* A form is archived with its image: every form the server holds names an image it
\* holds, whether that was sent now or by an earlier attempt.
THEOREM FormsAtServerHaveImage == ASSUME ~BackDismisses PROVE Spec => []FormsHaveImage
<1>1. Init => TypeInv /\ Waiting /\ ImagesKnown
  BY InitType, InitWaiting, InitKnown
<1>2. TypeInv /\ Waiting /\ ImagesKnown /\ [Next]_vars => (TypeInv /\ Waiting /\ ImagesKnown)'
  BY StepType, StepWaiting, StepKnown
<1>3. ImagesKnown => FormsHaveImage
  BY DEF ImagesKnown
<1>. QED
  BY <1>1, <1>2, <1>3, PTL DEF Spec

-----------------------------------------------------------------------------
(* An archived form is settled: nothing the tablet still does changes it.   *)

Final(m) == m.status = "archived"

\* What a row saved earlier may still differ in from the archived form: its remote id.
Like(m, d) == /\ m.client = d.client /\ m.stype = d.stype
              /\ m.remoteId \in {0, d.remoteId}

\* The form the server was sent under number k.
Sent(m, k) == LET f == server.forms[k] IN
              f.samples = samples.val /\ f.client = m.client /\ f.stype = m.stype

SentAs(m) == \E i \in 1..Len(server.forms) : m.remoteId \in {0, i} /\ Sent(m, i)

\* The two steps between setting the status and saving the form.
Recording == \E u \in UplJobs : upls[u].pc \in {"status", "remote"}

\* The object every task may save is the archived form, or it died with the process and
\* no task is left that could save another one; and so is the row, unless it has yet to
\* be saved with its new status.
Settled ==
    /\ screen \in {"detail", "closed"}
    /\ \A k \in ImgJobs : imgs[k].pc = "idle"
    /\ \A u \in UplJobs :
         /\ upls[u].pc \in {"idle", "status", "remote", "saved"}
         /\ upls[u].pc = "status" => /\ upls[u].remote \in 1..Len(server.forms)
                                     /\ Sent(mem, upls[u].remote) /\ mem.remoteId = 0
    /\ \/ /\ mem.id /\ Final(mem) /\ SentAs(mem)
          /\ mem.remoteId = 0 => lost > 0 \/ \E u \in UplJobs : upls[u].pc = "status"
       \/ /\ ~mem.id /\ screen = "closed" /\ ~typeSave
          /\ \A j \in StripJobs : strips[j].pc = "idle"
          /\ \A u \in UplJobs : upls[u].pc = "idle"
    /\ row # NoRow =>
         /\ row.id
         /\ Final(row) \/ (Recording /\ row.remoteId = 0)
         /\ row.remoteId = 0 => lost > 0 \/ Recording
         /\ Final(row) => SentAs(row) /\ (mem.id => Like(row, mem))

\* Until then no copy of the form is archived, and the server has no more forms than
\* there were answers lost, but for one that waits for its own.
Fresh(m) == ~Final(m) /\ m.remoteId = 0

Unarchived ==
    /\ Fresh(mem)
    /\ row # NoRow => Fresh(row)
    /\ copy # NoCopy => Fresh(copy.dan)

Sending ==
    /\ \A u \in UplJobs :
         /\ upls[u].pc \in {"idle", "parts", "posted"}
         /\ upls[u].pc # "idle" => mem.id
         /\ upls[u].clientDone => upls[u].val = samples.val
         /\ upls[u].pc = "posted" => /\ upls[u].remote \in 1..Len(server.forms)
                                     /\ Sent(mem, upls[u].remote)
    /\ (\A u \in UplJobs : upls[u].pc # "posted") => Len(server.forms) <= lost

Flight ==
    /\ Len(server.forms) <= 1 + lost
    /\ row # NoRow => row.id
    /\ ~Settled => Unarchived /\ Sending

\* save() writes the object over the row, if there still is one.
LEMMA StoreSame ==
  ASSUME NEW m \in Dan, Store(m)
  PROVE  /\ mem'.id /\ mem'.status = m.status /\ mem'.remoteId = m.remoteId
         /\ mem'.client = m.client /\ mem'.stype = m.stype
         /\ (row' # NoRow => row' = mem')
         /\ m.id /\ row = NoRow => row' = NoRow
  BY DEF Store, Dan

\* A clean-up touches nothing of the form but its files.
LEMMA DanSame ==
  ASSUME NEW m \in Dan
  PROVE  \A s \in Signatures, ps \in SUBSET Pictures :
           LET d == [m EXCEPT !.sigs = s, !.images = ps] IN
             /\ d.id = m.id /\ d.status = m.status /\ d.remoteId = m.remoteId
             /\ d.client = m.client /\ d.stype = m.stype
  BY DEF Dan

\* A settled form stays settled: it is neither edited nor sent, a clean-up that still
\* runs writes the archived form, and it can be opened, closed, deleted and lost; only a
\* death before the answer is saved leaves it unarchived, with that answer lost.
LEMMA SettledStep ==
  ASSUME TypeInv, Waiting, Settled, [Next]_vars
  PROVE  /\ UNCHANGED <<samples, server>>
         /\ row # NoRow /\ Final(row) /\ row' # NoRow => Final(row') /\ Like(row, row')
         /\ \/ Settled' /\ lost' >= lost
            \/ /\ Unarchived' /\ lost' >= lost + 1 /\ (row' # NoRow => row'.id)
               /\ \A u \in UplJobs : upls'[u].pc = "idle" /\ ~upls'[u].clientDone
<1>. DEFINE Goal == /\ UNCHANGED <<samples, server>>
                    /\ row # NoRow /\ Final(row) /\ row' # NoRow => Final(row') /\ Like(row, row')
                    /\ Settled' /\ lost' >= lost
<1>. USE DEF uiVars, jobVars, ghosts, counts
<1>0. /\ mem \in Dan /\ row \in Dan \cup {NoRow} /\ lost \in Nat /\ Len(server.forms) \in Nat
      /\ upls \in [UplJobs -> UplTask] /\ imgs \in [ImgJobs -> ImgTask]
  BY DEF TypeInv, TypeOK
<1>00. lost >= lost
  BY <1>0
<1>1. ASSUME UNCHANGED <<samples, server, lost, screen, upls, imgs>>, mem.id,
             NEW m \in Dan, Store(m), m.id = mem.id, m.status = mem.status,
             m.remoteId = mem.remoteId, m.client = mem.client, m.stype = mem.stype
      PROVE  Goal
  <2>1. /\ mem'.id /\ mem'.status = mem.status /\ mem'.remoteId = mem.remoteId
        /\ mem'.client = mem.client /\ mem'.stype = mem.stype
        /\ (row' # NoRow => row' = mem') /\ (row = NoRow => row' = NoRow)
    BY <1>1, StoreSame
  <2>2. /\ Final(mem) /\ SentAs(mem)
        /\ mem.remoteId = 0 => lost > 0 \/ \E u \in UplJobs : upls[u].pc = "status"
    BY <1>1 DEF Settled
  <2>3. Final(mem') /\ SentAs(mem)'
    BY <1>1, <2>1, <2>2 DEF Final, SentAs, Sent
  <2>4. mem.remoteId = 0 => lost > 0 \/ Recording
    BY <2>2 DEF Recording
  <2>5. row' # NoRow => /\ row'.id /\ Final(row') /\ SentAs(row)' /\ Like(row', mem')
                        /\ row'.remoteId = 0 => lost > 0 \/ Recording
    BY <2>1, <2>3, <2>4 DEF Like, SentAs, Sent
  <2>6. row # NoRow /\ Final(row) /\ row' # NoRow => Like(row, row')
    BY <1>1, <2>1 DEF Settled, Like
  <2>7. Recording' <=> Recording
    BY <1>1 DEF Recording
  <2>8. \A u \in UplJobs : upls[u].pc = "status" =>
          upls[u].remote \in 1..Len(server.forms) /\ Sent(mem, upls[u].remote)' /\ mem'.remoteId = 0
    BY <1>1, <2>1 DEF Settled, Sent
  <2>9. Settled'
    BY <1>1, <2>1, <2>2, <2>3, <2>5, <2>7, <2>8 DEF Settled
  <2>. QED
    BY <1>00, <1>1, <2>5, <2>6, <2>9
<1>2. screen = "detail" => mem.id /\ Final(mem) /\ ~Editable(mem) /\ AlreadyArchived(mem)
  BY DEF Settled, Final, Editable, AlreadyArchived
<1>3. ASSUME UNCHANGED <<samples, server, lost, mem, typeSave, strips>>,
             \A u \in UplJobs : upls'[u].pc = upls[u].pc /\ upls'[u].remote = upls[u].remote,
             \A k \in ImgJobs : imgs'[k].pc = imgs[k].pc,
             screen' \in {"detail", "closed"}, screen = "detail" \/ screen' = screen,
             row' \in {row, NoRow}
      PROVE  Goal
  <2>1. row' # NoRow => row' = row
    BY <1>3
  <2>2. Recording' <=> Recording
    BY <1>3 DEF Recording
  <2>3. row # NoRow => Like(row, row)
    BY DEF Like
  <2>4. /\ SentAs(mem)' <=> SentAs(mem)
        /\ row' = row => (SentAs(row)' <=> SentAs(row))
        /\ \A k : Sent(mem, k)' <=> Sent(mem, k)
    BY <1>3 DEF SentAs, Sent
  <2>5. \A u \in UplJobs :
         /\ upls'[u].pc \in {"idle", "status", "remote", "saved"}
         /\ upls'[u].pc = "status" => /\ upls'[u].remote \in 1..Len(server.forms)
                                      /\ Sent(mem, upls[u].remote)' /\ mem'.remoteId = 0
    BY <1>3, <2>4 DEF Settled
  <2>6. \/ /\ mem'.id /\ Final(mem') /\ SentAs(mem)'
           /\ mem'.remoteId = 0 => lost' > 0 \/ \E u \in UplJobs : upls'[u].pc = "status"
        \/ /\ ~mem'.id /\ screen' = "closed" /\ ~typeSave'
           /\ \A j \in StripJobs : strips'[j].pc = "idle"
           /\ \A u \in UplJobs : upls'[u].pc = "idle"
    BY <1>3, <2>4, <1>2 DEF Settled
  <2>7. row' # NoRow =>
         /\ row'.id
         /\ Final(row') \/ (Recording' /\ row'.remoteId = 0)
         /\ row'.remoteId = 0 => lost' > 0 \/ Recording'
         /\ Final(row') => SentAs(row)' /\ (mem'.id => Like(row', mem'))
    BY <1>3, <2>1, <2>2, <2>4 DEF Settled
  <2>8. Settled'
    BY <1>3, <2>5, <2>6, <2>7 DEF Settled
  <2>. QED
    BY <1>00, <1>3, <2>1, <2>3, <2>8
<1>4. ASSUME TypeSave PROVE Goal
  <2>1. mem.id
    BY <1>4 DEF Settled, TypeSave
  <2>. QED
    BY <1>0, <1>1, <1>4, <2>1 DEF TypeSave
<1>5. ASSUME NEW j \in StripJobs, StripStep(j) PROVE Goal
  <2>1. mem.id
    BY <1>5 DEF Settled, StripStep, StripRead, StripCheck, StripDelete, StripSave
  <2>2. CASE StripSave(j)
    <3>1. strips[j].sigs \in Signatures
      BY DEF TypeInv, TypeOK, StripTask
    <3>. DEFINE d == [mem EXCEPT !.sigs = strips[j].sigs, !.images = {}]
    <3>2. d \in Dan
      BY <1>0, <3>1 DEF Dan
    <3>3. /\ d.id = mem.id /\ d.status = mem.status /\ d.remoteId = mem.remoteId
          /\ d.client = mem.client /\ d.stype = mem.stype
      BY <1>0 DEF Dan
    <3>4. Store(d) /\ UNCHANGED <<samples, server, lost, screen, upls, imgs>>
      BY <2>2 DEF StripSave
    <3>. HIDE DEF d
    <3>. QED
      BY <1>1, <2>1, <3>2, <3>3, <3>4
  <2>3. CASE StripRead(j) \/ StripCheck(j) \/ StripDelete(j)
    <3>1. UNCHANGED <<screen, row, mem, upls, imgs, samples, server, lost>>
      BY <2>3 DEF StripRead, StripCheck, StripDelete
    <3>2. row # NoRow => Like(row, row)
      BY DEF Like
    <3>3. Settled'
      BY <2>1, <3>1 DEF Settled, SentAs, Sent, Recording
    <3>. QED
      BY <1>00, <3>1, <3>2, <3>3
  <2>. QED
    BY <1>5, <2>2, <2>3 DEF StripStep
<1>6. ASSUME UiStep PROVE Goal
  <2>1. CASE Close \/ ClearForm \/ BackOnDialog
    <3>1. /\ UNCHANGED <<samples, server, lost, mem, typeSave, strips>>
          /\ screen' \in {"detail", "closed"} /\ (screen = "detail" \/ screen' = screen)
          /\ row' \in {row, NoRow}
      BY <2>1 DEF Close, ClearForm, Leave, BackOnDialog, Tap, Touchable, Settled
    <3>2. /\ \A u \in UplJobs : upls'[u].pc = upls[u].pc /\ upls'[u].remote = upls[u].remote
          /\ \A k \in ImgJobs : imgs'[k].pc = imgs[k].pc
      <4>1. CASE UNCHANGED <<upls, imgs>>
        BY <4>1
      <4>2. CASE Leave
        BY <1>0, <4>2 DEF Leave, UplTask, ImgTask
      <4>. QED
        BY <2>1, <4>1, <4>2 DEF Close, ClearForm, BackOnDialog
    <3>. QED
      BY <1>3, <3>1, <3>2
  <2>2. CASE Open
    <3>1. /\ UNCHANGED <<row, samples, upls, imgs, typeSave, strips, server, lost>>
          /\ screen = "closed" /\ screen' = "detail" /\ row # NoRow
          /\ (mem' = mem /\ mem.id) \/ mem' = row
      BY <2>2 DEF Open
    <3>2. \A u \in UplJobs : upls[u].pc = "idle"
      BY <3>1 DEF Waiting, Behind
    <3>3. ~Recording /\ ~Recording' /\ Final(row) /\ SentAs(row) /\ row.id
          /\ (row.remoteId = 0 => lost > 0) /\ Like(row, row) /\ (mem.id => Like(row, mem))
      BY <3>1, <3>2 DEF Settled, Recording, Like
    <3>4. mem'.id /\ Final(mem') /\ SentAs(mem)' /\ SentAs(row)' /\ Like(row, mem')
          /\ (mem'.remoteId = 0 => lost > 0)
      <4>1. CASE mem' = mem /\ mem.id
        BY <3>1, <3>2, <3>3, <4>1 DEF Settled, SentAs, Sent
      <4>2. CASE mem' = row
        BY <3>1, <3>3, <4>2 DEF SentAs, Sent
      <4>. QED
        BY <3>1, <4>1, <4>2
    <3>5. Settled'
      BY <3>1, <3>2, <3>3, <3>4 DEF Settled
    <3>. QED
      BY <1>00, <3>1, <3>3, <3>5
  <2>. QED
    BY <1>2, <1>6, <2>1, <2>2
    DEF Settled, UiStep, ShowAddSampleType, SampleTypeResult, ShowCompany, CompanyResult,
        ShowSampling, SampleSave, SampleResult, LongClickSample, DeleteSample, Cancel,
        ShowSignature, Paint, SignSave, SignResult, CreateImage, UploadArchives, Tap, Touchable
<1>7. ASSUME NEW u \in UplJobs, UplRemote(u) PROVE Goal
  <2>. DEFINE r == upls[u].remote
  <2>1. /\ upls[u].pc = "status" /\ mem' = [mem EXCEPT !.remoteId = r]
        /\ upls' = [upls EXCEPT ![u].pc = "remote"]
        /\ UNCHANGED <<screen, row, samples, imgs, server, lost>>
    BY <1>7 DEF UplRemote
  <2>2. r \in 1..Len(server.forms) /\ Sent(mem, r) /\ mem.remoteId = 0
    BY <2>1 DEF Settled
  <2>3. mem.id /\ Final(mem)
    BY <2>1 DEF Settled
  <2>4. /\ mem'.id /\ Final(mem') /\ mem'.remoteId = r /\ mem'.client = mem.client
        /\ mem'.stype = mem.stype /\ r # 0
    BY <1>0, <2>1, <2>2, <2>3 DEF Dan, Final
  <2>5. SentAs(mem)'
    BY <2>1, <2>2, <2>4 DEF SentAs, Sent
  <2>6. /\ upls'[u].pc = "remote"
        /\ \A v \in UplJobs : v # u => upls'[v].pc = "idle"
    BY <1>0, <2>1 DEF Waiting, UplTask
  <2>7. Recording /\ Recording'
    BY <2>1, <2>6 DEF Recording
  <2>8. row # NoRow => /\ row.id /\ (Final(row) \/ row.remoteId = 0)
                       /\ Final(row) => SentAs(row)' /\ Like(row, mem')
    BY <2>1, <2>2, <2>3, <2>4 DEF Settled, SentAs, Sent, Like
  <2>9. Settled'
    BY <2>1, <2>4, <2>5, <2>6, <2>7, <2>8 DEF Settled
  <2>10. row # NoRow => Like(row, row)
    BY DEF Like
  <2>. QED
    BY <1>00, <2>1, <2>9, <2>10
<1>8. ASSUME NEW u \in UplJobs, UplSave(u) PROVE Goal
  <2>1. /\ upls[u].pc = "remote" /\ Store(mem)
        /\ upls' = [upls EXCEPT ![u].pc = "saved"]
        /\ UNCHANGED <<screen, samples, imgs, server, lost>>
    BY <1>8 DEF UplSave
  <2>2. mem.id /\ Final(mem) /\ SentAs(mem)
    BY <2>1 DEF Settled
  <2>3. /\ mem'.id /\ mem'.status = mem.status /\ mem'.remoteId = mem.remoteId
        /\ mem'.client = mem.client /\ mem'.stype = mem.stype
        /\ (row' # NoRow => row' = mem') /\ (row = NoRow => row' = NoRow)
    BY <1>0, <2>1, <2>2, StoreSame
  <2>4. /\ upls'[u].pc = "saved"
        /\ \A v \in UplJobs : v # u => upls[v].pc = "idle" /\ upls'[v].pc = "idle"
    BY <1>0, <2>1 DEF Waiting, UplTask
  <2>5. mem.remoteId = 0 => lost > 0
    BY <2>1, <2>2, <2>4 DEF Settled
  <2>6. Final(mem') /\ SentAs(mem)'
    BY <2>1, <2>2, <2>3 DEF Final, SentAs, Sent
  <2>7. row' # NoRow => /\ row'.id /\ Final(row') /\ SentAs(row)' /\ Like(row', mem')
                        /\ row'.remoteId = 0 => lost > 0
    BY <2>3, <2>5, <2>6 DEF Like, SentAs, Sent
  <2>8. row # NoRow /\ Final(row) /\ row' # NoRow => Like(row, row')
    BY <2>2, <2>3 DEF Settled, Like
  <2>9. Settled'
    BY <2>1, <2>3, <2>4, <2>5, <2>6, <2>7 DEF Settled
  <2>. QED
    BY <1>00, <2>1, <2>7, <2>8, <2>9
<1>9. ASSUME NEW u \in UplJobs, UplDone(u) PROVE Goal
  <2>1. /\ upls[u].pc = "saved" /\ mem' = [mem EXCEPT !.status = "archived"]
        /\ upls' = [upls EXCEPT ![u] = IdleUpl]
        /\ UNCHANGED <<screen, row, samples, imgs, server, lost>>
    BY <1>9 DEF UplDone
  <2>2. mem.id /\ Final(mem) /\ SentAs(mem)
    BY <2>1 DEF Settled
  <2>3. /\ mem'.id /\ Final(mem') /\ mem'.remoteId = mem.remoteId
        /\ mem'.client = mem.client /\ mem'.stype = mem.stype
    BY <1>0, <2>1, <2>2 DEF Final, Dan
  <2>4. \A v \in UplJobs : upls'[v].pc = "idle" /\ (upls[v].pc = "idle" \/ v = u)
    BY <1>0, <2>1 DEF Waiting, IdleUpl
  <2>5. ~Recording /\ ~Recording'
    BY <2>1, <2>4 DEF Recording
  <2>6. mem.remoteId = 0 => lost > 0
    BY <2>1, <2>2, <2>4 DEF Settled
  <2>7. SentAs(mem)' /\ (row # NoRow => SentAs(row)' /\ Like(row, mem') /\ Like(row, row))
    BY <2>1, <2>2, <2>3, <2>5 DEF Settled, SentAs, Sent, Like
  <2>8. Settled'
    BY <2>1, <2>3, <2>4, <2>5, <2>6, <2>7 DEF Settled
  <2>. QED
    BY <1>00, <2>1, <2>7, <2>8
<1>10. CASE Die
  <2>1. /\ UNCHANGED <<row, samples, server>> /\ screen' = "closed" /\ copy' = NoCopy
        /\ mem' = Blank /\ ~typeSave'
        /\ \A u \in UplJobs : upls'[u].pc = "idle" /\ ~upls'[u].clientDone
        /\ \A k \in ImgJobs : imgs'[k].pc = "idle"
        /\ \A j \in StripJobs : strips'[j].pc = "idle"
    BY <1>10 DEF Die, IdleUpl, IdleImg, IdleStrip
  <2>2. lost' \in Nat /\ lost' >= lost /\ (Recording => lost' >= lost + 1 /\ lost' > 0)
    BY <1>0, <1>10, LostCount DEF TypeInv, Recording, InFlight
  <2>3. ~mem'.id /\ Fresh(mem')
    BY <2>1 DEF Blank, Fresh, Final
  <2>4. row # NoRow => Like(row, row)
    BY DEF Like
  <2>5. CASE row # NoRow /\ ~Final(row)
    <3>1. Recording /\ row.remoteId = 0 /\ row.id
      BY <2>5 DEF Settled
    <3>2. Unarchived'
      BY <2>1, <2>3, <2>5, <3>1 DEF Unarchived, Fresh
    <3>. QED
      BY <2>1, <2>2, <2>5, <3>1, <3>2
  <2>6. CASE row = NoRow \/ Final(row)
    <3>1. row # NoRow => /\ row.id /\ Final(row) /\ SentAs(row)'
                         /\ row.remoteId = 0 => lost' > 0
      BY <1>0, <2>1, <2>2, <2>6 DEF Settled, SentAs, Sent
    <3>2. Settled'
      BY <2>1, <2>3, <3>1 DEF Settled
    <3>. QED
      BY <2>1, <2>2, <2>4, <3>1, <3>2
  <2>. QED
    BY <2>5, <2>6
<1>11. CASE UNCHANGED vars
  <2>1. Settled' /\ UNCHANGED <<samples, server, lost, row>>
    BY <1>11 DEF vars, Settled, Sent, SentAs, Recording
  <2>. QED
    BY <1>00, <2>1 DEF Like
<1>12. \A k \in ImgJobs : ~ImgStep(k)
  BY DEF Settled, ImgStep, ImgSamples, ImgSigns, ImgCheck, ImgBind, ImgWrite, ImgFill, ImgDone
<1>13. \A u \in UplJobs : /\ ~UplClientStep(u) /\ ~UplFilesStep(u)
                          /\ UplFormStep(u) => UplRemote(u) \/ UplSave(u) \/ UplDone(u)
  BY DEF Settled, UplClientStep, UplClient, UplFilesStep, UplCheck, UplSend, UplImageId,
         UplFormStep, UplPost, UplReady, UplStatus, Answered, UplLost
<1>. HIDE DEF Goal
<1>14. ASSUME Next PROVE Goal \/ Die
  <2>1. CASE UiStep \/ TypeSave
    BY <1>4, <1>6, <2>1
  <2>2. CASE \E j \in StripJobs : StripStep(j)
    BY <1>5, <2>2
  <2>3. CASE \E k \in ImgJobs : ImgStep(k)
    BY <1>12, <2>3
  <2>4. CASE \E u \in UplJobs : UplClientStep(u) \/ UplFilesStep(u) \/ UplFormStep(u)
    BY <1>7, <1>8, <1>9, <1>13, <2>4
  <2>5. CASE Killed \/ ArchiveThrows
    BY <2>5 DEF Killed, ArchiveThrows
  <2>. QED
    BY <1>14, <2>1, <2>2, <2>3, <2>4, <2>5 DEF Next
<1>15. Goal \/ Die \/ UNCHANGED vars
  BY <1>14
<1>. QED
  BY <1>10, <1>11, <1>15 DEF Goal

\* save() keeps a form fresh.
LEMMA StoreFresh ==
  ASSUME NEW m \in Dan, Fresh(m), Store(m), row # NoRow => row.id
  PROVE  Fresh(mem') /\ mem'.id /\ (row' # NoRow => Fresh(row') /\ row'.id)
  BY StoreSame DEF Fresh, Final

\* At the start nothing is archived and nothing sent.
LEMMA InitFlight ==
  ASSUME Init
  PROVE  Flight
<1>1. Unarchived
  BY DEF Init, Unarchived, Fresh, Final, Blank
<1>2. Len(server.forms) = 0 /\ lost = 0 /\ row = NoRow
  BY DEF Init
<1>3. Sending
  BY <1>2 DEF Init, Sending, IdleUpl
<1>. QED
  BY <1>1, <1>2, <1>3 DEF Flight

\* The user never archives a form.
LEMMA UiUnarchived ==
  ASSUME TypeInv, Unarchived, row # NoRow => row.id, UiStep
  PROVE  Unarchived' /\ (row' # NoRow => row'.id)
<1>0. /\ Fresh(mem) /\ (row # NoRow => Fresh(row) /\ row.id)
      /\ (copy # NoCopy => Fresh(copy.dan) /\ copy \in Copies)
      /\ mem \in Dan /\ row \in Dan \cup {NoRow}
  BY DEF TypeInv, TypeOK, Unarchived
<1>goal. ASSUME Fresh(mem'), row' # NoRow => Fresh(row') /\ row'.id,
                copy' # NoCopy => Fresh(copy'.dan)
         PROVE  Unarchived' /\ (row' # NoRow => row'.id)
  BY <1>goal DEF Unarchived
<1>. USE DEF uiVars, jobVars, ghosts
<1>1. CASE UNCHANGED <<mem, row, copy>>
  BY <1>0, <1>1, <1>goal
<1>2. CASE SampleTypeResult
  <2>1. PICK t \in SampleTypes : mem' = [mem EXCEPT !.stype = t]
    BY <1>2 DEF SampleTypeResult
  <2>2. Fresh(mem')
    BY <1>0, <2>1 DEF Dan, Fresh, Final
  <2>. QED
    BY <1>0, <1>2, <2>2, <1>goal DEF SampleTypeResult
<1>3. CASE CompanyResult
  <2>1. PICK c \in Clients : Store([mem EXCEPT !.client = c])
    BY <1>3 DEF CompanyResult
  <2>2. [mem EXCEPT !.client = c] \in Dan /\ Fresh([mem EXCEPT !.client = c])
    BY <1>0 DEF Dan, Fresh, Final
  <2>3. Fresh(mem') /\ (row' # NoRow => Fresh(row') /\ row'.id)
    BY <1>0, <2>1, <2>2, StoreFresh
  <2>. QED
    BY <1>0, <1>3, <2>3, <1>goal DEF CompanyResult
<1>4. CASE Cancel \/ SignResult \/ Open \/ Close \/ ClearForm
  BY <1>0, <1>4, <1>goal DEF Cancel, SignResult, Open, Close, ClearForm
<1>5. CASE ShowSignature
  BY <1>0, <1>5, <1>goal DEF ShowSignature
<1>6. ASSUME NEW t \in SigTypes, Paint(t) PROVE Unarchived' /\ (row' # NoRow => row'.id)
  <2>1. copy \in Copies /\ copy'.dan = copy.dan
    BY <1>6 DEF Paint, TypeInv, TaskInv, Copies
  <2>. QED
    BY <1>0, <1>6, <2>1, <1>goal, NoValuesAssumption DEF Paint
<1>7. CASE SignSave
  <2>. DEFINE d == [copy.dan EXCEPT !.sigs = copy.ids, !.images = {}]
  <2>1. copy \in Copies /\ copy.dan \in Dan /\ copy.ids \in Signatures /\ Fresh(copy.dan)
    BY <1>0, <1>7, CopyFields, NoValuesAssumption DEF SignSave, TypeInv, TaskInv
  <2>2. d \in Dan /\ Fresh(d)
    BY <2>1 DEF Dan, Fresh, Final
  <2>3. Fresh([d EXCEPT !.id = TRUE]) /\ [d EXCEPT !.id = TRUE].id
    BY <2>2 DEF Dan, Fresh, Final
  <2>4. copy'.dan = d /\ mem' = mem /\ row' \in {NoRow, [d EXCEPT !.id = TRUE]}
    BY <1>7, <2>1 DEF SignSave, Copies
  <2>. HIDE DEF d
  <2>. QED
    BY <1>0, <2>2, <2>3, <2>4, <1>goal
<1>8. ASSUME NEW k \in ImgJobs, CreateImage(k) PROVE Unarchived' /\ (row' # NoRow => row'.id)
  <2>1. CASE FilesEmpty(mem)
    BY <1>0, <1>8, <2>1, <1>goal DEF CreateImage
  <2>2. CASE ~FilesEmpty(mem)
    <3>. DEFINE d == [mem EXCEPT !.sigs = Intact(mem.sigs), !.images = {}]
    <3>0. mem.sigs \in Signatures
      BY <1>0 DEF Dan
    <3>1. Intact(mem.sigs) \in Signatures
      BY <3>0, IntactType
    <3>2. d \in Dan /\ Fresh(d)
      BY <1>0, <3>1 DEF Dan, Fresh, Final
    <3>3. Store(d) /\ copy' = copy
      BY <1>8, <2>2 DEF CreateImage
    <3>. HIDE DEF d
    <3>. QED
      BY <1>0, <3>2, <3>3, StoreFresh, <1>goal
  <2>. QED
    BY <2>1, <2>2
<1>. QED
  BY <1>1, <1>2, <1>3, <1>4, <1>5, <1>6, <1>7, <1>8
     DEF UiStep, ShowAddSampleType, ShowCompany, ShowSampling, SampleSave, SampleResult,
         LongClickSample, DeleteSample, BackOnDialog, UploadArchives

\* A clean-up's save, a queued save and the steps of a rendering leave an upload its form.
LEMMA TaskFlight ==
  ASSUME TypeInv, Waiting, Unarchived, Sending, row # NoRow => row.id,
         TypeSave \/ (\E j \in StripJobs : StripStep(j)) \/ \E k \in ImgJobs : ImgStep(k)
  PROVE  Unarchived' /\ Sending' /\ (row' # NoRow => row'.id) /\ UNCHANGED <<server, lost>>
<1>0. /\ Fresh(mem) /\ (row # NoRow => Fresh(row) /\ row.id)
      /\ (copy # NoCopy => Fresh(copy.dan))
      /\ mem \in Dan /\ row \in Dan \cup {NoRow} /\ disk.img \in Files
  BY DEF TypeInv, TypeOK, Unarchived
<1>. DEFINE Kept2 == /\ Fresh(mem') /\ (row' # NoRow => Fresh(row') /\ row'.id)
                     /\ UNCHANGED <<samples, server, lost, copy, upls>>
                     /\ mem' = mem \/ (mem'.id /\ mem'.client = mem.client /\ mem'.stype = mem.stype)
                          \/ \A u \in UplJobs : upls[u].pc = "idle"
<1>goal. ASSUME Kept2
         PROVE  Unarchived' /\ Sending' /\ (row' # NoRow => row'.id) /\ UNCHANGED <<server, lost>>
  <2>1. Unarchived'
    BY <1>0, <1>goal DEF Unarchived
  <2>2. Sending'
    BY <1>goal DEF Sending, Sent
  <2>. QED
    BY <1>goal, <2>1, <2>2
<1>. USE DEF uiVars, jobVars, ghosts, counts
<1>store. ASSUME NEW d \in Dan, Fresh(d), d.client = mem.client, d.stype = mem.stype, Store(d),
                 UNCHANGED <<samples, server, lost, copy, upls>>
          PROVE  Kept2
  BY <1>0, <1>store, StoreFresh, StoreSame
<1>1. ASSUME TypeSave PROVE Kept2
  BY <1>0, <1>1, <1>store DEF TypeSave
<1>2. ASSUME NEW j \in StripJobs, StripStep(j) PROVE Kept2
  <2>1. CASE StripSave(j)
    <3>. DEFINE d == [mem EXCEPT !.sigs = strips[j].sigs, !.images = {}]
    <3>1. strips[j].sigs \in Signatures
      BY DEF TypeInv, TypeOK, StripTask
    <3>2. d \in Dan /\ Fresh(d) /\ d.client = mem.client /\ d.stype = mem.stype
      BY <1>0, <3>1 DEF Dan, Fresh, Final
    <3>3. Store(d) /\ UNCHANGED <<samples, server, lost, copy, upls>>
      BY <2>1 DEF StripSave
    <3>. HIDE DEF d, Kept2
    <3>. QED
      BY <3>2, <3>3, <1>store
  <2>2. CASE StripRead(j) \/ StripCheck(j) \/ StripDelete(j)
    BY <1>0, <2>2 DEF StripRead, StripCheck, StripDelete
  <2>. QED
    BY <1>2, <2>1, <2>2 DEF StripStep
<1>3. ASSUME NEW k \in ImgJobs, ImgStep(k) PROVE Kept2
  <2>1. (\A u \in UplJobs : upls[u].pc = "idle") /\ UNCHANGED <<samples, server, lost, copy, upls>>
    BY <1>3, ImgShape DEF Waiting
  <2>2. Fresh(mem') /\ (row' # NoRow => Fresh(row') /\ row'.id)
    <3>1. CASE UNCHANGED <<mem, row>>
      BY <1>0, <3>1
    <3>2. CASE ImgCheck(k) /\ ~ImgFail(k)
      <4>. DEFINE d == [mem EXCEPT !.sigs = imgs[k].sigs, !.images = imgs[k].images]
      <4>1. mem' = d /\ row' = row
        BY <3>2 DEF ImgCheck
      <4>2. Fresh(d)
        BY <1>0 DEF Dan, Fresh, Final
      <4>. QED
        BY <1>0, <4>1, <4>2
    <3>3. CASE ImgDone(k)
      <4>. DEFINE ps == mem.images \cup {IF disk.img = NoImage THEN NoDigest ELSE disk.img}
                  d == [mem EXCEPT !.images = ps, !.status = "open"]
      <4>0. mem.images \in SUBSET Pictures
        BY <1>0 DEF Dan
      <4>1. ps \in SUBSET Pictures
        BY <1>0, <4>0 DEF Files, Pictures
      <4>2. Store(d)
        BY <3>3 DEF ImgDone
      <4>. HIDE DEF ps
      <4>3. d \in Dan /\ Fresh(d)
        BY <1>0, <4>1 DEF Dan, Fresh, Final
      <4>. HIDE DEF d
      <4>. QED
        BY <1>0, <4>2, <4>3, StoreFresh
    <3>. QED
      BY <1>3, <3>1, <3>2, <3>3
         DEF ImgStep, ImgSamples, ImgSigns, ImgCheck, ImgBind, ImgWrite, ImgFill, ImgFail
  <2>. QED
    BY <2>1, <2>2
<1>. HIDE DEF Kept2
<1>. QED
  BY <1>1, <1>2, <1>3, <1>goal

\* An upload sends the form once and keeps it as it was sent until the answer comes.
LEMMA UplFlight ==
  ASSUME TypeInv, Waiting, Unarchived, Sending, row # NoRow => row.id,
         Len(server.forms) <= 1 + lost, NEW u \in UplJobs,
         UplClientStep(u) \/ UplFilesStep(u) \/ UplFormStep(u)
  PROVE  /\ Settled' \/ (Unarchived' /\ Sending')
         /\ Len(server'.forms) <= 1 + lost' /\ (row' # NoRow => row'.id)
<1>. DEFINE n == Len(server.forms)
            Ok == /\ Unarchived' /\ Sending' /\ Len(server'.forms) <= 1 + lost'
                  /\ row' # NoRow => row'.id
<1>0. /\ Fresh(mem) /\ (row # NoRow => Fresh(row) /\ row.id)
      /\ (copy # NoCopy => Fresh(copy.dan))
      /\ mem \in Dan /\ row \in Dan \cup {NoRow} /\ lost \in Nat /\ n \in Nat
      /\ upls \in [UplJobs -> UplTask] /\ upls[u] \in UplTask
      /\ server \in [images : Seq(Content \cup {CutOff}), forms : Seq(Form)]
      /\ server.forms \in Seq(Form)
  BY DEF TypeInv, TypeOK, Unarchived
<1>u. /\ upls[u].pc \in {"parts", "posted"} /\ mem.id
      /\ screen = "detail" /\ UNCHANGED <<screen, copy, samples, imgs>>
      /\ \A v \in UplJobs : v # u => upls[v].pc = "idle" /\ ~upls[v].clientDone
      /\ \A k \in ImgJobs : imgs[k].pc = "idle"
      /\ upls[u].clientDone => upls[u].val = samples.val
      /\ upls[u].pc = "posted" => upls[u].remote \in 1..n /\ Sent(mem, upls[u].remote)
      /\ upls[u].pc = "parts" => n <= lost
  <2>1. upls[u].pc # "idle" /\ UNCHANGED <<screen, copy, samples, imgs>>
    BY UplShape
  <2>2. /\ screen = "detail"
        /\ \A v \in UplJobs : v # u => upls[v].pc = "idle" /\ ~upls[v].clientDone
        /\ \A k \in ImgJobs : imgs[k].pc = "idle"
    BY <2>1 DEF Waiting, Behind
  <2>. QED
    BY <2>1, <2>2 DEF Sending
<1>. USE DEF uiVars, jobVars, ghosts, counts
\* The form has not been sent, or not been answered: it may still be sent again.
<1>goal. ASSUME NEW t, upls' = [upls EXCEPT ![u] = t], t.pc \in {"idle", "parts"},
                t.clientDone => t.val = samples.val, server'.forms = server.forms,
                lost' \in Nat, n <= lost',
                Fresh(mem'), mem'.id, row' # NoRow => Fresh(row') /\ row'.id
         PROVE  Ok
  <2>1. /\ upls'[u] = t
        /\ \A v \in UplJobs : v # u => upls'[v].pc = "idle" /\ ~upls'[v].clientDone
    BY <1>0, <1>u, <1>goal
  <2>2. Sending'
    BY <1>u, <1>goal, <2>1 DEF Sending, Sent
  <2>3. Unarchived'
    BY <1>0, <1>u, <1>goal DEF Unarchived
  <2>. QED
    BY <1>goal, <2>2, <2>3
<1>fail. ASSUME UplFail(u), server'.forms = server.forms, lost' \in Nat, n <= lost' PROVE Ok
  <2>1. IdleUpl.pc = "idle" /\ ~IdleUpl.clientDone
    BY DEF IdleUpl
  <2>2. upls' = [upls EXCEPT ![u] = IdleUpl] /\ UNCHANGED <<mem, row>>
    BY <1>fail DEF UplFail
  <2>. HIDE DEF Ok
  <2>. QED
    BY <1>0, <1>u, <1>fail, <1>goal, <2>1, <2>2
<1>. HIDE DEF Ok
<1>1. CASE UplClient(u)
  <2>1. CASE UplFail(u)
    BY <1>0, <1>1, <1>u, <1>fail, <2>1 DEF UplClient, Ok
  <2>2. CASE ~UplFail(u)
    <3>. DEFINE t == [upls[u] EXCEPT !.clientDone = TRUE, !.val = samples.val]
    <3>1. upls' = [upls EXCEPT ![u] = t] /\ UNCHANGED <<mem, row, server, lost>> /\ upls[u].pc = "parts"
      BY <1>1, <2>2 DEF UplClient
    <3>2. t.pc = "parts" /\ t.val = samples.val
      BY <1>0, <3>1 DEF UplTask
    <3>. HIDE DEF t
    <3>. QED
      BY <1>0, <1>u, <1>goal, <3>1, <3>2 DEF Ok
  <2>. QED
    BY <2>1, <2>2
<1>2. CASE UplCheck(u)
  <2>1. CASE UplFail(u)
    BY <1>0, <1>2, <1>u, <1>fail, <2>1 DEF UplCheck, Ok
  <2>2. CASE ~UplFail(u)
    <3>. DEFINE t == [upls[u] EXCEPT !.files = IF mem.imageId = 0 THEN "send" ELSE "id",
                                     !.imageId = mem.imageId]
    <3>1. upls' = [upls EXCEPT ![u] = t] /\ UNCHANGED <<mem, row, server, lost>> /\ upls[u].pc = "parts"
      BY <1>2, <2>2 DEF UplCheck
    <3>2. t.pc = "parts" /\ t.val = upls[u].val /\ t.clientDone = upls[u].clientDone
      BY <1>0, <3>1 DEF UplTask
    <3>. HIDE DEF t
    <3>. QED
      BY <1>0, <1>u, <1>goal, <3>1, <3>2 DEF Ok
  <2>. QED
    BY <2>1, <2>2
<1>3. CASE UplSend(u)
  <2>0. upls[u].pc = "parts" /\ server'.forms = server.forms /\ lost' = lost
    BY <1>0, <1>3 DEF UplSend
  <2>1. CASE UplFail(u)
    BY <1>0, <1>u, <1>fail, <2>0, <2>1 DEF Ok
  <2>2. CASE ~UplFail(u)
    <3>. DEFINE t == [upls[u] EXCEPT !.files = "id", !.imageId = Len(server.images) + 1]
    <3>1. upls' = [upls EXCEPT ![u] = t] /\ UNCHANGED <<mem, row>>
      BY <1>3, <2>2 DEF UplSend
    <3>2. t.pc = "parts" /\ t.val = upls[u].val /\ t.clientDone = upls[u].clientDone
      BY <1>0, <2>0 DEF UplTask
    <3>. HIDE DEF t
    <3>. QED
      BY <1>0, <1>u, <1>goal, <2>0, <3>1, <3>2 DEF Ok
  <2>. QED
    BY <2>1, <2>2
<1>4. CASE UplImageId(u)
  <2>. DEFINE t == [upls[u] EXCEPT !.files = "done"]
              d == [mem EXCEPT !.imageId = upls[u].imageId]
  <2>1. /\ upls' = [upls EXCEPT ![u] = t] /\ Store(d) /\ UNCHANGED <<server, lost>>
        /\ upls[u].pc = "parts"
    BY <1>4 DEF UplImageId
  <2>2. t.pc = "parts" /\ t.val = upls[u].val /\ t.clientDone = upls[u].clientDone
    BY <1>0, <2>1 DEF UplTask
  <2>3. upls[u].imageId \in Nat
    BY <1>0 DEF UplTask
  <2>4. d \in Dan /\ Fresh(d)
    BY <1>0, <2>3 DEF Dan, Fresh, Final
  <2>. HIDE DEF t, d
  <2>5. Fresh(mem') /\ mem'.id /\ (row' # NoRow => Fresh(row') /\ row'.id)
    BY <1>0, <2>1, <2>4, StoreFresh
  <2>. QED
    BY <1>0, <1>u, <1>goal, <2>1, <2>2, <2>5 DEF Ok
<1>5. CASE UplPost(u)
  <2>0. upls[u].pc = "parts" /\ upls[u].clientDone /\ lost' = lost /\ UNCHANGED <<mem, row>>
    BY <1>5 DEF UplPost, UplReady, UplFail
  <2>1. CASE UplFail(u) /\ server' = server
    BY <1>0, <1>u, <1>fail, <2>0, <2>1 DEF Ok
  <2>2. CASE ~(UplFail(u) /\ server' = server)
    <3>. DEFINE f == [samples |-> upls[u].val, client |-> mem.client,
                      stype |-> mem.stype, imageId |-> mem.imageId]
                t == [upls[u] EXCEPT !.pc = "posted", !.remote = n + 1]
    <3>1. server' = [server EXCEPT !.forms = Append(@, f)] /\ upls' = [upls EXCEPT ![u] = t]
      BY <1>5, <2>2 DEF UplPost
    <3>2. server'.forms = Append(server.forms, f)
      BY <1>0, <3>1
    <3>. HIDE DEF f
    <3>3. /\ Len(server'.forms) = n + 1 /\ server'.forms[n + 1] = f
          /\ n + 1 \in 1..Len(server'.forms)
      <4>1. f \in Form
        <5>1. upls[u].val \in SampleVals
          BY <2>0 DEF TypeInv, TaskInv, UplCarries
        <5>2. /\ mem.client \in Clients \cup {NoClient} /\ mem.stype \in SampleTypes \cup {NoType}
              /\ mem.imageId \in Nat
          BY <1>0 DEF Dan
        <5>. QED
          BY <5>1, <5>2 DEF Form, f
      <4>. HIDE DEF n
      <4>. QED
        BY <1>0, <3>2, <4>1 DEF n
    <3>4. t.pc = "posted" /\ t.remote = n + 1 /\ t.clientDone = upls[u].clientDone /\ t.val = upls[u].val
      BY <1>0 DEF UplTask
    <3>5. PICK i \in Nat : i = n + 1
      BY <1>0
    <3>. HIDE DEF t, n
    <3>6. /\ upls'[u] = t
          /\ \A v \in UplJobs : v # u => upls'[v].pc = "idle" /\ ~upls'[v].clientDone
      BY <1>0, <1>u, <3>1
    <3>7. Sending'
      <4>1. Sent(mem, i)' /\ upls'[u].remote = i /\ i \in 1..Len(server'.forms)
        BY <1>u, <2>0, <3>3, <3>4, <3>5, <3>6 DEF Sent, f
      <4>. QED
        BY <1>u, <2>0, <3>4, <3>6, <4>1 DEF Sending, Sent
    <3>8. Unarchived'
      BY <1>0, <1>u, <2>0 DEF Unarchived
    <3>. QED
      BY <1>0, <1>u, <2>0, <3>3, <3>7, <3>8
  <2>. QED
    BY <2>1, <2>2
<1>6. CASE UplStatus(u)
  <2>1. /\ upls[u].pc = "posted" /\ mem' = [mem EXCEPT !.status = "archived"]
        /\ upls' = [upls EXCEPT ![u].pc = "status"] /\ UNCHANGED <<row, server, lost>>
    BY <1>6 DEF UplStatus, Answered
  <2>2. /\ mem'.id /\ Final(mem') /\ mem'.remoteId = 0 /\ mem'.client = mem.client
        /\ mem'.stype = mem.stype
    BY <1>0, <1>u, <2>1 DEF Dan, Fresh, Final
  <2>3. /\ upls'[u].pc = "status" /\ upls'[u].remote = upls[u].remote
        /\ \A v \in UplJobs : v # u => upls'[v].pc = "idle"
    BY <1>0, <1>u, <2>1 DEF UplTask
  <2>4. upls[u].remote \in 1..n /\ Sent(mem, upls[u].remote)'
    BY <1>u, <2>1, <2>2 DEF Sent
  <2>5. SentAs(mem)' /\ Recording'
    BY <2>1, <2>2, <2>3, <2>4 DEF SentAs, Recording
  <2>6. Settled'
    BY <1>0, <1>u, <2>1, <2>2, <2>3, <2>4, <2>5 DEF Settled, Fresh
  <2>. QED
    BY <1>0, <2>1, <2>6
<1>7. CASE UplLost(u)
  <2>1. UplFail(u) /\ server' = server /\ lost' \in Nat /\ n <= lost'
    BY <1>0, <1>7 DEF UplLost
  <2>. QED
    BY <1>fail, <2>1 DEF Ok
<1>8. ~UplRemote(u) /\ ~UplSave(u) /\ ~UplDone(u)
  BY <1>u DEF UplRemote, UplSave, UplDone
<1>. QED
  BY <1>1, <1>2, <1>3, <1>4, <1>5, <1>6, <1>7, <1>8 DEF UplClientStep, UplFilesStep, UplFormStep

\* Every step of an unarchived form's life, and of an archived one's.
LEMMA StepFlight ==
  ASSUME ~BackDismisses, TypeInv, Waiting, Flight, [Next]_vars
  PROVE  Flight'
<1>0. lost \in Nat /\ Len(server.forms) \in Nat /\ Len(server.forms) <= 1 + lost
      /\ (row # NoRow => row.id)
  BY DEF TypeInv, TypeOK, Flight
<1>1. CASE Settled
  <2>1. CASE Settled' /\ lost' >= lost
    <3>1. server' = server /\ lost' \in Nat
      BY <1>1, SettledStep, StepType DEF TypeInv, TypeOK
    <3>2. row' # NoRow => row'.id
      BY <2>1 DEF Settled
    <3>. QED
      BY <1>0, <2>1, <3>1, <3>2 DEF Flight
  <2>2. CASE /\ Unarchived' /\ lost' >= lost + 1 /\ (row' # NoRow => row'.id)
             /\ \A u \in UplJobs : upls'[u].pc = "idle" /\ ~upls'[u].clientDone
    <3>1. server' = server /\ lost' \in Nat
      BY <1>1, SettledStep, StepType DEF TypeInv, TypeOK
    <3>2. Len(server'.forms) <= lost'
      BY <1>0, <2>2, <3>1
    <3>3. Sending'
      BY <2>2, <3>2 DEF Sending
    <3>. QED
      BY <1>0, <2>2, <3>1, <3>2, <3>3 DEF Flight
  <2>. QED
    BY <1>1, <2>1, <2>2, SettledStep
<1>2. CASE ~Settled
  <2>0. Unarchived /\ Sending
    BY <1>2 DEF Flight
  <2>1. CASE UiStep
    <3>1. /\ \A u \in UplJobs : upls[u].pc = "idle"
          /\ server' = server /\ lost' = lost
          /\ \A u \in UplJobs : ~upls'[u].clientDone /\ upls'[u].pc \in {"idle", "parts"}
      BY <2>1, UiWaits, UiStarts
    <3>2. ASSUME NEW u \in UplJobs, upls'[u].pc # "idle" PROVE mem'.id
      BY <2>1, <3>2, UiStarts DEF UploadArchives
    <3>3. Sending'
      BY <2>0, <3>1, <3>2 DEF Sending
    <3>. QED
      BY <1>0, <2>0, <2>1, <3>1, <3>3, UiUnarchived DEF Flight
  <2>2. CASE TypeSave \/ (\E j \in StripJobs : StripStep(j)) \/ \E k \in ImgJobs : ImgStep(k)
    BY <1>0, <2>0, <2>2, TaskFlight DEF Flight
  <2>3. CASE \E u \in UplJobs : UplClientStep(u) \/ UplFilesStep(u) \/ UplFormStep(u)
    BY <1>0, <2>0, <2>3, UplFlight DEF Flight
  <2>4. CASE Die
    <3>1. /\ UNCHANGED <<row, server>> /\ copy' = NoCopy /\ mem' = Blank
          /\ \A u \in UplJobs : upls'[u].pc = "idle" /\ ~upls'[u].clientDone
      BY <2>4 DEF Die, IdleUpl
    <3>2. /\ lost' \in Nat /\ lost' >= lost
          /\ \A u \in UplJobs : upls[u].pc = "posted" => lost' >= lost + 1
      BY <2>4, LostCount DEF TypeInv, InFlight
    <3>3. Len(server.forms) <= lost'
      BY <1>0, <2>0, <3>2 DEF Sending
    <3>4. Unarchived'
      BY <2>0, <3>1 DEF Unarchived, Fresh, Final, Blank
    <3>5. Sending'
      BY <3>1, <3>3 DEF Sending
    <3>. QED
      BY <1>0, <3>1, <3>2, <3>3, <3>4, <3>5 DEF Flight
  <2>5. CASE UNCHANGED vars
    <3>1. Sending' /\ Unarchived' /\ UNCHANGED <<row, server, lost>>
      BY <2>0, <2>5 DEF vars, Sending, Unarchived, Sent, Fresh, Final
    <3>. QED
      BY <1>0, <3>1 DEF Flight
  <2>. QED
    BY <2>1, <2>2, <2>3, <2>4, <2>5 DEF Next, Killed, ArchiveThrows
<1>. QED
  BY <1>1, <1>2

LEMMA FlightInvariant ==
  ASSUME ~BackDismisses
  PROVE  Spec => [](TypeInv /\ Waiting /\ Flight)
<1>1. Init => TypeInv /\ Waiting /\ Flight
  BY InitType, InitWaiting, InitFlight
<1>2. TypeInv /\ Waiting /\ Flight /\ [Next]_vars => (TypeInv /\ Waiting /\ Flight)'
  BY StepType, StepWaiting, StepFlight
<1>. QED
  BY <1>1, <1>2, PTL DEF Spec

\* An archived row means the form is settled.
LEMMA ArchivedIsSettled ==
  ASSUME Flight, row # NoRow, Final(row)
  PROVE  Settled
  BY DEF Flight, Unarchived, Fresh

\* Uploading the same form twice takes a lost answer.
THEOREM NoDuplicates == ASSUME ~BackDismisses PROVE Spec => []DuplicateOnlyAfterLoss
<1>1. Flight => DuplicateOnlyAfterLoss
  BY DEF Flight, DuplicateOnlyAfterLoss
<1>. QED
  BY <1>1, FlightInvariant, PTL

\* What the tablet keeps as archived is what the server was sent.
THEOREM ArchiveIsWhatWasSent == ASSUME ~BackDismisses PROVE Spec => []ArchivedMatchesServer
<1>1. ASSUME Flight PROVE ArchivedMatchesServer
  <2>1. SUFFICES ASSUME row # NoRow, Final(row)
                 PROVE  SentAs(row) /\ (row.remoteId = 0 => lost > 0 \/ Recording)
    BY DEF ArchivedMatchesServer, SentAs, Sent, Recording, Final
  <2>. QED
    BY <1>1, <2>1, ArchivedIsSettled DEF Settled
<1>. QED
  BY <1>1, FlightInvariant, PTL

\* An archived form stays what it is: no edit, no late clean-up, no signature copy, no
\* second rendering changes its row, and its samples stay.
THEOREM ArchiveKept == ASSUME ~BackDismisses PROVE Spec => ArchiveFinal
<1>1. ASSUME TypeInv, Waiting, Flight, [Next]_vars, row # NoRow, row.status = "archived"
      PROVE  /\ samples' = samples
             /\ row' # NoRow => /\ row'.status = "archived" /\ row.remoteId \in {0, row'.remoteId}
                                /\ row'.client = row.client /\ row'.stype = row.stype
  <2>1. Settled
    BY <1>1, ArchivedIsSettled DEF Final
  <2>. QED
    BY <1>1, <2>1, SettledStep DEF Final, Like
<1>2. ASSUME TypeInv, Waiting, Flight, [Next]_vars
      PROVE  [row # NoRow /\ row.status = "archived" =>
                /\ samples' = samples
                /\ row' # NoRow => /\ row'.status = "archived" /\ row.remoteId \in {0, row'.remoteId}
                                   /\ row'.client = row.client /\ row'.stype = row.stype]_vars
  BY <1>1, <1>2
<1>. QED
  BY <1>2, FlightInvariant, PTL DEF Spec, ArchiveFinal

-----------------------------------------------------------------------------
(* No file that was cut off is ever sent: one is named by no copy of the form *)
(* and by no task, and while an upload runs there is none on the disk.        *)

Clean(m) == CutOff \notin m.images

WholeInv ==
    /\ Clean(mem)
    /\ row # NoRow => Clean(row)
    /\ copy # NoCopy => Clean(copy.dan)
    /\ \A k \in ImgJobs : CutOff \notin imgs[k].images /\ (imgs[k].pc = "done" => disk.img # CutOff)
    /\ (\E u \in UplJobs : upls[u].pc # "idle") => disk.img # CutOff
    /\ \A i \in 1..Len(server.images) : server.images[i] # CutOff

LEMMA DanFiles ==
  ASSUME NEW m \in Dan
  PROVE  m.sigs \in Signatures /\ m.images \in SUBSET Pictures
  BY DEF Dan

LEMMA StoreClean ==
  ASSUME NEW m \in Dan, Clean(m), Store(m)
  PROVE  Clean(mem') /\ (row' # NoRow => Clean(row'))
  BY DEF Store, Dan, Clean

LEMMA InitWhole ==
  ASSUME Init
  PROVE  WholeInv
  BY DEF Init, WholeInv, Clean, Blank, IdleImg, IdleUpl

\* The form is edited, signed and sent with ids of whole pictures.
LEMMA UiWhole ==
  ASSUME ~BackDismisses, TypeInv, Waiting, WholeInv, UiStep
  PROVE  WholeInv'
<1>0. /\ Clean(mem) /\ (row # NoRow => Clean(row))
      /\ (copy # NoCopy => Clean(copy.dan) /\ copy \in Copies)
      /\ mem \in Dan /\ row \in Dan \cup {NoRow} /\ mem.images \in SUBSET Pictures
      /\ imgs \in [ImgJobs -> ImgTask] /\ disk \in [sig : Signatures, img : Files]
      /\ mem.sigs \in Signatures
  BY DanFiles DEF TypeInv, TypeOK, WholeInv
<1>1. ASSUME Clean(mem'), row' # NoRow => Clean(row'), copy' # NoCopy => Clean(copy'.dan)
      PROVE  WholeInv'
  <2>1. disk'.img = disk.img
    BY <1>0 DEF UiStep, ShowAddSampleType, SampleTypeResult, ShowCompany, CompanyResult,
           ShowSampling, SampleSave, SampleResult, LongClickSample, DeleteSample, Cancel,
           ShowSignature, Paint, SignSave, SignResult, BackOnDialog, Close, ClearForm, Open,
           CreateImage, UploadArchives
  <2>2. \A k \in ImgJobs : CutOff \notin imgs'[k].images
    <3>1. ASSUME NEW k \in ImgJobs, CreateImage(k) PROVE \A l \in ImgJobs : CutOff \notin imgs'[l].images
      <4>. DEFINE t == [IdleImg EXCEPT !.pc = "samples", !.here = TRUE]
      <4>1. t.images = {} /\ imgs' = [imgs EXCEPT ![k] = t]
        BY <3>1 DEF IdleImg, CreateImage
      <4>. HIDE DEF t
      <4>. QED
        BY <1>0, <4>1 DEF WholeInv
    <3>2. CASE Leave
      BY <1>0, <3>2 DEF Leave, ImgTask, WholeInv
    <3>3. CASE imgs' = imgs
      BY <3>3 DEF WholeInv
    <3>. QED
      BY <3>1, <3>2, <3>3
         DEF UiStep, ShowAddSampleType, SampleTypeResult, ShowCompany, CompanyResult,
             ShowSampling, SampleSave, SampleResult, LongClickSample, DeleteSample, Cancel,
             ShowSignature, Paint, SignSave, SignResult, BackOnDialog, Close, ClearForm, Open,
             UploadArchives, jobVars
  <2>3. (\E u \in UplJobs : upls'[u].pc # "idle") => disk.img # CutOff
    <3>1. ASSUME NEW u \in UplJobs, upls'[u].pc # "idle" PROVE disk.img # CutOff
      <4>1. mem.images # {} /\ mem.images \subseteq {disk.img}
        BY <3>1, UiStarts DEF UploadArchives
      <4>. QED
        BY <1>0, <4>1 DEF Clean
    <3>. QED
      BY <3>1
  <2>. QED
    BY <1>1, <2>1, <2>2, <2>3, UiStarts DEF WholeInv
<1>. USE DEF uiVars, jobVars, ghosts
<1>2. CASE UNCHANGED <<mem, row, copy>>
  BY <1>0, <1>1, <1>2
<1>3. CASE SampleTypeResult
  <2>1. Clean(mem')
    BY <1>0, <1>3 DEF SampleTypeResult, Dan, Clean
  <2>. QED
    BY <1>0, <1>1, <1>3, <2>1 DEF SampleTypeResult
<1>4. CASE CompanyResult
  <2>1. PICK c \in Clients : Store([mem EXCEPT !.client = c])
    BY <1>4 DEF CompanyResult
  <2>2. [mem EXCEPT !.client = c] \in Dan /\ Clean([mem EXCEPT !.client = c])
    BY <1>0 DEF Dan, Clean
  <2>3. Clean(mem') /\ (row' # NoRow => Clean(row'))
    BY <2>1, <2>2, StoreClean
  <2>. QED
    BY <1>0, <1>1, <1>4, <2>3 DEF CompanyResult
<1>5. CASE Cancel \/ SignResult \/ Open \/ Close \/ ClearForm
  BY <1>0, <1>1, <1>5 DEF Cancel, SignResult, Open, Close, ClearForm
<1>6. CASE ShowSignature
  BY <1>0, <1>1, <1>6 DEF ShowSignature
<1>7. ASSUME NEW t \in SigTypes, Paint(t) PROVE WholeInv'
  <2>1. copy \in Copies /\ copy'.dan = copy.dan
    BY <1>7 DEF Paint, TypeInv, TaskInv, Copies
  <2>. QED
    BY <1>0, <1>1, <1>7, <2>1, NoValuesAssumption DEF Paint
<1>8. CASE SignSave
  <2>. DEFINE d == [copy.dan EXCEPT !.sigs = copy.ids, !.images = {}]
  <2>1. copy \in Copies /\ copy.dan \in Dan
    BY <1>0, <1>8, CopyFields, NoValuesAssumption DEF SignSave, TypeInv, TaskInv
  <2>2. Clean(d) /\ Clean([d EXCEPT !.id = TRUE])
    BY <2>1 DEF Dan, Clean
  <2>3. copy'.dan = d /\ mem' = mem /\ row' \in {NoRow, [d EXCEPT !.id = TRUE]}
    BY <1>8, <2>1 DEF SignSave, Copies
  <2>. HIDE DEF d
  <2>. QED
    BY <1>0, <1>1, <2>2, <2>3
<1>9. ASSUME NEW k \in ImgJobs, CreateImage(k), ~FilesEmpty(mem) PROVE WholeInv'
  <2>. DEFINE d == [mem EXCEPT !.sigs = Intact(mem.sigs), !.images = {}]
  <2>1. Intact(mem.sigs) \in Signatures
    BY <1>0, IntactType
  <2>2. d \in Dan /\ Clean(d)
    BY <1>0, <2>1 DEF Dan, Clean
  <2>3. Store(d) /\ copy' = copy
    BY <1>9 DEF CreateImage
  <2>. HIDE DEF d
  <2>. QED
    BY <1>0, <1>1, <2>2, <2>3, StoreClean
<1>. QED
  BY <1>2, <1>3, <1>4, <1>5, <1>6, <1>7, <1>8, <1>9
     DEF UiStep, ShowAddSampleType, ShowCompany, ShowSampling, SampleSave, SampleResult,
         LongClickSample, DeleteSample, BackOnDialog, UploadArchives, CreateImage

\* A rendering that is not disturbed and whose storage does not run full leaves no file
\* cut off, unless it fails, and then no id for it.
LEMMA ImgWhole ==
  ASSUME ~BackDismisses, ~DiskMayFill, TypeInv, Waiting, WholeInv, NEW k \in ImgJobs, ImgStep(k)
  PROVE  WholeInv'
<1>0. /\ Clean(mem) /\ (row # NoRow => Clean(row)) /\ (copy # NoCopy => Clean(copy.dan))
      /\ mem \in Dan /\ row \in Dan \cup {NoRow} /\ mem.images \in SUBSET Pictures
      /\ imgs \in [ImgJobs -> ImgTask] /\ imgs[k] \in ImgTask
      /\ disk \in [sig : Signatures, img : Files]
      /\ CutOff \notin imgs[k].images /\ (imgs[k].pc = "done" => disk.img # CutOff)
  BY DanFiles DEF TypeInv, TypeOK, WholeInv
<1>f. /\ imgs[k].pc # "idle" /\ UNCHANGED <<copy, upls, server>>
      /\ \A l \in ImgJobs : l # k => imgs[l].pc = "idle"
      /\ \A u \in UplJobs : upls[u].pc = "idle"
  BY ImgShape DEF Waiting
<1>goal. ASSUME NEW t, imgs' = [imgs EXCEPT ![k] = t], CutOff \notin t.images,
                t.pc = "done" => disk'.img # CutOff, Clean(mem'), row' # NoRow => Clean(row')
         PROVE  WholeInv'
  <2>1. imgs'[k] = t /\ \A l \in ImgJobs : l # k => imgs'[l] = imgs[l]
    BY <1>0, <1>goal
  <2>. QED
    BY <1>0, <1>f, <1>goal, <2>1 DEF WholeInv
<1>fail. ASSUME ImgFail(k) PROVE WholeInv'
  <2>1. CutOff \notin IdleImg.images /\ IdleImg.pc # "done"
    BY DEF IdleImg
  <2>2. imgs' = [imgs EXCEPT ![k] = IdleImg] /\ UNCHANGED <<mem, row>>
    BY <1>fail DEF ImgFail
  <2>. QED
    BY <1>0, <1>goal, <2>1, <2>2
<1>. USE DEF uiVars
<1>1. CASE ImgSamples(k) /\ ~ImgFail(k)
  <2>. DEFINE t == [imgs[k] EXCEPT !.pc = "signs", !.val = samples.val]
  <2>1. imgs' = [imgs EXCEPT ![k] = t] /\ UNCHANGED <<mem, row>>
    BY <1>1 DEF ImgSamples
  <2>2. t.images = imgs[k].images /\ t.pc = "signs"
    BY <1>0 DEF ImgTask
  <2>. HIDE DEF t
  <2>. QED
    BY <1>0, <1>goal, <2>1, <2>2
<1>2. CASE ImgSigns(k) /\ ~ImgFail(k)
  <2>. DEFINE t == [imgs[k] EXCEPT !.pc = "check", !.sigs = mem.sigs, !.images = mem.images]
  <2>1. imgs' = [imgs EXCEPT ![k] = t] /\ UNCHANGED <<mem, row>>
    BY <1>2 DEF ImgSigns
  <2>2. t.images = mem.images /\ t.pc = "check"
    BY <1>0 DEF ImgTask
  <2>. HIDE DEF t
  <2>. QED
    BY <1>0, <1>goal, <2>1, <2>2 DEF Clean
<1>3. CASE ImgCheck(k) /\ ~ImgFail(k)
  <2>. DEFINE t == [imgs[k] EXCEPT !.pc = "bind"]
  <2>1. /\ imgs' = [imgs EXCEPT ![k] = t] /\ row' = row
        /\ mem' = [mem EXCEPT !.sigs = imgs[k].sigs, !.images = imgs[k].images]
    BY <1>3 DEF ImgCheck
  <2>2. t.images = imgs[k].images /\ t.pc = "bind"
    BY <1>0 DEF ImgTask
  <2>3. Clean(mem')
    BY <1>0, <2>1 DEF Clean, Dan
  <2>. HIDE DEF t
  <2>. QED
    BY <1>0, <1>goal, <2>1, <2>2, <2>3
<1>4. CASE ImgBind(k) /\ ~ImgFail(k)
  <2>. DEFINE t == [imgs[k] EXCEPT !.pc = "write",
                            !.pic = [samples |-> imgs[k].val, client |-> mem.client,
                                     stype |-> mem.stype, sigs |-> imgs[k].sigs]]
  <2>1. imgs' = [imgs EXCEPT ![k] = t] /\ UNCHANGED <<mem, row>>
    BY <1>4 DEF ImgBind
  <2>2. t.images = imgs[k].images /\ t.pc = "write"
    BY <1>0 DEF ImgTask
  <2>. HIDE DEF t
  <2>. QED
    BY <1>0, <1>goal, <2>1, <2>2
<1>5. CASE ImgWrite(k) /\ ~ImgFail(k)
  <2>. DEFINE t == [imgs[k] EXCEPT !.pc = "fill"]
  <2>1. imgs' = [imgs EXCEPT ![k] = t] /\ UNCHANGED <<mem, row>>
    BY <1>5 DEF ImgWrite
  <2>2. t.images = imgs[k].images /\ t.pc = "fill"
    BY <1>0 DEF ImgTask
  <2>. HIDE DEF t
  <2>. QED
    BY <1>0, <1>goal, <2>1, <2>2
<1>6. CASE ImgFill(k)
  <2>. DEFINE t == [imgs[k] EXCEPT !.pc = "done"]
  <2>1. /\ imgs' = [imgs EXCEPT ![k] = t] /\ UNCHANGED <<mem, row>>
        /\ disk' = [disk EXCEPT !.img = IF @ = NoImage THEN NoImage ELSE imgs[k].pic]
    BY <1>6 DEF ImgFill
  <2>2. t.images = imgs[k].images
    BY <1>0 DEF ImgTask
  <2>3. imgs[k].pic \in Content
    BY <1>6 DEF ImgFill, TypeInv, TaskInv, ImgCarries
  <2>4. disk'.img # CutOff
    BY <1>0, <2>1, <2>3, NoValuesAssumption
  <2>. HIDE DEF t
  <2>. QED
    BY <1>0, <1>goal, <2>1, <2>2, <2>4
<1>7. CASE ImgDone(k)
  <2>. DEFINE ps == mem.images \cup {IF disk.img = NoImage THEN NoDigest ELSE disk.img}
              d == [mem EXCEPT !.images = ps, !.status = "open"]
  <2>1. ps \in SUBSET Pictures
    BY <1>0 DEF Files, Pictures
  <2>2. CutOff \notin ps
    BY <1>0, <1>7, NoValuesAssumption DEF ImgDone, Clean, Files
  <2>3. Store(d) /\ imgs' = [imgs EXCEPT ![k] = IdleImg]
    BY <1>7 DEF ImgDone
  <2>. HIDE DEF ps
  <2>4. d \in Dan /\ Clean(d)
    BY <1>0, <2>1, <2>2 DEF Dan, Clean
  <2>. HIDE DEF d
  <2>5. CutOff \notin IdleImg.images /\ IdleImg.pc # "done"
    BY DEF IdleImg
  <2>. QED
    BY <1>goal, <2>3, <2>4, <2>5, StoreClean
<1>. QED
  BY <1>fail, <1>1, <1>2, <1>3, <1>4, <1>5, <1>6, <1>7 DEF ImgStep

\* The file an upload sends is whole: it was when the upload started, and nothing but a
\* clean-up, which deletes it, touches it meanwhile.
LEMMA UplWhole ==
  ASSUME TypeInv, WholeInv, NEW u \in UplJobs,
         UplClientStep(u) \/ UplFilesStep(u) \/ UplFormStep(u)
  PROVE  WholeInv'
<1>0. /\ Clean(mem) /\ (row # NoRow => Clean(row)) /\ (copy # NoCopy => Clean(copy.dan))
      /\ mem \in Dan /\ row \in Dan \cup {NoRow}
      /\ server.images \in Seq(Content \cup {CutOff})
      /\ server \in [images : Seq(Content \cup {CutOff}), forms : Seq(Form)]
      /\ disk.img \in Files /\ upls[u].imageId \in Nat
  BY DEF TypeInv, TypeOK, WholeInv, UplTask
<1>f. upls[u].pc # "idle" /\ disk.img # CutOff /\ UNCHANGED <<copy, disk, imgs>>
  BY UplShape DEF WholeInv
<1>goal. ASSUME Clean(mem'), row' # NoRow => Clean(row'),
                \A i \in 1..Len(server'.images) : server'.images[i] # CutOff
         PROVE  WholeInv'
  BY <1>0, <1>f, <1>goal DEF WholeInv
<1>1. Clean(mem') /\ (row' # NoRow => Clean(row'))
  <2>1. CASE UplImageId(u)
    <3>1. [mem EXCEPT !.imageId = upls[u].imageId] \in Dan /\ Clean([mem EXCEPT !.imageId = upls[u].imageId])
      BY <1>0 DEF Dan, Clean
    <3>. QED
      BY <2>1, <3>1, StoreClean DEF UplImageId
  <2>2. CASE UplStatus(u) \/ UplRemote(u) \/ UplDone(u)
    BY <1>0, <2>2 DEF UplStatus, UplRemote, UplDone, Dan, Clean
  <2>3. CASE UplSave(u)
    BY <1>0, <2>3, StoreClean DEF UplSave
  <2>4. CASE UNCHANGED <<mem, row>>
    BY <1>0, <2>4
  <2>. QED
    BY <2>1, <2>2, <2>3, <2>4
       DEF UplClientStep, UplFilesStep, UplFormStep, UplClient, UplCheck, UplSend, UplPost,
           UplLost, UplFail
<1>2. CASE UplSend(u)
  <2>1. CASE server' = server
    BY <1>1, <1>goal, <2>1 DEF WholeInv
  <2>2. CASE server' # server
    <3>1. PICK f \in FileToSend : server' = [server EXCEPT !.images = Append(@, f)]
      BY <1>2, <2>2 DEF UplSend
    <3>2. f # CutOff /\ f \in Content \cup {CutOff}
      BY <1>0, <1>f DEF FileToSend, Files
    <3>3. server'.images = Append(server.images, f)
      BY <1>0, <3>1
    <3>4. ASSUME NEW i \in 1..Len(server'.images) PROVE server'.images[i] # CutOff
      BY <1>0, <3>2, <3>3 DEF WholeInv
    <3>. QED
      BY <1>1, <1>goal, <3>4
  <2>. QED
    BY <2>1, <2>2
<1>3. CASE server'.images = server.images
  BY <1>1, <1>3, <1>goal DEF WholeInv
<1>4. UplPost(u) => server'.images = server.images
  BY <1>0 DEF UplPost
<1>. QED
  BY <1>2, <1>3, <1>4
     DEF UplClientStep, UplFilesStep, UplFormStep, UplClient, UplCheck, UplImageId, UplStatus,
         UplRemote, UplSave, UplDone, UplLost, uiVars

LEMMA StepWhole ==
  ASSUME ~BackDismisses, ~DiskMayFill, TypeInv, Waiting, WholeInv, [Next]_vars
  PROVE  WholeInv'
<1>0. /\ Clean(mem) /\ (row # NoRow => Clean(row)) /\ (copy # NoCopy => Clean(copy.dan))
      /\ mem \in Dan /\ row \in Dan \cup {NoRow} /\ disk \in [sig : Signatures, img : Files]
  BY DEF TypeInv, TypeOK, WholeInv
<1>goal. ASSUME Clean(mem'), row' # NoRow => Clean(row'), disk'.img \in {disk.img, NoImage},
                UNCHANGED <<copy, imgs, upls, server>>
         PROVE  WholeInv'
  BY <1>goal, NoValuesAssumption DEF WholeInv
<1>. USE DEF uiVars, jobVars, ghosts
<1>1. CASE TypeSave
  BY <1>0, <1>1, <1>goal, StoreClean DEF TypeSave
<1>2. ASSUME NEW j \in StripJobs, StripStep(j) PROVE WholeInv'
  <2>1. CASE StripSave(j)
    <3>. DEFINE d == [mem EXCEPT !.sigs = strips[j].sigs, !.images = {}]
    <3>1. strips[j].sigs \in Signatures
      BY DEF TypeInv, TypeOK, StripTask
    <3>2. d \in Dan /\ Clean(d)
      BY <1>0, <3>1 DEF Dan, Clean
    <3>3. Store(d) /\ UNCHANGED <<disk, copy, imgs, upls, server>>
      BY <2>1 DEF StripSave
    <3>. HIDE DEF d
    <3>. QED
      BY <1>0, <3>2, <3>3, <1>goal, StoreClean
  <2>2. CASE StripRead(j) \/ StripCheck(j) \/ StripDelete(j)
    BY <1>0, <2>2, <1>goal DEF StripRead, StripCheck, StripDelete
  <2>. QED
    BY <1>2, <2>1, <2>2 DEF StripStep
<1>3. CASE Die
  BY <1>3 DEF Die, WholeInv, Clean, Blank, IdleImg, IdleUpl
<1>4. CASE UNCHANGED vars
  BY <1>0, <1>4, <1>goal DEF vars
<1>. QED
  BY <1>1, <1>2, <1>3, <1>4, UiWhole, ImgWhole, UplWhole DEF Next, Killed, ArchiveThrows

\* No unsigned picture reaches the server, under any interleaving; and none that is cut
\* off, where the user waits for the dialogs and the storage does not run full.
THEOREM ImagesOnServerAreSigned == Spec => []ServerImagesSigned
<1>1. ASSUME TypeInv, SignedInv, NEW k \in 1..Len(server.images), server.images[k] # CutOff
      PROVE  \A t \in Required : server.images[k].sigs[t] # 0
  <2>1. server.images \in Seq(Content \cup {CutOff})
    BY <1>1 DEF TypeInv, TypeOK
  <2>2. server.images[k] \in Content
    BY <1>1, <2>1
  <2>. QED
    BY <1>1, <2>2 DEF SignedInv, Signed
<1>2. CASE BackDismisses \/ DiskMayFill
  <2>1. TypeInv /\ SignedInv => ServerImagesSigned
    BY <1>1, <1>2 DEF ServerImagesSigned
  <2>. QED
    BY <2>1, SignedInvariant, PTL
<1>3. CASE ~BackDismisses /\ ~DiskMayFill
  <2>1. Init => TypeInv /\ Waiting /\ WholeInv
    BY InitType, InitWaiting, InitWhole
  <2>2. TypeInv /\ Waiting /\ WholeInv /\ [Next]_vars => (TypeInv /\ Waiting /\ WholeInv)'
    BY <1>3, StepType, StepWaiting, StepWhole
  <2>3. WholeInv /\ TypeInv /\ SignedInv => ServerImagesSigned
    BY <1>1 DEF WholeInv, ServerImagesSigned
  <2>. QED
    BY <2>1, <2>2, <2>3, SignedInvariant, PTL DEF Spec
<1>. QED
  BY <1>2, <1>3

=============================================================================
