--------------------------- MODULE FormImageProofs ---------------------------
(***************************************************************************)
(* Proof about FormArchive when the user waits for the progress dialogs:   *)
(* however many clean-ups overlap, an image the form could be archived     *)
(* with shows the form's samples and client.                               *)
(***************************************************************************)
EXTENDS FormFinalProofs

\* A picture of the form as it is now.
Shows(p, client) == p.samples = samples.val /\ p.client = client

\* The form has no usable image, or one that is up to date.
UpToDate(m) ==
    ~Malformed(m) => \A p \in m.images : p \in {CutOff, NoDigest} \/ Shows(p, m.client)

Pending == \E j \in StripJobs : strips[j].pc # "idle"

SamePicture(m, d) ==
    m.images = d.images /\ m.client = d.client /\ (d.images # {} => m.sigs = d.sigs)

\* While a picture is made the form has none, and the user cannot change what it shows.
Drawing(t) ==
    t.pc # "idle" =>
      /\ mem.images = {} /\ t.images = {}
      /\ t.pc \in {"signs", "check", "bind"} => t.val = samples.val
      /\ t.pc \in {"write", "fill"} => Shows(t.pic, mem.client)
      /\ t.pc = "fill" => disk.img \in {CutOff, NoImage}
      /\ t.pc = "done" => disk.img \in {CutOff, NoImage} \/ Shows(disk.img, mem.client)

Rendering == \A k \in ImgJobs : Drawing(imgs[k])

\* A clean-up is under way as long as the image is out of date, and the row holds no
\* image but that of the form's object.
Current ==
    /\ Rendering
    /\ screen # "sampleSaved" => UpToDate(mem) \/ Pending
    /\ row # NoRow => \/ SamePicture(row, mem)
                      \/ screen = "signed" /\ row.images = {}

CurrentInv == crashes = 0 => Current

LEMMA InitCurrent ==
  ASSUME Init
  PROVE  CurrentInv
  BY DEF Init, CurrentInv, Current, Rendering, Drawing, UpToDate, Blank, IdleImg

LEMMA StorePicture ==
  ASSUME NEW m \in Dan, Store(m)
  PROVE  SamePicture(mem', m) /\ (row' # NoRow => row' = mem')
  BY DEF Store, Dan, SamePicture

LEMMA DeleteFormImagesPends ==
  ASSUME TypeInv, DeleteFormImages
  PROVE  Pending'
  BY DEF TypeInv, TypeOK, StripTask, DeleteFormImages, Pending

\* Steps that leave the picture the form names and what it shows alone.
LEMMA FrameKeepsCurrent ==
  ASSUME Current, SamePicture(mem', mem), UNCHANGED <<samples, imgs>>,
         row' = row \/ (row' # NoRow => row' = mem'),
         disk'.img \in {disk.img, NoImage},
         screen' # "sampleSaved" => Pending' \/ (screen # "sampleSaved" /\ (Pending => Pending')),
         screen = "signed" => screen' = "signed"
  PROVE  Current'
<1>1. UpToDate(mem) => UpToDate(mem)'
  BY DEF UpToDate, Shows, Malformed, SamePicture
<1>2. Rendering'
  BY DEF Current, Rendering, Drawing, Shows, SamePicture
<1>3. row' # NoRow => SamePicture(row', mem') \/ (screen' = "signed" /\ row'.images = {})
  BY DEF Current, SamePicture
<1>. QED
  BY <1>1, <1>2, <1>3 DEF Current

LEMMA UiCurrent ==
  ASSUME ~BackDismisses, TypeInv, Waiting, Current, UiStep
  PROVE  Current'
<1>. USE DEF uiVars, jobVars, ghosts, Tap, Touchable
<1>0. /\ mem \in Dan /\ row \in Dan \cup {NoRow} /\ disk.img \in Files
      /\ mem.sigs \in Signatures /\ imgs \in [ImgJobs -> ImgTask]
      /\ \A k \in ImgJobs : imgs[k].pc = "idle"
  BY UiWaits, DanFiles DEF TypeInv, TypeOK
<1>1. ASSUME NEW k \in ImgJobs, CreateImage(k) PROVE Current'
  <2>. DEFINE d == [mem EXCEPT !.sigs = Intact(mem.sigs), !.images = {}]
              t == [IdleImg EXCEPT !.pc = "samples", !.here = TRUE]
  <2>1. /\ UNCHANGED <<screen, samples, strips, disk>> /\ screen = "detail"
        /\ imgs' = [imgs EXCEPT ![k] = t]
        /\ (FilesEmpty(mem) /\ UNCHANGED <<mem, row>>) \/ Store(d)
    BY <1>1 DEF CreateImage
  <2>2. t.pc = "samples" /\ t.images = {}
    BY DEF IdleImg
  <2>3. Intact(mem.sigs) \in Signatures
    BY <1>0, IntactType
  <2>4. d \in Dan /\ d.images = {}
    BY <1>0, <2>3 DEF Dan
  <2>. HIDE DEF d, t
  <2>5. mem'.images = {} /\ (row' # NoRow => SamePicture(row', mem'))
    <3>1. CASE FilesEmpty(mem) /\ UNCHANGED <<mem, row>>
      BY <2>1, <3>1 DEF FilesEmpty, SamePicture, Current
    <3>2. CASE Store(d)
      BY <2>4, <3>2, StorePicture DEF SamePicture
    <3>. QED
      BY <2>1, <3>1, <3>2
  <2>6. Rendering'
    BY <1>0, <2>1, <2>2, <2>5 DEF Rendering, Drawing
  <2>. QED
    BY <2>1, <2>5, <2>6 DEF Current, UpToDate
<1>idle. ASSUME \A k \in ImgJobs : ~CreateImage(k), screen' # "sampleSaved" => UpToDate(mem)' \/ Pending',
                row' # NoRow => SamePicture(row', mem') \/ (screen' = "signed" /\ row'.images = {})
         PROVE  Current'
  <2>1. \A k \in ImgJobs : imgs'[k].pc = "idle"
    BY <1>idle, UiStarts
  <2>. QED
    BY <1>idle, <2>1 DEF Current, Rendering, Drawing
<1>2. SUFFICES ASSUME \A k \in ImgJobs : ~CreateImage(k) PROVE Current'
  BY <1>1
<1>same. ASSUME UNCHANGED <<mem, samples, strips>>, row' \in {row, NoRow},
                screen \notin {"sampleSaved", "signed"} \/ screen' = screen
         PROVE  Current'
  BY <1>2, <1>same, <1>idle DEF Current, UpToDate, Shows, Malformed, Pending, SamePicture
<1>3. CASE SampleTypeResult
  <2>1. PICK t \in SampleTypes : mem' = [mem EXCEPT !.stype = t]
    BY <1>3 DEF SampleTypeResult
  <2>2. SamePicture(mem', mem)
    BY <1>0, <2>1 DEF SamePicture, Dan
  <2>3. row' = row /\ samples' = samples /\ screen = "type" /\ (Pending => Pending')
    BY <1>3, DeleteFormImagesPends DEF SampleTypeResult, Pending
  <2>. QED
    BY <1>2, <2>2, <2>3, <1>idle DEF Current, UpToDate, Shows, Malformed, SamePicture
<1>4. CASE CompanyResult
  <2>1. PICK c \in Clients : Store([mem EXCEPT !.client = c])
    BY <1>4 DEF CompanyResult
  <2>2. [mem EXCEPT !.client = c] \in Dan
    BY <1>0 DEF Dan
  <2>3. row' # NoRow => row' = mem'
    BY <2>1, <2>2, StorePicture
  <2>. QED
    BY <1>2, <1>4, <2>3, <1>idle, DeleteFormImagesPends DEF CompanyResult, SamePicture
<1>5. CASE SampleSave
  BY <1>2, <1>5, <1>idle DEF SampleSave, Current
<1>6. CASE SampleResult \/ DeleteSample
  <2>1. Pending' /\ UNCHANGED <<row, mem>> /\ screen # "signed"
    BY <1>6, DeleteFormImagesPends DEF SampleResult, DeleteSample
  <2>. QED
    BY <1>2, <2>1, <1>idle DEF Current
<1>7. CASE SignResult
  BY <1>2, <1>7, <1>idle, DeleteFormImagesPends DEF SignResult, SamePicture
<1>8. CASE SignSave
  <2>. DEFINE d == [copy.dan EXCEPT !.sigs = copy.ids, !.images = {}]
  <2>1. copy.dan \in Dan /\ copy.ids \in Signatures
    BY <1>8, CopyFields, NoValuesAssumption DEF SignSave, TypeInv, TaskInv
  <2>2. [d EXCEPT !.id = TRUE].images = {}
    BY <2>1 DEF Dan
  <2>3. UNCHANGED <<mem, samples, strips>> /\ screen' = "signed" /\ screen = "sign"
        /\ (row' # NoRow => row'.images = {})
    BY <1>8, <2>2 DEF SignSave
  <2>. QED
    BY <1>2, <2>3, <1>idle DEF Current, UpToDate, Shows, Malformed, Pending
<1>9. CASE Open
  <2>1. /\ UNCHANGED <<row, samples, strips>> /\ row # NoRow
        /\ screen = "closed" /\ screen' = "detail" /\ mem' \in {mem, row}
    BY <1>9 DEF Open
  <2>2. SamePicture(row, mem) /\ (UpToDate(mem) \/ Pending)
    BY <2>1 DEF Current
  <2>3. SamePicture(mem', mem) /\ SamePicture(row, mem')
    BY <2>1, <2>2 DEF SamePicture
  <2>. QED
    BY <1>2, <2>1, <2>2, <2>3, <1>idle DEF UpToDate, Shows, Malformed, Pending, SamePicture
<1>10. CASE Close \/ ClearForm
  BY <1>10, <1>same DEF Close, ClearForm
<1>11. CASE \/ ShowAddSampleType \/ ShowCompany \/ ShowSampling \/ LongClickSample \/ Cancel
            \/ ShowSignature \/ (\E t \in SigTypes : Paint(t)) \/ BackOnDialog
            \/ \E u \in UplJobs : UploadArchives(u)
  BY <1>11, <1>same DEF ShowAddSampleType, ShowCompany, ShowSampling, LongClickSample, Cancel,
                 ShowSignature, Paint, BackOnDialog, UploadArchives
<1>. QED
  BY <1>2, <1>3, <1>4, <1>5, <1>6, <1>7, <1>8, <1>9, <1>10, <1>11 DEF UiStep

\* The picture shows what was read while the dialog covered the form.
LEMMA ImgCurrent ==
  ASSUME TypeInv, Waiting, Current, NEW k \in ImgJobs, ImgStep(k)
  PROVE  Current'
<1>0. /\ mem \in Dan /\ imgs \in [ImgJobs -> ImgTask] /\ imgs[k] \in ImgTask
      /\ disk \in [sig : Signatures, img : Files]
  BY DEF TypeInv, TypeOK
<1>f. /\ imgs[k].pc # "idle" /\ UNCHANGED <<screen, samples, strips>>
      /\ \A l \in ImgJobs : l # k => imgs[l].pc = "idle"
      /\ mem.images = {} /\ imgs[k].images = {} /\ Drawing(imgs[k])
  BY ImgShape DEF Waiting, Current, Rendering, Drawing
<1>. USE DEF uiVars, jobVars, ghosts
<1>goal. ASSUME NEW t, imgs' = [imgs EXCEPT ![k] = t], Drawing(imgs[k])',
                mem'.images = {}, mem'.client = mem.client, row' = row
         PROVE  Current'
  <2>1. Rendering'
    BY <1>0, <1>f, <1>goal DEF Rendering, Drawing
  <2>2. UpToDate(mem)'
    BY <1>goal DEF UpToDate
  <2>3. row # NoRow /\ SamePicture(row, mem) => SamePicture(row, mem')
    BY <1>f, <1>goal DEF SamePicture
  <2>. QED
    BY <1>f, <1>goal, <2>1, <2>2, <2>3 DEF Current
<1>fail. ASSUME ImgFail(k) PROVE Current'
  <2>1. imgs' = [imgs EXCEPT ![k] = IdleImg] /\ UNCHANGED <<mem, row>>
    BY <1>fail DEF ImgFail
  <2>2. imgs'[k].pc = "idle"
    BY <1>0, <2>1 DEF IdleImg
  <2>. QED
    BY <1>f, <2>1, <2>2, <1>goal DEF Drawing
<1>1. CASE ImgSamples(k) /\ ~ImgFail(k)
  <2>. DEFINE t == [imgs[k] EXCEPT !.pc = "signs", !.val = samples.val]
  <2>1. UNCHANGED <<row, mem>> /\ imgs' = [imgs EXCEPT ![k] = t]
    BY <1>1 DEF ImgSamples
  <2>2. t.pc = "signs" /\ t.val = samples.val /\ t.images = {} /\ imgs'[k] = t
    BY <1>0, <1>f, <2>1 DEF ImgTask
  <2>. HIDE DEF t
  <2>3. Drawing(imgs[k])'
    BY <1>f, <2>1, <2>2 DEF Drawing
  <2>. QED
    BY <1>f, <2>1, <2>3, <1>goal
<1>2. CASE ImgSigns(k) /\ ~ImgFail(k)
  <2>. DEFINE t == [imgs[k] EXCEPT !.pc = "check", !.sigs = mem.sigs, !.images = mem.images]
  <2>1. UNCHANGED <<row, mem>> /\ imgs' = [imgs EXCEPT ![k] = t] /\ imgs[k].pc = "signs"
    BY <1>2 DEF ImgSigns
  <2>2. t.pc = "check" /\ t.val = imgs[k].val /\ t.images = {} /\ imgs'[k] = t
    BY <1>0, <1>f, <2>1 DEF ImgTask
  <2>. HIDE DEF t
  <2>3. Drawing(imgs[k])'
    BY <1>f, <2>1, <2>2 DEF Drawing
  <2>. QED
    BY <1>f, <2>1, <2>3, <1>goal
<1>3. CASE ImgCheck(k) /\ ~ImgFail(k)
  <2>. DEFINE t == [imgs[k] EXCEPT !.pc = "bind"]
  <2>1. /\ row' = row /\ imgs' = [imgs EXCEPT ![k] = t] /\ imgs[k].pc = "check"
        /\ mem' = [mem EXCEPT !.sigs = imgs[k].sigs, !.images = imgs[k].images]
    BY <1>3 DEF ImgCheck
  <2>2. t.pc = "bind" /\ t.val = imgs[k].val /\ t.images = {} /\ imgs'[k] = t
    BY <1>0, <1>f, <2>1 DEF ImgTask
  <2>3. mem'.images = {} /\ mem'.client = mem.client
    BY <1>0, <1>f, <2>1 DEF Dan
  <2>. HIDE DEF t
  <2>4. Drawing(imgs[k])'
    BY <1>f, <2>1, <2>2, <2>3 DEF Drawing
  <2>. QED
    BY <2>1, <2>3, <2>4, <1>goal
<1>4. CASE ImgBind(k) /\ ~ImgFail(k)
  <2>. DEFINE p == [samples |-> imgs[k].val, client |-> mem.client,
                    stype |-> mem.stype, sigs |-> imgs[k].sigs]
              t == [imgs[k] EXCEPT !.pc = "write", !.pic = p]
  <2>1. UNCHANGED <<row, mem>> /\ imgs' = [imgs EXCEPT ![k] = t] /\ imgs[k].pc = "bind"
    BY <1>4 DEF ImgBind
  <2>2. p.samples = samples.val /\ p.client = mem.client
    BY <1>f, <2>1 DEF Drawing
  <2>. HIDE DEF p
  <2>3. t.pc = "write" /\ t.pic = p /\ t.images = {} /\ imgs'[k] = t
    BY <1>0, <1>f, <2>1 DEF ImgTask
  <2>. HIDE DEF t
  <2>4. Drawing(imgs[k])'
    BY <1>f, <2>1, <2>2, <2>3 DEF Drawing, Shows
  <2>. QED
    BY <1>f, <2>1, <2>4, <1>goal
<1>5. CASE ImgWrite(k) /\ ~ImgFail(k)
  <2>. DEFINE t == [imgs[k] EXCEPT !.pc = "fill"]
  <2>1. /\ UNCHANGED <<row, mem>> /\ imgs' = [imgs EXCEPT ![k] = t] /\ imgs[k].pc = "write"
        /\ disk' = [disk EXCEPT !.img = CutOff]
    BY <1>5 DEF ImgWrite
  <2>2. t.pc = "fill" /\ t.pic = imgs[k].pic /\ t.images = {} /\ imgs'[k] = t /\ disk'.img = CutOff
    BY <1>0, <1>f, <2>1 DEF ImgTask
  <2>. HIDE DEF t
  <2>3. Drawing(imgs[k])'
    BY <1>f, <2>1, <2>2 DEF Drawing, Shows
  <2>. QED
    BY <1>f, <2>1, <2>3, <1>goal
<1>6. CASE ImgFill(k)
  <2>. DEFINE t == [imgs[k] EXCEPT !.pc = "done"]
  <2>1. /\ UNCHANGED <<row, mem>> /\ imgs' = [imgs EXCEPT ![k] = t] /\ imgs[k].pc = "fill"
        /\ \E f \in {imgs[k].pic, disk.img, CutOff} :
              disk' = [disk EXCEPT !.img = IF @ = NoImage THEN NoImage ELSE f]
    BY <1>6 DEF ImgFill
  <2>2. t.pc = "done" /\ t.images = {} /\ imgs'[k] = t
    BY <1>0, <1>f, <2>1 DEF ImgTask
  <2>3. disk'.img \in {CutOff, NoImage} \/ Shows(disk'.img, mem.client)
    BY <1>0, <1>f, <2>1 DEF Drawing, Shows
  <2>. HIDE DEF t
  <2>4. Drawing(imgs[k])'
    BY <1>f, <2>1, <2>2, <2>3 DEF Drawing, Shows
  <2>. QED
    BY <1>f, <2>1, <2>4, <1>goal
<1>7. CASE ImgDone(k)
  <2>. DEFINE p == IF disk.img = NoImage THEN NoDigest ELSE disk.img
              d == [mem EXCEPT !.images = @ \cup {p}, !.status = "open"]
  <2>1. /\ Store(d) /\ imgs' = [imgs EXCEPT ![k] = IdleImg] /\ imgs[k].pc = "done"
    BY <1>7 DEF ImgDone
  <2>2. p \in Pictures /\ (p \in {CutOff, NoDigest} \/ Shows(p, mem.client))
    BY <1>0, <1>f, <2>1 DEF Drawing, Files, Pictures
  <2>. HIDE DEF p
  <2>3. d \in Dan /\ d.images = {p} /\ d.client = mem.client
    BY <1>0, <1>f, <2>2 DEF Dan
  <2>. HIDE DEF d
  <2>4. mem'.images = {p} /\ mem'.client = mem.client /\ (row' # NoRow => row' = mem')
    BY <2>1, <2>3, StorePicture DEF SamePicture
  <2>5. UpToDate(mem)'
    BY <1>f, <2>2, <2>4 DEF UpToDate, Shows
  <2>6. \A l \in ImgJobs : imgs'[l].pc = "idle"
    BY <1>0, <1>f, <2>1 DEF IdleImg
  <2>. QED
    BY <2>4, <2>5, <2>6 DEF Current, Rendering, Drawing, SamePicture
<1>. QED
  BY <1>fail, <1>1, <1>2, <1>3, <1>4, <1>5, <1>6, <1>7 DEF ImgStep

\* A clean-up ends with a form that has no image, or found one without files.
LEMMA StripCurrent ==
  ASSUME TypeInv, Current, NEW j \in StripJobs, StripStep(j)
  PROVE  Current'
<1>. USE DEF uiVars, jobVars, ghosts
<1>0. mem \in Dan /\ strips \in [StripJobs -> StripTask] /\ SamePicture(mem, mem)
  BY DEF TypeInv, TypeOK, SamePicture
<1>1. CASE StripRead(j)
  <2>1. UNCHANGED <<screen, row, mem, samples, disk, imgs>>
    BY <1>1 DEF StripRead
  <2>2. CASE FilesEmpty(mem) \/ Malformed(mem)
    <3>1. UpToDate(mem)'
      BY <2>1, <2>2 DEF UpToDate, FilesEmpty, Malformed
    <3>. QED
      BY <2>1, <3>1 DEF Current, Rendering, Drawing, Shows, SamePicture
  <2>3. CASE ~FilesEmpty(mem) /\ ~Malformed(mem)
    <3>1. strips'[j].pc = "read"
      BY <1>0, <1>1, <2>3 DEF StripRead
    <3>. QED
      BY <1>0, <2>1, <3>1, FrameKeepsCurrent DEF Pending
  <2>. QED
    BY <2>2, <2>3
<1>2. CASE StripCheck(j) \/ StripDelete(j)
  <2>1. UNCHANGED <<screen, row, mem, samples, imgs>>
    BY <1>2 DEF StripCheck, StripDelete
  <2>2. strips'[j].pc \in {"delete", "save"}
    <3>1. CASE StripCheck(j)
      BY <1>0, <3>1 DEF StripCheck
    <3>2. CASE StripDelete(j)
      BY <1>0, <3>2 DEF StripDelete, StripTask
    <3>. QED
      BY <1>2, <3>1, <3>2
  <2>3. disk'.img \in {disk.img, NoImage}
    BY <1>2 DEF StripCheck, StripDelete, TypeInv, TypeOK
  <2>. QED
    BY <1>0, <2>1, <2>2, <2>3, FrameKeepsCurrent DEF Pending
<1>3. CASE StripSave(j)
  <2>. DEFINE d == [mem EXCEPT !.sigs = strips[j].sigs, !.images = {}]
  <2>1. strips[j].sigs \in Signatures
    BY <1>0 DEF StripTask
  <2>2. d \in Dan /\ d.images = {} /\ d.client = mem.client
    BY <1>0, <2>1 DEF Dan
  <2>3. Store(d) /\ UNCHANGED <<screen, samples, disk, imgs>>
    BY <1>3 DEF StripSave
  <2>. HIDE DEF d
  <2>4. mem'.images = {} /\ mem'.client = mem.client /\ (row' # NoRow => row' = mem')
    BY <2>2, <2>3, StorePicture DEF SamePicture
  <2>5. Rendering'
    BY <2>3, <2>4 DEF Current, Rendering, Drawing, Shows
  <2>. QED
    BY <2>3, <2>4, <2>5 DEF Current, UpToDate, SamePicture
<1>. QED
  BY <1>1, <1>2, <1>3 DEF StripStep

\* An upload changes no picture.
LEMMA UplCurrent ==
  ASSUME TypeInv, Current, NEW u \in UplJobs,
         UplClientStep(u) \/ UplFilesStep(u) \/ UplFormStep(u)
  PROVE  Current'
<1>. USE DEF uiVars, jobVars, ghosts
<1>0. mem \in Dan /\ upls[u].remote \in Nat /\ upls[u].imageId \in Nat /\ SamePicture(mem, mem)
  BY DEF TypeInv, TypeOK, UplTask, SamePicture
<1>1. UNCHANGED <<screen, samples, disk, strips, imgs>>
  BY UplShape
<1>goal. ASSUME SamePicture(mem', mem), row' = row \/ (row' # NoRow => row' = mem') PROVE Current'
  BY <1>1, <1>goal, FrameKeepsCurrent DEF Pending
<1>2. CASE UNCHANGED <<row, mem>>
  BY <1>0, <1>2, <1>goal
<1>3. CASE UplImageId(u)
  <2>. DEFINE d == [mem EXCEPT !.imageId = upls[u].imageId]
  <2>1. d \in Dan /\ SamePicture(d, mem)
    BY <1>0 DEF Dan, SamePicture
  <2>2. Store(d)
    BY <1>3 DEF UplImageId
  <2>. HIDE DEF d
  <2>. QED
    BY <2>1, <2>2, <1>goal, StorePicture DEF SamePicture
<1>4. CASE UplStatus(u) \/ UplRemote(u) \/ UplDone(u)
  <2>1. row' = row /\ SamePicture(mem', mem)
    BY <1>0, <1>4 DEF UplStatus, UplRemote, UplDone, Dan, SamePicture
  <2>. QED
    BY <2>1, <1>goal
<1>5. CASE UplSave(u)
  BY <1>0, <1>5, <1>goal, StorePicture DEF UplSave
<1>. QED
  BY <1>2, <1>3, <1>4, <1>5
  DEF UplClientStep, UplClient, UplFilesStep, UplCheck, UplSend, UplFormStep, UplPost,
      UplLost, UplFail

LEMMA StepCurrent ==
  ASSUME ~BackDismisses, TypeInv, Waiting, CurrentInv, [Next]_vars
  PROVE  CurrentInv'
<1>0. crashes \in Nat /\ mem \in Dan /\ SamePicture(mem, mem)
  BY DEF TypeInv, TypeOK, SamePicture
<1>1. CASE Die
  BY <1>0, <1>1 DEF Die, CurrentInv
<1>2. CASE ~Die
  <2>. USE DEF uiVars, jobVars, ghosts, counts
  <2>1. CASE UiStep
    <3>1. crashes' = crashes
      BY <2>1
      DEF UiStep, ShowAddSampleType, SampleTypeResult, ShowCompany, CompanyResult,
          ShowSampling, SampleSave, SampleResult, LongClickSample, DeleteSample, Cancel,
          ShowSignature, Paint, SignSave, SignResult, BackOnDialog, Close, ClearForm, Open,
          CreateImage, UploadArchives
    <3>. QED
      BY <2>1, <3>1, UiCurrent DEF CurrentInv
  <2>2. CASE TypeSave
    <3>1. /\ Store(mem) /\ UNCHANGED <<screen, samples, disk, strips, imgs, crashes>>
      BY <2>2 DEF TypeSave
    <3>2. SamePicture(mem', mem) /\ (row' # NoRow => row' = mem')
      BY <1>0, <3>1, StorePicture
    <3>. QED
      BY <3>1, <3>2, FrameKeepsCurrent DEF Pending, CurrentInv
  <2>3. ASSUME NEW j \in StripJobs, StripStep(j) PROVE CurrentInv'
    <3>1. crashes' = crashes
      BY <2>3 DEF StripStep, StripRead, StripCheck, StripDelete, StripSave
    <3>. QED
      BY <2>3, <3>1, StripCurrent DEF CurrentInv
  <2>4. ASSUME NEW k \in ImgJobs, ImgStep(k) PROVE CurrentInv'
    <3>1. crashes' = crashes
      BY <2>4, ImgShape
    <3>. QED
      BY <2>4, <3>1, ImgCurrent DEF CurrentInv
  <2>5. ASSUME NEW u \in UplJobs, UplClientStep(u) \/ UplFilesStep(u) \/ UplFormStep(u)
        PROVE  CurrentInv'
    <3>1. crashes' = crashes
      BY <2>5 DEF UplClientStep, UplClient, UplFilesStep, UplCheck, UplSend, UplImageId,
                  UplFormStep, UplPost, UplStatus, UplRemote, UplSave, UplDone, UplLost
    <3>. QED
      BY <2>5, <3>1, UplCurrent DEF CurrentInv
  <2>6. CASE UNCHANGED vars
    <3>1. UNCHANGED <<screen, row, mem, samples, disk, strips, imgs, crashes>>
      BY <2>6 DEF vars
    <3>. QED
      BY <1>0, <3>1, FrameKeepsCurrent DEF Pending, CurrentInv
  <2>. QED
    BY <1>2, <2>1, <2>2, <2>3, <2>4, <2>5, <2>6 DEF Next, Killed, ArchiveThrows
<1>. QED
  BY <1>1, <1>2

\* Once the clean-ups have run, an image the form could be archived with shows its
\* samples and client (unless a process death lost a clean-up).
THEOREM ImageIsFresh == ASSUME ~BackDismisses PROVE Spec => []FreshImage
<1>1. Init => TypeInv /\ Waiting /\ CurrentInv
  BY InitType, InitWaiting, InitCurrent
<1>2. TypeInv /\ Waiting /\ CurrentInv /\ [Next]_vars => (TypeInv /\ Waiting /\ CurrentInv)'
  BY StepType, StepWaiting, StepCurrent
<1>3. ASSUME TypeInv, CurrentInv PROVE FreshImage
  <2>1. SUFFICES ASSUME crashes = 0, screen = "detail", \A j \in StripJobs : strips[j].pc = "idle",
                        mem.images = {disk.img}, disk.img # CutOff, ~Malformed(mem)
                 PROVE  Shows(disk.img, mem.client)
    BY DEF FreshImage, Shows
  <2>2. disk.img # NoDigest
    BY <1>3, NoValuesAssumption DEF TypeInv, TypeOK
  <2>3. UpToDate(mem)
    BY <1>3, <2>1 DEF CurrentInv, Current, Pending
  <2>. QED
    BY <2>1, <2>2, <2>3 DEF UpToDate
<1>. QED
  BY <1>1, <1>2, <1>3, PTL DEF Spec
=============================================================================
