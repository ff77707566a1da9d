-------------------------- MODULE FormArchiveProofs --------------------------
(***************************************************************************)
(* Proofs about FormArchive for every set of clients, samples, signature   *)
(* kinds and tasks and every bound, whether or not Back cancels the        *)
(* progress dialogs and lets renderings and uploads run over one another,  *)
(* and whether or not the storage holds out.                               *)
(***************************************************************************)
EXTENDS FormArchive, FiniteSetTheorems, TLAPS

\* What the tasks carry from step to step: the type invariant is not inductive
\* without it, because a step uses what an earlier one checked.
ImgCarries(k) ==
    /\ imgs[k].pc \in {"signs", "check", "bind"} => imgs[k].val \in SampleVals
    /\ imgs[k].pc \in {"write", "fill"} => imgs[k].pic \in Content

UplCarries(u) == upls[u].clientDone => upls[u].val \in SampleVals

TaskInv ==
    /\ screen = "sign" => copy \in Copies
    /\ samples.ready => samples.val \in SampleVals
    /\ \A k \in ImgJobs : ImgCarries(k)
    /\ \A u \in UplJobs : UplCarries(u)

TypeInv == TypeOK /\ TaskInv

USE DEF Signatures

-----------------------------------------------------------------------------
(* The helpers keep the types.                                             *)

\* A form nobody has signed.
LEMMA NoSigsType == NoSigs \in Signatures
  BY DEF NoSigs

\* The form that onCreate makes.
LEMMA BlankType == Blank \in Dan
  BY NoSigsType DEF Blank, Dan

\* Tasks that do not run are well formed.
LEMMA IdleTypes ==
    /\ IdleStrip \in StripTask /\ IdleImg \in ImgTask /\ IdleUpl \in UplTask
  BY NoSigsType DEF IdleStrip, IdleImg, IdleUpl, StripTask, ImgTask, UplTask

\* deleteFormImages and createImage keep a subset of the signatures.
LEMMA IntactType ==
  ASSUME NEW sigs \in Signatures
  PROVE  Intact(sigs) \in Signatures
  BY DEF Intact

\* save() writes a form over a row.
LEMMA StoreType ==
  ASSUME NEW m \in Dan, row \in Dan \cup {NoRow}, Store(m)
  PROVE  mem' \in Dan /\ row' \in Dan \cup {NoRow}
  BY DEF Store, Dan

\* deleteFormImages keeps the types of what it reads and starts.
LEMMA DeleteFormImagesType ==
  ASSUME strips \in [StripJobs -> StripTask], DeleteFormImages
  PROVE  strips' \in [StripJobs -> StripTask]
<1>1. PICK j \in StripJobs : strips' = [strips EXCEPT ![j].pc = "queued"]
  BY DEF DeleteFormImages
<1>2. [strips[j] EXCEPT !.pc = "queued"] \in StripTask
  BY DEF StripTask
<1>. QED
  BY <1>1, <1>2

-----------------------------------------------------------------------------
(* Every action keeps the types and what its task relies on.  One lemma for *)
(* the main thread, one for each kind of task, one for process death.       *)

\* Fields of a form and of a copy of it.
LEMMA DanFields ==
  ASSUME NEW m \in Dan
  PROVE  /\ m.sigs \in Signatures /\ m.images \in SUBSET Pictures
         /\ m.client \in Clients \cup {NoClient} /\ m.stype \in SampleTypes \cup {NoType}
         /\ m.imageId \in Nat /\ m.remoteId \in Nat
         /\ \A c \in Clients : [m EXCEPT !.client = c] \in Dan
         /\ \A t \in SampleTypes : [m EXCEPT !.stype = t] \in Dan
         /\ \A k \in Nat : [m EXCEPT !.imageId = k] \in Dan
         /\ \A k \in Nat : [m EXCEPT !.remoteId = k] \in Dan
         /\ [m EXCEPT !.status = "archived"] \in Dan
         /\ \A ps \in SUBSET Pictures : [m EXCEPT !.images = ps, !.status = "open"] \in Dan
         /\ \A s \in Signatures, ps \in SUBSET Pictures :
              [m EXCEPT !.sigs = s, !.images = ps] \in Dan
         /\ [m EXCEPT !.id = TRUE] \in Dan
<1>. USE DEF Dan
<1>1. /\ m.sigs \in Signatures /\ m.images \in SUBSET Pictures
      /\ m.client \in Clients \cup {NoClient} /\ m.stype \in SampleTypes \cup {NoType}
      /\ m.imageId \in Nat /\ m.remoteId \in Nat
  OBVIOUS
<1>2. \A c \in Clients : [m EXCEPT !.client = c] \in Dan
  OBVIOUS
<1>3. \A t \in SampleTypes : [m EXCEPT !.stype = t] \in Dan
  OBVIOUS
<1>4. /\ \A k \in Nat : [m EXCEPT !.imageId = k] \in Dan
      /\ \A k \in Nat : [m EXCEPT !.remoteId = k] \in Dan
  OBVIOUS
<1>5. [m EXCEPT !.status = "archived"] \in Dan
  OBVIOUS
<1>6. \A ps \in SUBSET Pictures : [m EXCEPT !.images = ps, !.status = "open"] \in Dan
  OBVIOUS
<1>7. \A s \in Signatures, ps \in SUBSET Pictures : [m EXCEPT !.sigs = s, !.images = ps] \in Dan
  OBVIOUS
<1>8. [m EXCEPT !.id = TRUE] \in Dan
  OBVIOUS
<1>. QED
  BY <1>1, <1>2, <1>3, <1>4, <1>5, <1>6, <1>7, <1>8

\* A copy of the form taken by another activity has the fields of a form.
LEMMA CopyFields ==
  ASSUME NEW c \in Copies
  PROVE  /\ c.dan \in Dan /\ c.ids \in Signatures
         /\ \A d \in Dan : [c EXCEPT !.dan = d] \in Copies
         /\ \A t \in SigTypes, k \in Nat : [c EXCEPT !.ids[t] = k] \in Copies
<1>. USE DEF Copies
<1>1. c.dan \in Dan /\ c.ids \in Signatures
  OBVIOUS
<1>2. \A d \in Dan : [c EXCEPT !.dan = d] \in Copies
  <2>. SUFFICES ASSUME NEW d \in Dan PROVE [c EXCEPT !.dan = d] \in Copies
    OBVIOUS
  <2>1. [c EXCEPT !.dan = d] = [dan |-> d, ids |-> c.ids]
    OBVIOUS
  <2>. QED
    BY <1>1, <2>1
<1>3. \A t \in SigTypes, k \in Nat : [c EXCEPT !.ids[t] = k] \in Copies
  <2>. SUFFICES ASSUME NEW t \in SigTypes, NEW k \in Nat
                PROVE [c EXCEPT !.ids[t] = k] \in Copies
    OBVIOUS
  <2>1. [c EXCEPT !.ids[t] = k] = [dan |-> c.dan, ids |-> [c.ids EXCEPT ![t] = k]]
    OBVIOUS
  <2>2. [c.ids EXCEPT ![t] = k] \in Signatures
    BY <1>1
  <2>. QED
    BY <1>1, <2>1, <2>2
<1>. QED
  BY <1>1, <1>2, <1>3

\* Leaving the form takes the tasks' dialogs with it and nothing else.
LEMMA LeaveType ==
  ASSUME TypeInv, Leave
  PROVE  /\ imgs' \in [ImgJobs -> ImgTask] /\ upls' \in [UplJobs -> UplTask]
         /\ \A k \in ImgJobs : ImgCarries(k)'
         /\ \A u \in UplJobs : UplCarries(u)'
         /\ screen' = "closed"
<1>. USE DEF TypeInv, TypeOK, TaskInv, ImgCarries, UplCarries
<1>1. ASSUME NEW k \in ImgJobs
      PROVE  /\ imgs'[k] \in ImgTask
             /\ imgs'[k].pc = imgs[k].pc /\ imgs'[k].val = imgs[k].val
             /\ imgs'[k].pic = imgs[k].pic
  <2>1. imgs'[k] = [imgs[k] EXCEPT !.here = FALSE]
    BY DEF Leave
  <2>2. imgs[k] \in ImgTask
    OBVIOUS
  <2>. QED
    BY ONLY <2>1, <2>2 DEF ImgTask
<1>2. ASSUME NEW u \in UplJobs
      PROVE  /\ upls'[u] \in UplTask
             /\ upls'[u].clientDone = upls[u].clientDone
             /\ upls'[u].val = upls[u].val
  <2>1. upls'[u] = [upls[u] EXCEPT !.here = FALSE]
    BY DEF Leave
  <2>2. upls[u] \in UplTask
    OBVIOUS
  <2>. QED
    BY ONLY <2>1, <2>2 DEF UplTask
<1>3. imgs' \in [ImgJobs -> ImgTask] /\ upls' \in [UplJobs -> UplTask]
  BY <1>1, <1>2 DEF Leave
<1>. QED
  BY <1>1, <1>2, <1>3 DEF Leave

\* Every step of the user interface keeps the types.
LEMMA UiStepType ==
  ASSUME TypeInv, UiStep
  PROVE  TypeInv'
<1>. USE DEF TypeInv, TypeOK, TaskInv, ImgCarries, UplCarries, uiVars, jobVars, ghosts, counts, Tap
<1>1. CASE ShowAddSampleType
  BY <1>1 DEF ShowAddSampleType
<1>2. CASE SampleTypeResult
  <2>. PICK t \in SampleTypes : mem' = [mem EXCEPT !.stype = t]
    BY <1>2 DEF SampleTypeResult
  <2>1. mem' \in Dan
    BY DanFields
  <2>2. strips' \in [StripJobs -> StripTask]
    BY <1>2, DeleteFormImagesType DEF SampleTypeResult
  <2>. QED
    BY <1>2, <2>1, <2>2 DEF SampleTypeResult
<1>3. CASE ShowCompany
  BY <1>3 DEF ShowCompany
<1>4. CASE CompanyResult
  <2>1. PICK c \in Clients : Store([mem EXCEPT !.client = c])
    BY <1>4 DEF CompanyResult
  <2>2. mem' \in Dan /\ row' \in Dan \cup {NoRow}
    BY <2>1, DanFields, StoreType
  <2>3. strips' \in [StripJobs -> StripTask]
    BY <1>4, DeleteFormImagesType DEF CompanyResult
  <2>. QED
    BY <1>4, <2>2, <2>3 DEF CompanyResult
<1>5. CASE ShowSampling
  BY <1>5 DEF ShowSampling
<1>6. CASE SampleSave
  <2>1. samples' \in SampleRows /\ samples'.val \in SampleVals
    BY <1>6 DEF SampleSave, SampleRows
  <2>. QED
    BY <1>6, <2>1 DEF SampleSave
<1>7. CASE SampleResult
  <2>1. strips' \in [StripJobs -> StripTask]
    BY <1>7, DeleteFormImagesType DEF SampleResult
  <2>. QED
    BY <1>7, <2>1 DEF SampleResult
<1>8. CASE LongClickSample
  BY <1>8 DEF LongClickSample
<1>9. CASE DeleteSample
  <2>1. samples' \in SampleRows /\ (samples'.ready => samples'.val \in SampleVals)
    <3>1. CASE samples' \in [val : SampleVals, ready : BOOLEAN]
      BY <3>1 DEF SampleRows
    <3>2. CASE samples' = [val |-> NoSamples, ready |-> FALSE]
      BY <3>2 DEF SampleRows
    <3>. QED
      BY <1>9, <3>1, <3>2 DEF DeleteSample
  <2>2. strips' \in [StripJobs -> StripTask]
    BY <1>9, DeleteFormImagesType DEF DeleteSample
  <2>. QED
    BY <1>9, <2>1, <2>2 DEF DeleteSample
<1>10. CASE Cancel
  BY <1>10 DEF Cancel
<1>11. CASE ShowSignature
  <2>1. copy' \in Copies
    BY <1>11, DanFields DEF ShowSignature, Copies
  <2>. QED
    BY <1>11, <2>1 DEF ShowSignature, Copies
<1>12. CASE SignSave
  <2>. DEFINE d == [copy.dan EXCEPT !.sigs = copy.ids, !.images = {}]
  <2>1. d \in Dan
    BY <1>12, CopyFields, DanFields DEF SignSave
  <2>2. row' \in Dan \cup {NoRow}
    BY <1>12, <2>1, DanFields DEF SignSave
  <2>3. copy' \in Copies
    BY <1>12, <2>1, CopyFields DEF SignSave
  <2>. QED
    BY <1>12, <2>2, <2>3 DEF SignSave, Copies
<1>13. CASE SignResult
  <2>1. strips' \in [StripJobs -> StripTask]
    BY <1>13, DeleteFormImagesType DEF SignResult
  <2>. QED
    BY <1>13, <2>1 DEF SignResult
<1>14. CASE BackOnDialog
  <2>1. dialog' = FALSE
    BY <1>14 DEF BackOnDialog
  <2>2. UNCHANGED <<screen, row, mem, copy, samples, disk, jobVars, server, ghosts>>
    BY <1>14 DEF BackOnDialog
  <2>3. TaskInv'
    BY <2>1, <2>2
  <2>4. TypeOK'
    BY <2>1, <2>2
  <2>. QED
    BY <2>3, <2>4
<1>15. CASE Close \/ ClearForm
  <2>1. Leave
    BY <1>15 DEF Close, ClearForm
  <2>2. /\ UNCHANGED <<dialog, mem, copy, samples, disk, typeSave, strips, server, counts>>
        /\ row' \in {row, NoRow}
    BY <1>15 DEF Close, ClearForm
  <2>3. taps' \in Nat
    BY <1>15 DEF Close, ClearForm
  <2>. HIDE DEF ImgCarries, UplCarries, Tap
  <2>4. /\ imgs' \in [ImgJobs -> ImgTask] /\ upls' \in [UplJobs -> UplTask]
        /\ \A k \in ImgJobs : ImgCarries(k)'
        /\ \A u \in UplJobs : UplCarries(u)'
        /\ screen' = "closed"
    BY <2>1, LeaveType
  <2>5. TaskInv'
    BY <2>2, <2>4
  <2>6. TypeOK'
    BY <2>2, <2>3, <2>4
  <2>. QED
    BY <2>5, <2>6
<1>16. CASE Open
  BY <1>16 DEF Open
<1>17. ASSUME NEW k \in ImgJobs, CreateImage(k) PROVE TypeInv'
  <2>1. mem' \in Dan /\ row' \in Dan \cup {NoRow}
    <3>1. CASE FilesEmpty(mem)
      BY <1>17, <3>1 DEF CreateImage
    <3>2. CASE ~FilesEmpty(mem)
      <4>1. Store([mem EXCEPT !.sigs = Intact(mem.sigs), !.images = {}])
        BY <1>17, <3>2 DEF CreateImage
      <4>2. [mem EXCEPT !.sigs = Intact(mem.sigs), !.images = {}] \in Dan
        BY DanFields, IntactType
      <4>. QED
        BY <4>1, <4>2, StoreType
    <3>. QED
      BY <3>1, <3>2
  <2>. DEFINE t == [IdleImg EXCEPT !.pc = "samples", !.here = TRUE]
  <2>2. t \in ImgTask /\ t.pc = "samples"
    BY IdleTypes DEF IdleImg, ImgTask
  <2>3. imgs' = [imgs EXCEPT ![k] = t]
    BY <1>17 DEF CreateImage
  <2>. HIDE DEF t
  <2>4. imgs' \in [ImgJobs -> ImgTask] /\ \A l \in ImgJobs : ImgCarries(l)'
    BY <2>2, <2>3
  <2>. QED
    BY <1>17, <2>1, <2>4 DEF CreateImage
<1>18. ASSUME NEW u \in UplJobs, UploadArchives(u) PROVE TypeInv'
  <2>. DEFINE t == [IdleUpl EXCEPT !.pc = "parts", !.here = TRUE,
                                   !.sigs = mem.sigs, !.images = mem.images]
  <2>1. t \in UplTask /\ ~t.clientDone
    BY IdleTypes, DanFields DEF IdleUpl, UplTask
  <2>2. upls' = [upls EXCEPT ![u] = t]
    BY <1>18 DEF UploadArchives
  <2>. HIDE DEF t
  <2>3. upls' \in [UplJobs -> UplTask] /\ \A v \in UplJobs : UplCarries(v)'
    BY <2>1, <2>2
  <2>. QED
    BY <1>18, <2>3 DEF UploadArchives
<1>19. ASSUME NEW t \in SigTypes, Paint(t) PROVE TypeInv'
  <2>1. paints + 1 \in Nat /\ copy \in Copies
    BY <1>19 DEF Paint
  <2>2. copy' \in Copies
    BY <1>19, <2>1, CopyFields DEF Paint
  <2>3. disk' = [sig |-> [disk.sig EXCEPT ![t] = paints + 1], img |-> disk.img]
    BY <1>19 DEF Paint
  <2>4. [disk.sig EXCEPT ![t] = paints + 1] \in Signatures
    BY <2>1
  <2>5. disk' \in [sig : Signatures, img : Files]
    BY <2>3, <2>4
  <2>. QED
    BY <1>19, <2>2, <2>5 DEF Paint, Copies
<1>. QED
  BY <1>1, <1>2, <1>3, <1>4, <1>5, <1>6, <1>7, <1>8, <1>9, <1>10, <1>11, <1>12, <1>13, <1>14, <1>15, <1>16, <1>17, <1>18, <1>19 DEF UiStep

\* The background tasks.  deleteFormImages:
LEMMA StripStepType ==
  ASSUME TypeInv, NEW j \in StripJobs, StripStep(j)
  PROVE  TypeInv'
<1>. USE DEF TypeInv, TypeOK, TaskInv, ImgCarries, UplCarries, uiVars, jobVars, ghosts, counts
<1>1. CASE StripRead(j)
  <2>1. [pc |-> "read", sigs |-> mem.sigs, images |-> mem.images] \in StripTask
    BY DanFields DEF StripTask
  <2>2. strips' \in [StripJobs -> StripTask]
    BY <1>1, <2>1, IdleTypes DEF StripRead
  <2>. QED
    BY <1>1, <2>2 DEF StripRead
<1>2. CASE StripCheck(j)
  <2>1. Intact(strips[j].sigs) \in Signatures
    BY IntactType DEF StripTask
  <2>2. \A pc \in {"delete", "save"} :
          [pc |-> pc, sigs |-> Intact(strips[j].sigs), images |-> {}] \in StripTask
    BY <2>1 DEF StripTask
  <2>3. strips' \in [StripJobs -> StripTask]
    BY <1>2, <2>2 DEF StripCheck
  <2>. QED
    BY <1>2, <2>3 DEF StripCheck
<1>3. CASE StripDelete(j)
  <2>1. [strips[j] EXCEPT !.pc = "save"] \in StripTask
    BY DEF StripTask
  <2>2. strips' \in [StripJobs -> StripTask]
    BY <1>3, <2>1 DEF StripDelete
  <2>3. disk' \in [sig : Signatures, img : Files]
    BY <1>3 DEF StripDelete, Files
  <2>4. TaskInv'
    BY <1>3 DEF StripDelete
  <2>5. TypeOK'
    BY <1>3, <2>2, <2>3 DEF StripDelete
  <2>. QED
    BY <2>4, <2>5
<1>4. CASE StripSave(j)
  <2>1. strips[j].sigs \in Signatures
    BY DEF StripTask
  <2>2. mem' \in Dan /\ row' \in Dan \cup {NoRow}
    BY <1>4, <2>1, DanFields, StoreType DEF StripSave
  <2>3. strips' \in [StripJobs -> StripTask]
    BY <1>4, IdleTypes DEF StripSave
  <2>. QED
    BY <1>4, <2>2, <2>3 DEF StripSave
<1>. QED
  BY <1>1, <1>2, <1>3, <1>4 DEF StripStep

\* A rendering goes on with a well-formed task.
LEMMA ImgTaskType ==
  ASSUME TypeInv, NEW k \in ImgJobs, NEW t \in ImgTask,
         imgs' = [imgs EXCEPT ![k] = t],
         t.pc \in {"signs", "check", "bind"} => t.val \in SampleVals,
         t.pc \in {"write", "fill"} => t.pic \in Content,
         mem' \in Dan, row' \in Dan \cup {NoRow}, dialog' \in BOOLEAN,
         disk' \in [sig : Signatures, img : Files],
         UNCHANGED <<screen, copy, samples, typeSave, strips, upls, server, ghosts>>
  PROVE  TypeInv'
<1>. USE DEF TypeInv, TypeOK, TaskInv, ImgCarries, UplCarries, ghosts, counts
<1>1. imgs' \in [ImgJobs -> ImgTask] /\ \A l \in ImgJobs : ImgCarries(l)'
  OBVIOUS
<1>2. TaskInv'
  BY <1>1
<1>3. TypeOK'
  BY <1>1
<1>. QED
  BY <1>2, <1>3

\* createImage:
LEMMA ImgStepType ==
  ASSUME TypeInv, NEW k \in ImgJobs, ImgStep(k)
  PROVE  TypeInv'
<1>. USE DEF uiVars, jobVars
<1>0. /\ imgs[k] \in ImgTask /\ ImgCarries(k) /\ mem \in Dan /\ row \in Dan \cup {NoRow}
      /\ dialog \in BOOLEAN /\ disk \in [sig : Signatures, img : Files]
      /\ samples \in SampleRows /\ (samples.ready => samples.val \in SampleVals)
  BY DEF TypeInv, TypeOK, TaskInv
<1>fail. ASSUME ImgFail(k), disk' \in [sig : Signatures, img : Files],
                UNCHANGED <<screen, copy, samples, typeSave, strips, upls, server, ghosts>>
         PROVE  TypeInv'
  <2>1. IdleImg.pc = "idle" /\ dialog' \in BOOLEAN /\ mem' \in Dan /\ row' \in Dan \cup {NoRow}
    BY <1>0, <1>fail DEF IdleImg, ImgFail, DismissProgressDialog
  <2>2. imgs' = [imgs EXCEPT ![k] = IdleImg]
    BY <1>fail DEF ImgFail
  <2>. QED
    BY <1>fail, <2>1, <2>2, IdleTypes, ImgTaskType
<1>1. CASE ImgSamples(k) /\ ~ImgFail(k)
  <2>. DEFINE t == [imgs[k] EXCEPT !.pc = "signs", !.val = samples.val]
  <2>1. t \in ImgTask /\ t.pc = "signs" /\ t.val \in SampleVals
    BY <1>0, <1>1 DEF ImgTask, SampleRows, ImgSamples
  <2>2. /\ imgs' = [imgs EXCEPT ![k] = t] /\ UNCHANGED <<dialog, row, mem>>
        /\ UNCHANGED <<screen, copy, samples, disk, typeSave, strips, upls, server, ghosts>>
    BY <1>1 DEF ImgSamples
  <2>. HIDE DEF t
  <2>. QED
    BY <1>0, <2>1, <2>2, ImgTaskType
<1>2. CASE ImgSigns(k) /\ ~ImgFail(k)
  <2>. DEFINE t == [imgs[k] EXCEPT !.pc = "check", !.sigs = mem.sigs, !.images = mem.images]
  <2>1. t \in ImgTask /\ t.pc = "check" /\ t.val \in SampleVals
    BY <1>0, <1>2, DanFields DEF ImgTask, ImgSigns, ImgCarries
  <2>2. /\ imgs' = [imgs EXCEPT ![k] = t] /\ UNCHANGED <<dialog, row, mem>>
        /\ UNCHANGED <<screen, copy, samples, disk, typeSave, strips, upls, server, ghosts>>
    BY <1>2 DEF ImgSigns
  <2>. HIDE DEF t
  <2>. QED
    BY <1>0, <2>1, <2>2, ImgTaskType
<1>3. CASE ImgCheck(k) /\ ~ImgFail(k)
  <2>. DEFINE t == [imgs[k] EXCEPT !.pc = "bind"]
              d == [mem EXCEPT !.sigs = imgs[k].sigs, !.images = imgs[k].images]
  <2>1. t \in ImgTask /\ t.pc = "bind" /\ t.val \in SampleVals
    BY <1>0, <1>3 DEF ImgTask, ImgCheck, ImgCarries
  <2>2. d \in Dan
    BY <1>0, DanFields DEF ImgTask
  <2>3. /\ imgs' = [imgs EXCEPT ![k] = t] /\ UNCHANGED <<dialog, row>> /\ mem' = d
        /\ UNCHANGED <<screen, copy, samples, disk, typeSave, strips, upls, server, ghosts>>
    BY <1>3 DEF ImgCheck
  <2>. HIDE DEF t, d
  <2>. QED
    BY <1>0, <2>1, <2>2, <2>3, ImgTaskType
<1>4. CASE ImgBind(k) /\ ~ImgFail(k)
  <2>. DEFINE p == [samples |-> imgs[k].val, client |-> mem.client,
                    stype |-> mem.stype, sigs |-> imgs[k].sigs]
              t == [imgs[k] EXCEPT !.pc = "write", !.pic = p]
  <2>1. p \in Content
    BY <1>0, <1>4, DanFields DEF ImgBind, Content, ImgCarries, ImgTask
  <2>2. /\ imgs' = [imgs EXCEPT ![k] = t] /\ UNCHANGED <<dialog, row, mem>>
        /\ UNCHANGED <<screen, copy, samples, disk, typeSave, strips, upls, server, ghosts>>
    BY <1>4 DEF ImgBind
  <2>. HIDE DEF p
  <2>3. t \in ImgTask /\ t.pc = "write" /\ t.pic \in Content
    BY <1>0, <2>1 DEF ImgTask
  <2>. HIDE DEF t
  <2>. QED
    BY <1>0, <2>2, <2>3, ImgTaskType
<1>5. CASE ImgWrite(k)
  <2>1. disk' \in [sig : Signatures, img : Files]
    BY <1>0, <1>5 DEF ImgWrite, Files
  <2>2. UNCHANGED <<screen, copy, samples, typeSave, strips, upls, server, ghosts>>
    BY <1>5 DEF ImgWrite
  <2>3. CASE ImgFail(k)
    BY <1>fail, <2>1, <2>2, <2>3
  <2>4. CASE ~ImgFail(k)
    <3>. DEFINE t == [imgs[k] EXCEPT !.pc = "fill"]
    <3>1. t \in ImgTask /\ t.pc = "fill" /\ t.pic \in Content
      BY <1>0, <1>5 DEF ImgTask, ImgWrite, ImgCarries
    <3>2. imgs' = [imgs EXCEPT ![k] = t] /\ UNCHANGED <<dialog, row, mem>>
      BY <1>5, <2>4 DEF ImgWrite
    <3>. HIDE DEF t
    <3>. QED
      BY <1>0, <2>1, <2>2, <3>1, <3>2, ImgTaskType
  <2>. QED
    BY <2>3, <2>4
<1>6. CASE ImgFill(k)
  <2>1. imgs[k].pic \in Content
    BY <1>0, <1>6 DEF ImgFill, ImgCarries
  <2>2. disk' \in [sig : Signatures, img : Files]
    BY <1>0, <1>6, <2>1 DEF ImgFill, Files
  <2>. DEFINE t == [imgs[k] EXCEPT !.pc = "done"]
  <2>3. t \in ImgTask /\ t.pc = "done"
    BY <1>0 DEF ImgTask
  <2>4. /\ imgs' = [imgs EXCEPT ![k] = t] /\ UNCHANGED <<dialog, row, mem>>
        /\ UNCHANGED <<screen, copy, samples, typeSave, strips, upls, server, ghosts>>
    BY <1>6 DEF ImgFill
  <2>. HIDE DEF t
  <2>. QED
    BY <1>0, <2>2, <2>3, <2>4, ImgTaskType
<1>7. CASE ImgDone(k)
  <2>. DEFINE ps == mem.images \cup {IF disk.img = NoImage THEN NoDigest ELSE disk.img}
              d == [mem EXCEPT !.images = ps, !.status = "open"]
  <2>1. ps \in SUBSET Pictures
    BY <1>0, DanFields DEF Files, Pictures
  <2>2. Store(d)
    BY <1>7 DEF ImgDone
  <2>. HIDE DEF ps
  <2>3. d \in Dan
    BY <1>0, <2>1, DanFields
  <2>. HIDE DEF d
  <2>4. mem' \in Dan /\ row' \in Dan \cup {NoRow}
    BY <1>0, <2>2, <2>3, StoreType
  <2>5. /\ imgs' = [imgs EXCEPT ![k] = IdleImg] /\ dialog' \in BOOLEAN
        /\ UNCHANGED <<screen, copy, samples, disk, typeSave, strips, upls, server, ghosts>>
    BY <1>0, <1>7 DEF ImgDone, DismissProgressDialog
  <2>6. IdleImg.pc = "idle"
    BY DEF IdleImg
  <2>. QED
    BY <1>0, <2>4, <2>5, <2>6, IdleTypes, ImgTaskType
<1>8. CASE ImgFail(k) /\ (ImgSamples(k) \/ ImgSigns(k) \/ ImgCheck(k) \/ ImgBind(k))
  <2>1. UNCHANGED <<screen, copy, samples, disk, typeSave, strips, upls, server, ghosts>>
    BY <1>8 DEF ImgSamples, ImgSigns, ImgCheck, ImgBind
  <2>. QED
    BY <1>0, <1>8, <1>fail, <2>1
<1>. QED
  BY <1>1, <1>2, <1>3, <1>4, <1>5, <1>6, <1>7, <1>8 DEF ImgStep

\* The answers nobody read are a number, and one more for every upload that waits for
\* its own when the process dies.
LEMMA LostCount ==
  ASSUME TypeOK, Die
  PROVE  /\ lost' \in Nat /\ lost' >= lost
         /\ \A u \in UplJobs : InFlight(u) => lost' >= lost + 1
<1>. DEFINE S == {u \in UplJobs : InFlight(u)}
<1>1. IsFiniteSet(S)
  BY ConstantsAssumption, FS_Subset
<1>2. Cardinality(S) \in Nat /\ (Cardinality(S) = 0 <=> S = {})
  BY <1>1, FS_CardinalityType, FS_EmptySet
<1>3. lost' = lost + Cardinality(S) /\ lost \in Nat
  BY DEF Die, TypeOK
<1>4. \A u \in UplJobs : InFlight(u) => Cardinality(S) # 0
  BY <1>2
<1>. HIDE DEF S
<1>. QED
  BY <1>2, <1>3, <1>4

\* A process death leaves a well-formed state behind.
LEMMA DieType ==
  ASSUME TypeInv, Die
  PROVE  TypeInv'
<1>. USE DEF TypeInv, TypeOK, TaskInv, ImgCarries, UplCarries, uiVars, jobVars, ghosts, counts
<1>1. lost' \in Nat
  BY LostCount
<1>2. crashes' \in Nat
  BY DEF Die
<1>3. strips' \in [StripJobs -> StripTask] /\ mem' \in Dan
  BY IdleTypes, BlankType DEF Die
<1>4. /\ imgs' \in [ImgJobs -> ImgTask] /\ upls' \in [UplJobs -> UplTask]
      /\ \A k \in ImgJobs : ImgCarries(k)'
      /\ \A u \in UplJobs : UplCarries(u)'
  BY IdleTypes DEF Die, IdleImg, IdleUpl
<1>. QED
  BY <1>1, <1>2, <1>3, <1>4 DEF Die

\* The queued save of the sampling stage:
LEMMA TypeSaveType ==
  ASSUME TypeInv, TypeSave
  PROVE  TypeInv'
<1>. USE DEF TypeInv, TypeOK, TaskInv, ImgCarries, UplCarries, uiVars, jobVars, ghosts, counts
<1>1. mem' \in Dan /\ row' \in Dan \cup {NoRow}
  BY StoreType DEF TypeSave
<1>2. TaskInv'
  BY DEF TypeSave
<1>3. TypeOK'
  BY <1>1 DEF TypeSave
<1>. QED
  BY <1>2, <1>3

\* An upload goes on with a well-formed task.
LEMMA UplTaskType ==
  ASSUME TypeInv, NEW u \in UplJobs, NEW t \in UplTask,
         upls' = [upls EXCEPT ![u] = t], t.clientDone => t.val \in SampleVals,
         mem' \in Dan, row' \in Dan \cup {NoRow}, dialog' \in BOOLEAN, lost' \in Nat,
         server' \in [images : Seq(Content \cup {CutOff}), forms : Seq(Form)],
         UNCHANGED <<screen, copy, samples, disk, typeSave, strips, imgs, taps, paints, crashes>>
  PROVE  TypeInv'
<1>. USE DEF TypeInv, TypeOK, TaskInv, ImgCarries, UplCarries
<1>1. upls' \in [UplJobs -> UplTask] /\ \A v \in UplJobs : UplCarries(v)'
  OBVIOUS
<1>2. TaskInv'
  BY <1>1
<1>3. TypeOK'
  BY <1>1
<1>. QED
  BY <1>2, <1>3

\* Fields of an upload.
LEMMA UplFields ==
  ASSUME NEW t \in UplTask, NEW n \in Nat
  PROVE  /\ [t EXCEPT !.files = "id", !.imageId = n] \in UplTask
         /\ [t EXCEPT !.files = "id", !.imageId = n].clientDone = t.clientDone
         /\ [t EXCEPT !.files = "id", !.imageId = n].val = t.val
         /\ [t EXCEPT !.pc = "posted", !.remote = n] \in UplTask
         /\ [t EXCEPT !.pc = "posted", !.remote = n].clientDone = t.clientDone
         /\ [t EXCEPT !.pc = "posted", !.remote = n].val = t.val
<1>. USE DEF UplTask
<1>1. /\ [t EXCEPT !.files = "id", !.imageId = n] \in UplTask
      /\ [t EXCEPT !.pc = "posted", !.remote = n] \in UplTask
  OBVIOUS
<1>2. /\ [t EXCEPT !.files = "id", !.imageId = n].clientDone = t.clientDone
      /\ [t EXCEPT !.files = "id", !.imageId = n].val = t.val
      /\ [t EXCEPT !.pc = "posted", !.remote = n].clientDone = t.clientDone
      /\ [t EXCEPT !.pc = "posted", !.remote = n].val = t.val
  OBVIOUS
<1>. QED
  BY <1>1, <1>2

\* uploadXxx:
LEMMA UplStepType ==
  ASSUME TypeInv, NEW u \in UplJobs,
         UplClientStep(u) \/ UplFilesStep(u) \/ UplFormStep(u)
  PROVE  TypeInv'
<1>. USE DEF uiVars, jobVars, ghosts, counts
<1>0. /\ upls[u] \in UplTask /\ UplCarries(u) /\ mem \in Dan /\ row \in Dan \cup {NoRow}
      /\ dialog \in BOOLEAN /\ disk \in [sig : Signatures, img : Files] /\ lost \in Nat
      /\ samples \in SampleRows
      /\ server \in [images : Seq(Content \cup {CutOff}), forms : Seq(Form)]
  BY DEF TypeInv, TypeOK, TaskInv
<1>00. /\ server.images \in Seq(Content \cup {CutOff}) /\ server.forms \in Seq(Form)
       /\ Len(server.images) \in Nat /\ Len(server.forms) \in Nat
  BY <1>0
<1>fail. ASSUME UplFail(u), lost' \in Nat,
                server' \in [images : Seq(Content \cup {CutOff}), forms : Seq(Form)],
                UNCHANGED <<screen, copy, samples, disk, typeSave, strips, imgs, taps, paints, crashes>>
         PROVE  TypeInv'
  <2>1. ~IdleUpl.clientDone /\ dialog' \in BOOLEAN /\ mem' \in Dan /\ row' \in Dan \cup {NoRow}
    BY <1>0, <1>fail DEF IdleUpl, UplFail, DismissProgressDialog
  <2>2. upls' = [upls EXCEPT ![u] = IdleUpl]
    BY <1>fail DEF UplFail
  <2>. QED
    BY <1>fail, <2>1, <2>2, IdleTypes, UplTaskType
<1>1. CASE UplClient(u) /\ ~UplFail(u)
  <2>. DEFINE t == [upls[u] EXCEPT !.clientDone = TRUE, !.val = samples.val]
  <2>1. t \in UplTask /\ t.val \in SampleVals
    BY <1>0, <1>1 DEF UplTask, SampleRows, UplClient
  <2>2. /\ upls' = [upls EXCEPT ![u] = t] /\ UNCHANGED <<dialog, row, mem, lost, server>>
        /\ UNCHANGED <<screen, copy, samples, disk, typeSave, strips, imgs, taps, paints, crashes>>
    BY <1>1 DEF UplClient
  <2>. HIDE DEF t
  <2>. QED
    BY <1>0, <2>1, <2>2, UplTaskType
<1>2. CASE UplCheck(u) /\ ~UplFail(u)
  <2>. DEFINE t == [upls[u] EXCEPT !.files = IF mem.imageId = 0 THEN "send" ELSE "id",
                                   !.imageId = mem.imageId]
  <2>1. t \in UplTask /\ t.clientDone = upls[u].clientDone /\ t.val = upls[u].val
    BY <1>0, DanFields DEF UplTask
  <2>2. /\ upls' = [upls EXCEPT ![u] = t] /\ UNCHANGED <<dialog, row, mem, lost, server>>
        /\ UNCHANGED <<screen, copy, samples, disk, typeSave, strips, imgs, taps, paints, crashes>>
    BY <1>2 DEF UplCheck
  <2>. HIDE DEF t
  <2>. QED
    BY <1>0, <2>1, <2>2, UplTaskType DEF UplCarries
<1>3. CASE UplSend(u)
  <2>1. server' \in [images : Seq(Content \cup {CutOff}), forms : Seq(Form)]
    <3>1. CASE server' = server
      BY <1>0, <3>1
    <3>2. CASE server' # server
      <4>1. PICK f \in FileToSend : server' = [server EXCEPT !.images = Append(@, f)]
        BY <1>3, <3>2 DEF UplSend
      <4>2. f \in Content \cup {CutOff}
        BY <1>0 DEF FileToSend, Files
      <4>3. Append(server.images, f) \in Seq(Content \cup {CutOff})
        BY <1>00, <4>2
      <4>. QED
        BY <1>0, <4>1, <4>3
    <3>. QED
      BY <3>1, <3>2
  <2>2. /\ lost' \in Nat /\ lost' = lost
        /\ UNCHANGED <<screen, copy, samples, disk, typeSave, strips, imgs, taps, paints, crashes>>
    BY <1>0, <1>3 DEF UplSend
  <2>3. CASE UplFail(u)
    BY <1>fail, <2>1, <2>2, <2>3
  <2>4. CASE ~UplFail(u)
    <3>. DEFINE t == [upls[u] EXCEPT !.files = "id", !.imageId = Len(server.images) + 1]
    <3>0. Len(server.images) + 1 \in Nat /\ Len(server.forms) + 1 \in Nat
      BY <1>00
    <3>1. t \in UplTask /\ t.clientDone = upls[u].clientDone /\ t.val = upls[u].val
      BY <1>0, <3>0, UplFields
    <3>2. upls' = [upls EXCEPT ![u] = t] /\ UNCHANGED <<dialog, row, mem>>
      BY <1>3, <2>4 DEF UplSend
    <3>. HIDE DEF t
    <3>. QED
      BY <1>0, <2>1, <2>2, <3>1, <3>2, UplTaskType DEF UplCarries
  <2>. QED
    BY <2>3, <2>4
<1>4. CASE UplImageId(u)
  <2>. DEFINE t == [upls[u] EXCEPT !.files = "done"]
              d == [mem EXCEPT !.imageId = upls[u].imageId]
  <2>1. t \in UplTask /\ t.clientDone = upls[u].clientDone /\ t.val = upls[u].val
    BY <1>0 DEF UplTask
  <2>2. d \in Dan
    BY <1>0, DanFields DEF UplTask
  <2>3. /\ upls' = [upls EXCEPT ![u] = t] /\ Store(d) /\ UNCHANGED <<dialog, lost, server>>
        /\ UNCHANGED <<screen, copy, samples, disk, typeSave, strips, imgs, taps, paints, crashes>>
    BY <1>4 DEF UplImageId
  <2>. HIDE DEF t, d
  <2>4. mem' \in Dan /\ row' \in Dan \cup {NoRow}
    BY <1>0, <2>2, <2>3, StoreType
  <2>. QED
    BY <1>0, <2>1, <2>3, <2>4, UplTaskType DEF UplCarries
<1>5. CASE UplPost(u)
  <2>1. server' \in [images : Seq(Content \cup {CutOff}), forms : Seq(Form)]
    <3>1. CASE server' = server
      BY <1>0, <3>1
    <3>2. CASE server' # server
      <4>. DEFINE f == [samples |-> upls[u].val, client |-> mem.client,
                        stype |-> mem.stype, imageId |-> mem.imageId]
      <4>1. server' = [server EXCEPT !.forms = Append(@, f)]
        BY <1>5, <3>2 DEF UplPost
      <4>2. f \in Form
        BY <1>0, <1>5, DanFields DEF UplPost, UplReady, UplCarries, Form
      <4>. HIDE DEF f
      <4>3. Append(server.forms, f) \in Seq(Form)
        BY <1>00, <4>2
      <4>. QED
        BY <1>0, <4>1, <4>3
    <3>. QED
      BY <3>1, <3>2
  <2>2. /\ lost' \in Nat /\ lost' = lost
        /\ UNCHANGED <<screen, copy, samples, disk, typeSave, strips, imgs, taps, paints, crashes>>
    BY <1>0, <1>5 DEF UplPost
  <2>3. CASE UplFail(u)
    BY <1>fail, <2>1, <2>2, <2>3
  <2>4. CASE ~UplFail(u)
    <3>. DEFINE t == [upls[u] EXCEPT !.pc = "posted", !.remote = Len(server.forms) + 1]
    <3>0. Len(server.images) + 1 \in Nat /\ Len(server.forms) + 1 \in Nat
      BY <1>00
    <3>1. t \in UplTask /\ t.clientDone = upls[u].clientDone /\ t.val = upls[u].val
      BY <1>0, <3>0, UplFields
    <3>2. upls' = [upls EXCEPT ![u] = t] /\ UNCHANGED <<dialog, row, mem>>
      BY <1>5, <2>4 DEF UplPost
    <3>. HIDE DEF t
    <3>. QED
      BY <1>0, <2>1, <2>2, <3>1, <3>2, UplTaskType DEF UplCarries
  <2>. QED
    BY <2>3, <2>4
<1>6. CASE UplStatus(u) \/ UplRemote(u) \/ UplSave(u)
  <2>1. PICK pc \in {"status", "remote", "saved"} : upls' = [upls EXCEPT ![u].pc = pc]
    BY <1>6 DEF UplStatus, UplRemote, UplSave
  <2>. DEFINE t == [upls[u] EXCEPT !.pc = pc]
  <2>2. t \in UplTask /\ t.clientDone = upls[u].clientDone /\ t.val = upls[u].val
    BY <1>0 DEF UplTask
  <2>3. upls' = [upls EXCEPT ![u] = t]
    BY <2>1
  <2>4. mem' \in Dan /\ row' \in Dan \cup {NoRow}
    <3>1. CASE UplStatus(u)
      BY <1>0, <3>1, DanFields DEF UplStatus
    <3>2. CASE UplRemote(u)
      <4>1. upls[u].remote \in Nat
        BY <1>0 DEF UplTask
      <4>. QED
        BY <1>0, <3>2, <4>1, DanFields DEF UplRemote
    <3>3. CASE UplSave(u)
      BY <1>0, <3>3, StoreType DEF UplSave
    <3>. QED
      BY <1>6, <3>1, <3>2, <3>3
  <2>5. /\ UNCHANGED <<dialog, lost, server>>
        /\ UNCHANGED <<screen, copy, samples, disk, typeSave, strips, imgs, taps, paints, crashes>>
    BY <1>6 DEF UplStatus, UplRemote, UplSave
  <2>. HIDE DEF t
  <2>. QED
    BY <1>0, <2>2, <2>3, <2>4, <2>5, UplTaskType DEF UplCarries
<1>7. CASE UplDone(u)
  <2>1. /\ mem' \in Dan /\ dialog' \in BOOLEAN /\ ~IdleUpl.clientDone
    BY <1>0, <1>7, DanFields DEF UplDone, DismissProgressDialog, IdleUpl
  <2>2. /\ upls' = [upls EXCEPT ![u] = IdleUpl] /\ UNCHANGED <<row, lost, server>>
        /\ UNCHANGED <<screen, copy, samples, disk, typeSave, strips, imgs, taps, paints, crashes>>
    BY <1>7 DEF UplDone
  <2>. QED
    BY <1>0, <2>1, <2>2, IdleTypes, UplTaskType
<1>8. CASE UplLost(u) \/ (UplFail(u) /\ (UplClient(u) \/ UplCheck(u)))
  <2>1. /\ UplFail(u) /\ lost' \in Nat /\ server' = server
        /\ UNCHANGED <<screen, copy, samples, disk, typeSave, strips, imgs, taps, paints, crashes>>
    BY <1>0, <1>8 DEF UplLost, UplClient, UplCheck
  <2>. QED
    BY <1>0, <1>fail, <2>1
<1>9. CASE UplClientStep(u)
  BY <1>1, <1>8, <1>9 DEF UplClientStep
<1>10. CASE UplFilesStep(u)
  BY <1>2, <1>3, <1>4, <1>8, <1>10 DEF UplFilesStep
<1>11. CASE UplFormStep(u)
  BY <1>5, <1>6, <1>7, <1>8, <1>11 DEF UplFormStep
<1>. QED
  BY <1>9, <1>10, <1>11

\* The initial state has the right types.
LEMMA InitType ==
  ASSUME Init
  PROVE  TypeInv
<1>. USE DEF Init, TypeInv, TypeOK, TaskInv, ImgCarries, UplCarries
<1>1. /\ mem \in Dan /\ strips \in [StripJobs -> StripTask]
      /\ imgs \in [ImgJobs -> ImgTask] /\ upls \in [UplJobs -> UplTask]
  BY BlankType, IdleTypes
<1>2. disk \in [sig : Signatures, img : Files] /\ samples \in SampleRows
  BY NoSigsType DEF Files, SampleRows
<1>3. server \in [images : Seq(Content \cup {CutOff}), forms : Seq(Form)]
  OBVIOUS
<1>4. TaskInv
  BY DEF IdleImg, IdleUpl
<1>. QED
  BY <1>1, <1>2, <1>3, <1>4

\* Every step keeps the types.
LEMMA StepType ==
  ASSUME TypeInv, [Next]_vars
  PROVE  TypeInv'
<1>1. CASE UNCHANGED vars
  BY <1>1 DEF vars, TypeInv, TypeOK, TaskInv, ImgCarries, UplCarries
<1>2. CASE Next
  <2>1. Killed \/ ArchiveThrows => Die
    BY DEF Killed, ArchiveThrows
  <2>. QED
    BY <1>2, <2>1, UiStepType, StripStepType, ImgStepType, UplStepType, DieType, TypeSaveType
       DEF Next
<1>. QED
  BY <1>1, <1>2

\* Type correctness: the row, the copies in memory, the tasks and the server keep their
\* shape through every interleaving.
THEOREM TypeCorrect == Spec => []TypeOK
<1>1. Init => TypeInv
  BY InitType
<1>2. TypeInv /\ [Next]_vars => TypeInv'
  BY StepType
<1>3. TypeInv => TypeOK
  BY DEF TypeInv
<1>. QED
  BY <1>1, <1>2, <1>3, PTL DEF Spec

-----------------------------------------------------------------------------
(* Archived forms are on the server.                                        *)

Named(m, n) == m.remoteId \in 0..n /\ (m.status = "archived" => n > 0)

\* An upload that got its answer, and each half of recording it, knows a form the server
\* holds; one that starts over a second time finds the mark of the first.
Recorded(t, n) ==
    /\ t.pc \in {"posted", "status", "remote"} => t.remote \in 1..n
    /\ t.pc = "saved" => n > 0

ServerInv ==
    LET n == Len(server.forms) IN
    /\ Named(mem, n)
    /\ row # NoRow => Named(row, n)
    /\ copy # NoCopy => Named(copy.dan, n)
    /\ \A u \in UplJobs : Recorded(upls[u], n)

\* save() keeps what holds of the object it is given.
LEMMA StoreNamed ==
  ASSUME NEW n \in Nat, NEW m \in Dan, Named(m, n), Store(m)
  PROVE  Named(mem', n) /\ (row' # NoRow => Named(row', n))
  BY DEF Store, Dan, Named

\* Only an answered upload archives a form; every other write keeps status and remote id,
\* or makes the form open again.
LEMMA DanNamed ==
  ASSUME NEW n \in Nat, NEW m \in Dan, Named(m, n)
  PROVE  /\ \A c \in Clients : Named([m EXCEPT !.client = c], n)
         /\ \A t \in SampleTypes : Named([m EXCEPT !.stype = t], n)
         /\ \A k \in Nat : Named([m EXCEPT !.imageId = k], n)
         /\ \A ps \in SUBSET Pictures : Named([m EXCEPT !.images = ps, !.status = "open"], n)
         /\ \A s \in Signatures, ps \in SUBSET Pictures :
              Named([m EXCEPT !.sigs = s, !.images = ps], n)
         /\ Named([m EXCEPT !.id = TRUE], n)
         /\ n > 0 => Named([m EXCEPT !.status = "archived"], n)
         /\ \A k \in 1..n : Named([m EXCEPT !.remoteId = k], n)
  BY DEF Named, Dan

\* Nothing is archived at the start.
LEMMA InitServer ==
  ASSUME Init
  PROVE  ServerInv
<1>1. Len(server.forms) = 0 /\ mem = Blank /\ row = NoRow /\ copy = NoCopy
      /\ upls = [u \in UplJobs |-> IdleUpl]
  BY DEF Init
<1>. QED
  BY <1>1 DEF ServerInv, Named, Recorded, Blank, IdleUpl

\* How one upload goes on does not disturb what another remembers.
LEMMA TaskServer ==
  ASSUME NEW n \in Nat, NEW k \in Nat, n <= k, NEW u \in UplJobs, NEW t,
         upls \in [UplJobs -> UplTask], \A v \in UplJobs : Recorded(upls[v], n),
         upls' = [upls EXCEPT ![u] = t], Recorded(t, k)
  PROVE  \A v \in UplJobs : Recorded(upls'[v], k)
<1>1. ASSUME NEW v \in UplJobs PROVE Recorded(upls'[v], k)
  <2>1. CASE v = u
    BY <2>1
  <2>2. CASE v # u
    BY <2>2 DEF Recorded
  <2>. QED
    BY <2>1, <2>2
<1>. QED
  BY <1>1

\* No step of the user marks a form archived.
LEMMA UiServer ==
  ASSUME TypeInv, ServerInv, UiStep
  PROVE  ServerInv'
<1>. DEFINE n == Len(server.forms)
<1>0. /\ n \in Nat /\ Named(mem, n) /\ (row # NoRow => Named(row, n))
      /\ (copy # NoCopy => Named(copy.dan, n))
      /\ (\A u \in UplJobs : Recorded(upls[u], n))
      /\ mem \in Dan /\ row \in Dan \cup {NoRow} /\ (copy # NoCopy => copy \in Copies)
      /\ upls \in [UplJobs -> UplTask]
  BY DEF TypeInv, TypeOK, ServerInv
<1>goal. ASSUME server' = server, Named(mem', n), row' # NoRow => Named(row', n),
                copy' # NoCopy => Named(copy'.dan, n),
                \A u \in UplJobs : Recorded(upls'[u], n)
         PROVE  ServerInv'
  BY <1>goal DEF ServerInv
<1>. HIDE DEF n
<1>. USE DEF uiVars, jobVars, ghosts
<1>1. CASE UNCHANGED <<mem, row, copy, upls, server>>
  BY <1>0, <1>1, <1>goal
<1>2. CASE SampleTypeResult
  <2>1. PICK t \in SampleTypes : mem' = [mem EXCEPT !.stype = t]
    BY <1>2 DEF SampleTypeResult
  <2>2. Named(mem', n)
    BY <1>0, <2>1, DanNamed
  <2>. QED
    BY <1>0, <1>2, <2>2, <1>goal DEF SampleTypeResult
<1>3. CASE CompanyResult
  BY <1>0, <1>3, <1>goal, DanNamed, DanFields, StoreNamed DEF CompanyResult
<1>4. CASE Cancel \/ SignResult \/ Open
  BY <1>0, <1>4, <1>goal DEF Cancel, SignResult, Open
<1>5. CASE ShowSignature
  BY <1>0, <1>5, <1>goal DEF ShowSignature
<1>6. ASSUME NEW t \in SigTypes, Paint(t) PROVE ServerInv'
  <2>1. copy \in Copies /\ copy'.dan = copy.dan
    BY <1>6 DEF Paint, TypeInv, TaskInv, Copies
  <2>2. Named(copy'.dan, n)
    BY <1>0, <2>1, NoValuesAssumption
  <2>. QED
    BY <1>0, <1>6, <2>2, <1>goal DEF Paint
<1>7. CASE SignSave
  <2>. DEFINE d == [copy.dan EXCEPT !.sigs = copy.ids, !.images = {}]
  <2>1. copy \in Copies /\ copy.dan \in Dan /\ copy.ids \in Signatures /\ Named(copy.dan, n)
    BY <1>0, <1>7, CopyFields, NoValuesAssumption DEF SignSave, TypeInv, TaskInv
  <2>2. d \in Dan /\ Named(d, n)
    BY <1>0, <2>1, DanNamed, DanFields
  <2>3. Named([d EXCEPT !.id = TRUE], n)
    BY <1>0, <2>2, DanNamed
  <2>4. copy'.dan = d
    BY <1>7, <2>1 DEF SignSave, Copies
  <2>. QED
    BY <1>0, <1>7, <2>2, <2>3, <2>4, <1>goal DEF SignSave
<1>8. ASSUME NEW k \in ImgJobs, CreateImage(k) PROVE ServerInv'
  <2>1. Named(mem', n) /\ (row' # NoRow => Named(row', n))
    <3>1. CASE FilesEmpty(mem)
      BY <1>0, <1>8, <3>1 DEF CreateImage
    <3>2. CASE ~FilesEmpty(mem)
      <4>. DEFINE d == [mem EXCEPT !.sigs = Intact(mem.sigs), !.images = {}]
      <4>1. Intact(mem.sigs) \in Signatures
        BY <1>0, DanFields, IntactType
      <4>2. d \in Dan /\ Named(d, n)
        BY <1>0, <4>1, DanNamed, DanFields
      <4>3. Store(d)
        BY <1>8, <3>2 DEF CreateImage
      <4>. QED
        BY <1>0, <4>2, <4>3, StoreNamed
    <3>. QED
      BY <3>1, <3>2
  <2>. QED
    BY <1>0, <1>8, <2>1, <1>goal DEF CreateImage
<1>9. ASSUME NEW u \in UplJobs, UploadArchives(u) PROVE ServerInv'
  <2>. DEFINE t == [IdleUpl EXCEPT !.pc = "parts", !.here = TRUE,
                                   !.sigs = mem.sigs, !.images = mem.images]
  <2>1. Recorded(t, n)
    BY DEF Recorded, IdleUpl
  <2>2. upls' = [upls EXCEPT ![u] = t] /\ UNCHANGED <<mem, row, copy, server>>
    BY <1>9 DEF UploadArchives
  <2>. HIDE DEF t
  <2>3. \A v \in UplJobs : Recorded(upls'[v], n)
    BY <1>0, <2>1, <2>2, TaskServer
  <2>. QED
    BY <1>0, <2>2, <2>3, <1>goal
<1>10. CASE Close \/ ClearForm
  <2>1. /\ row' \in {row, NoRow} /\ UNCHANGED <<mem, copy, server>> /\ Leave
    BY <1>10 DEF Close, ClearForm
  <2>2. ASSUME NEW u \in UplJobs PROVE Recorded(upls'[u], n)
    <3>1. upls'[u].pc = upls[u].pc /\ upls'[u].remote = upls[u].remote
      BY <1>0, <2>1 DEF Leave, UplTask
    <3>. QED
      BY <1>0, <3>1 DEF Recorded
  <2>. QED
    BY <1>0, <2>1, <2>2, <1>goal
<1>. QED
  BY <1>1, <1>2, <1>3, <1>4, <1>5, <1>6, <1>7, <1>8, <1>9, <1>10
     DEF UiStep, ShowAddSampleType, ShowCompany, ShowSampling, SampleSave, SampleResult,
         LongClickSample, DeleteSample, BackOnDialog

\* An upload archives the form only after the server has it.
LEMMA UplServer ==
  ASSUME TypeInv, ServerInv, NEW u \in UplJobs,
         UplClientStep(u) \/ UplFilesStep(u) \/ UplFormStep(u)
  PROVE  ServerInv'
<1>. DEFINE n == Len(server.forms)
            k == Len(server.forms')
<1>0. /\ n \in Nat /\ Named(mem, n) /\ (row # NoRow => Named(row, n))
      /\ (copy # NoCopy => Named(copy.dan, n))
      /\ (\A v \in UplJobs : Recorded(upls[v], n)) /\ Recorded(upls[u], n)
      /\ mem \in Dan /\ row \in Dan \cup {NoRow}
      /\ upls \in [UplJobs -> UplTask] /\ upls[u] \in UplTask
      /\ server.forms \in Seq(Form) /\ server \in [images : Seq(Content \cup {CutOff}), forms : Seq(Form)]
  BY DEF TypeInv, TypeOK, ServerInv
<1>goal. ASSUME NEW t, upls' = [upls EXCEPT ![u] = t], Recorded(t, n),
                server'.forms = server.forms, copy' = copy,
                Named(mem', n), row' # NoRow => Named(row', n)
         PROVE  ServerInv'
  <2>1. \A v \in UplJobs : Recorded(upls'[v], n)
    BY <1>0, <1>goal, TaskServer
  <2>. QED
    BY <1>0, <1>goal, <2>1 DEF ServerInv
<1>. HIDE DEF n, k
<1>. USE DEF uiVars, jobVars, ghosts
<1>fail. ASSUME UplFail(u), server'.forms = server.forms, copy' = copy PROVE ServerInv'
  <2>1. Recorded(IdleUpl, n)
    BY DEF IdleUpl, Recorded
  <2>. QED
    BY <1>0, <1>fail, <2>1, <1>goal DEF UplFail
<1>1. CASE UplClient(u) \/ UplCheck(u) \/ UplSend(u)
  <2>1. server'.forms = server.forms /\ copy' = copy
    BY <1>0, <1>1 DEF UplClient, UplCheck, UplSend
  <2>2. CASE UplFail(u)
    BY <2>1, <2>2, <1>fail
  <2>3. CASE ~UplFail(u)
    <3>1. PICK t : upls' = [upls EXCEPT ![u] = t] /\ t.pc = "parts"
      <4>1. upls[u].pc = "parts"
        BY <1>1 DEF UplClient, UplCheck, UplSend
      <4>2. CASE UplClient(u)
        <5>. DEFINE t == [upls[u] EXCEPT !.clientDone = TRUE, !.val = samples.val]
        <5>1. upls' = [upls EXCEPT ![u] = t]
          BY <2>3, <4>2 DEF UplClient
        <5>2. t.pc = "parts"
          BY <1>0, <4>1 DEF UplTask
        <5>. QED
          BY <5>1, <5>2
      <4>3. CASE UplCheck(u)
        <5>. DEFINE t == [upls[u] EXCEPT !.files = IF mem.imageId = 0 THEN "send" ELSE "id",
                                         !.imageId = mem.imageId]
        <5>1. upls' = [upls EXCEPT ![u] = t]
          BY <2>3, <4>3 DEF UplCheck
        <5>2. t.pc = "parts"
          BY <1>0, <4>1 DEF UplTask
        <5>. QED
          BY <5>1, <5>2
      <4>4. CASE UplSend(u)
        <5>. DEFINE t == [upls[u] EXCEPT !.files = "id", !.imageId = Len(server.images) + 1]
        <5>1. upls' = [upls EXCEPT ![u] = t]
          BY <2>3, <4>4 DEF UplSend
        <5>2. t.pc = "parts"
          BY <1>0, <4>1 DEF UplTask
        <5>. QED
          BY <5>1, <5>2
      <4>. QED
        BY <1>1, <4>2, <4>3, <4>4
    <3>2. Recorded(t, n)
      BY <3>1 DEF Recorded
    <3>3. UNCHANGED <<mem, row>>
      BY <1>1, <2>3 DEF UplClient, UplCheck, UplSend
    <3>. QED
      BY <1>0, <2>1, <3>1, <3>2, <3>3, <1>goal
  <2>. QED
    BY <2>2, <2>3
<1>2. CASE UplImageId(u)
  <2>. DEFINE t == [upls[u] EXCEPT !.files = "done"]
              d == [mem EXCEPT !.imageId = upls[u].imageId]
  <2>1. Recorded(t, n)
    BY <1>0, <1>2 DEF Recorded, UplImageId, UplTask
  <2>2. upls[u].imageId \in Nat
    BY <1>0 DEF UplTask
  <2>3. d \in Dan /\ Named(d, n)
    BY <1>0, <2>2, DanNamed, DanFields
  <2>4. upls' = [upls EXCEPT ![u] = t] /\ Store(d) /\ UNCHANGED <<copy, server>>
    BY <1>2 DEF UplImageId
  <2>. HIDE DEF t, d
  <2>5. Named(mem', n) /\ (row' # NoRow => Named(row', n))
    BY <1>0, <2>3, <2>4, StoreNamed
  <2>. QED
    BY <2>1, <2>4, <2>5, <1>goal
<1>3. CASE UplPost(u) /\ ~UplFail(u)
  <2>1. PICK f : server' = [server EXCEPT !.forms = Append(@, f)]
    BY <1>3 DEF UplPost
  <2>. DEFINE t == [upls[u] EXCEPT !.pc = "posted", !.remote = n + 1]
  <2>2. upls' = [upls EXCEPT ![u] = t] /\ UNCHANGED <<row, mem, copy>>
    BY <1>3 DEF UplPost, n
  <2>3. Len(server'.forms) = n + 1 /\ n + 1 \in Nat /\ n <= n + 1
    BY <1>0, <2>1 DEF n
  <2>4. Recorded(t, n + 1)
    BY <1>0, <2>3 DEF Recorded, UplTask
  <2>. HIDE DEF t
  <2>5. \A v \in UplJobs : Recorded(upls'[v], n + 1)
    BY <1>0, <2>2, <2>3, <2>4, TaskServer
  <2>6. \A m \in Dan : Named(m, n) => Named(m, n + 1)
    BY <1>0 DEF Named, Dan
  <2>7. copy # NoCopy => copy.dan \in Dan
    BY CopyFields DEF TypeInv, TypeOK
  <2>. QED
    BY <1>0, <2>2, <2>3, <2>5, <2>6, <2>7 DEF ServerInv
<1>4. CASE UplPost(u) /\ UplFail(u)
  <2>1. CASE server' = server
    BY <1>4, <1>fail, <2>1 DEF UplPost
  <2>2. CASE server' # server
    <3>. DEFINE t == [upls[u] EXCEPT !.pc = "posted", !.remote = Len(server.forms) + 1]
    <3>0. upls' = [upls EXCEPT ![u] = t]
      BY <1>4, <2>2 DEF UplPost
    <3>1. upls'[u].pc = "posted"
      BY <1>0, <3>0 DEF UplTask
    <3>2. upls'[u].pc = "idle"
      BY <1>0, <1>4 DEF UplFail, IdleUpl
    <3>. QED
      BY <3>1, <3>2
  <2>. QED
    BY <2>1, <2>2
<1>5. CASE UplStatus(u)
  <2>1. n > 0
    BY <1>0, <1>5 DEF UplStatus, Answered, Recorded
  <2>2. Named([mem EXCEPT !.status = "archived"], n)
    BY <1>0, <2>1, DanNamed
  <2>3. Recorded([upls[u] EXCEPT !.pc = "status"], n)
    BY <1>0, <1>5 DEF UplStatus, Answered, Recorded, UplTask
  <2>. QED
    BY <1>0, <1>5, <2>2, <2>3, <1>goal DEF UplStatus
<1>6. CASE UplRemote(u)
  <2>1. Named([mem EXCEPT !.remoteId = upls[u].remote], n)
    BY <1>0, <1>6, DanNamed DEF UplRemote, Recorded
  <2>2. Recorded([upls[u] EXCEPT !.pc = "remote"], n)
    BY <1>0, <1>6 DEF UplRemote, Recorded, UplTask
  <2>. QED
    BY <1>0, <1>6, <2>1, <2>2, <1>goal DEF UplRemote
<1>7. CASE UplSave(u)
  <2>1. Named(mem', n) /\ (row' # NoRow => Named(row', n))
    BY <1>0, <1>7, StoreNamed DEF UplSave
  <2>2. Recorded([upls[u] EXCEPT !.pc = "saved"], n)
    BY <1>0, <1>7 DEF UplSave, Recorded, UplTask
  <2>. QED
    BY <1>0, <1>7, <2>1, <2>2, <1>goal DEF UplSave
<1>8. CASE UplDone(u)
  <2>1. n > 0
    BY <1>0, <1>8 DEF UplDone, Recorded
  <2>2. Named([mem EXCEPT !.status = "archived"], n)
    BY <1>0, <2>1, DanNamed
  <2>3. Recorded(IdleUpl, n)
    BY DEF IdleUpl, Recorded
  <2>. QED
    BY <1>0, <1>8, <2>2, <2>3, <1>goal DEF UplDone
<1>9. CASE UplLost(u)
  BY <1>9, <1>fail DEF UplLost
<1>. QED
  BY <1>1, <1>2, <1>3, <1>4, <1>5, <1>6, <1>7, <1>8, <1>9
     DEF UplClientStep, UplFilesStep, UplFormStep

\* No step marks a form archived that the server has not accepted.
LEMMA StepServer ==
  ASSUME TypeInv, ServerInv, [Next]_vars
  PROVE  ServerInv'
<1>. DEFINE n == Len(server.forms)
<1>0. /\ n \in Nat /\ Named(mem, n) /\ (row # NoRow => Named(row, n))
      /\ (copy # NoCopy => Named(copy.dan, n))
      /\ (\A u \in UplJobs : Recorded(upls[u], n))
      /\ mem \in Dan /\ row \in Dan \cup {NoRow} /\ disk.img \in Files
  BY DEF TypeInv, TypeOK, ServerInv
<1>goal. ASSUME UNCHANGED <<copy, upls, server>>, Named(mem', n), row' # NoRow => Named(row', n)
         PROVE  ServerInv'
  BY <1>0, <1>goal DEF ServerInv
<1>. HIDE DEF n
<1>. USE DEF uiVars, jobVars, ghosts
<1>1. CASE UNCHANGED <<mem, row, copy, upls, server>>
  BY <1>0, <1>1, <1>goal
<1>2. CASE TypeSave
  BY <1>0, <1>2, <1>goal, StoreNamed DEF TypeSave
<1>3. ASSUME NEW j \in StripJobs, StripSave(j) PROVE ServerInv'
  <2>. DEFINE d == [mem EXCEPT !.sigs = strips[j].sigs, !.images = {}]
  <2>1. strips[j].sigs \in Signatures
    BY DEF TypeInv, TypeOK, StripTask
  <2>2. d \in Dan /\ Named(d, n)
    BY <1>0, <2>1, DanNamed, DanFields
  <2>3. Store(d) /\ UNCHANGED <<copy, upls, server>>
    BY <1>3 DEF StripSave
  <2>. QED
    BY <1>0, <2>2, <2>3, <1>goal, StoreNamed
<1>4. ASSUME NEW k \in ImgJobs, ImgCheck(k) PROVE ServerInv'
  <2>1. CASE ImgFail(k)
    BY <1>0, <1>4, <2>1, <1>goal DEF ImgCheck, ImgFail
  <2>2. CASE ~ImgFail(k)
    <3>. DEFINE d == [mem EXCEPT !.sigs = imgs[k].sigs, !.images = imgs[k].images]
    <3>1. imgs[k].sigs \in Signatures /\ imgs[k].images \in SUBSET Pictures
      BY DEF TypeInv, TypeOK, ImgTask
    <3>2. Named(d, n)
      BY <1>0, <3>1, DanNamed
    <3>3. mem' = d /\ UNCHANGED <<row, copy, upls, server>>
      BY <1>4, <2>2 DEF ImgCheck
    <3>. QED
      BY <1>0, <3>2, <3>3, <1>goal
  <2>. QED
    BY <2>1, <2>2
<1>5. ASSUME NEW k \in ImgJobs, ImgDone(k) PROVE ServerInv'
  <2>. DEFINE ps == mem.images \cup {IF disk.img = NoImage THEN NoDigest ELSE disk.img}
              d == [mem EXCEPT !.images = ps, !.status = "open"]
  <2>1. ps \in SUBSET Pictures
    BY <1>0, DanFields DEF Files, Pictures
  <2>2. Store(d) /\ UNCHANGED <<copy, upls, server>>
    BY <1>5 DEF ImgDone
  <2>. HIDE DEF ps
  <2>3. d \in Dan /\ Named(d, n)
    BY <1>0, <2>1, DanFields, DanNamed
  <2>. HIDE DEF d
  <2>. QED
    BY <1>0, <2>2, <2>3, <1>goal, StoreNamed
<1>6. CASE Die
  <2>1. Named(mem', n) /\ \A u \in UplJobs : Recorded(upls'[u], n)
    BY <1>0, <1>6 DEF Die, Blank, Named, IdleUpl, Recorded
  <2>2. server' = server /\ row' = row /\ copy' = NoCopy
    BY <1>6 DEF Die
  <2>. QED
    BY <1>0, <2>1, <2>2 DEF ServerInv, n
<1>7. CASE UNCHANGED vars
  BY <1>1, <1>7 DEF vars
<1>8. ASSUME NEW j \in StripJobs, StripStep(j) PROVE ServerInv'
  BY <1>1, <1>3, <1>8 DEF StripStep, StripRead, StripCheck, StripDelete
<1>9. ASSUME NEW k \in ImgJobs, ImgStep(k) PROVE ServerInv'
  BY <1>1, <1>4, <1>5, <1>9
     DEF ImgStep, ImgSamples, ImgSigns, ImgBind, ImgWrite, ImgFill, ImgFail
<1>. QED
  BY <1>2, <1>6, <1>7, <1>8, <1>9, UiServer, UplServer DEF Next, Killed, ArchiveThrows

\* A form marked archived, on the tablet or in any copy in memory, was accepted by the
\* server, and the remote form it names is one the server holds: whatever is tapped,
\* rendered or uploaded a second time while an upload runs, whatever save falls between
\* the halves of recording the answer, whatever answer is lost and whenever the process dies.
THEOREM ArchivedIsOnServer == Spec => []ArchivedOnServer
<1>1. Init => TypeInv /\ ServerInv
  BY InitType, InitServer
<1>2. TypeInv /\ ServerInv /\ [Next]_vars => (TypeInv /\ ServerInv)'
  BY StepType, StepServer
<1>3. ASSUME TypeInv, ServerInv PROVE ArchivedOnServer
  <2>1. Len(server.forms) > 0 => server.forms # <<>>
    OBVIOUS
  <2>. QED
    BY <1>3, <2>1 DEF ServerInv, Named, ArchivedOnServer
<1>. QED
  BY <1>1, <1>2, <1>3, PTL DEF Spec

-----------------------------------------------------------------------------
(* Pictures on the server are signed.                                       *)

Signed(p) == \A t \in Required : p.sigs[t] # 0

\* A picture is complete from the moment it is rendered, in the file it is written to
\* and at the server, unless it is cut off.
SignedInv ==
    /\ \A k \in ImgJobs : imgs[k].pc \in {"write", "fill"} => Signed(imgs[k].pic)
    /\ disk.img \in Content => Signed(disk.img)
    /\ \A i \in 1..Len(server.images) : server.images[i] \in Content => Signed(server.images[i])

\* The server has no image at the start.
LEMMA InitSigned ==
  ASSUME Init
  PROVE  SignedInv
  BY NoValuesAssumption DEF Init, SignedInv, IdleImg

\* A rendering that goes on with a signed picture leaves the others alone.
LEMMA TaskSigned ==
  ASSUME TypeInv, SignedInv, NEW k \in ImgJobs, NEW t, imgs' = [imgs EXCEPT ![k] = t],
         t.pc \in {"write", "fill"} => Signed(t.pic),
         disk'.img \in Content => Signed(disk'.img), server' = server
  PROVE  SignedInv'
<1>1. ASSUME NEW l \in ImgJobs PROVE imgs'[l].pc \in {"write", "fill"} => Signed(imgs'[l].pic)
  <2>1. CASE l = k
    BY <2>1 DEF TypeInv, TypeOK
  <2>2. CASE l # k
    BY <2>2 DEF TypeInv, TypeOK, SignedInv
  <2>. QED
    BY <2>1, <2>2
<1>. QED
  BY <1>1 DEF SignedInv

\* The rendering draws only the signatures it needs, and all of them.
LEMMA ImgSigned ==
  ASSUME TypeInv, SignedInv, NEW k \in ImgJobs, ImgStep(k)
  PROVE  SignedInv'
<1>0. imgs[k] \in ImgTask /\ (imgs[k].pc \in {"write", "fill"} => Signed(imgs[k].pic))
      /\ disk \in [sig : Signatures, img : Files] /\ (disk.img \in Content => Signed(disk.img))
  BY DEF TypeInv, TypeOK, SignedInv
<1>fail. ASSUME ImgFail(k), disk'.img \in {disk.img, NoImage, CutOff}, server' = server PROVE SignedInv'
  <2>1. IdleImg.pc \notin {"write", "fill"}
    BY DEF IdleImg
  <2>2. disk'.img \in Content => Signed(disk'.img)
    BY <1>0, <1>fail, NoValuesAssumption
  <2>. QED
    BY <1>fail, <2>1, <2>2, TaskSigned DEF ImgFail
<1>1. CASE ImgSamples(k) \/ ImgSigns(k) \/ ImgCheck(k)
  <2>1. disk' = disk /\ server' = server
    BY <1>1 DEF ImgSamples, ImgSigns, ImgCheck
  <2>2. CASE ImgFail(k)
    BY <2>1, <2>2, <1>fail
  <2>3. CASE ~ImgFail(k)
    <3>1. PICK t : imgs' = [imgs EXCEPT ![k] = t] /\ t.pc \notin {"write", "fill"}
      <4>1. CASE ImgSamples(k)
        <5>. DEFINE t == [imgs[k] EXCEPT !.pc = "signs", !.val = samples.val]
        <5>1. imgs' = [imgs EXCEPT ![k] = t] /\ t.pc = "signs"
          BY <1>0, <2>3, <4>1 DEF ImgSamples, ImgTask
        <5>. QED
          BY <5>1
      <4>2. CASE ImgSigns(k)
        <5>. DEFINE t == [imgs[k] EXCEPT !.pc = "check", !.sigs = mem.sigs, !.images = mem.images]
        <5>1. imgs' = [imgs EXCEPT ![k] = t] /\ t.pc = "check"
          BY <1>0, <2>3, <4>2 DEF ImgSigns, ImgTask
        <5>. QED
          BY <5>1
      <4>3. CASE ImgCheck(k)
        <5>. DEFINE t == [imgs[k] EXCEPT !.pc = "bind"]
        <5>1. imgs' = [imgs EXCEPT ![k] = t] /\ t.pc = "bind"
          BY <1>0, <2>3, <4>3 DEF ImgCheck, ImgTask
        <5>. QED
          BY <5>1
      <4>. QED
        BY <1>1, <4>1, <4>2, <4>3
    <3>. QED
      BY <1>0, <2>1, <3>1, TaskSigned
  <2>. QED
    BY <2>2, <2>3
<1>2. CASE ImgBind(k)
  <2>1. disk' = disk /\ server' = server
    BY <1>2 DEF ImgBind
  <2>2. CASE SignaturesMissing(imgs[k].sigs)
    BY <1>2, <2>1, <2>2, <1>fail DEF ImgBind
  <2>3. CASE ~SignaturesMissing(imgs[k].sigs)
    <3>. DEFINE p == [samples |-> imgs[k].val, client |-> mem.client,
                      stype |-> mem.stype, sigs |-> imgs[k].sigs]
                t == [imgs[k] EXCEPT !.pc = "write", !.pic = p]
    <3>1. imgs' = [imgs EXCEPT ![k] = t]
      BY <1>2, <2>3 DEF ImgBind
    <3>2. Signed(p)
      BY <2>3 DEF SignaturesMissing, Signed
    <3>. HIDE DEF p
    <3>3. t.pic = p
      BY <1>0 DEF ImgTask
    <3>. HIDE DEF t
    <3>. QED
      BY <1>0, <2>1, <3>1, <3>2, <3>3, TaskSigned
  <2>. QED
    BY <2>2, <2>3
<1>3. CASE ImgWrite(k)
  <2>1. server' = server /\ disk'.img \in {disk.img, NoImage, CutOff}
    BY <1>0, <1>3 DEF ImgWrite
  <2>2. CASE ImgFail(k)
    BY <2>1, <2>2, <1>fail
  <2>3. CASE ~ImgFail(k)
    <3>. DEFINE t == [imgs[k] EXCEPT !.pc = "fill"]
    <3>1. imgs' = [imgs EXCEPT ![k] = t]
      BY <1>3, <2>3 DEF ImgWrite
    <3>2. t.pic = imgs[k].pic /\ Signed(imgs[k].pic)
      BY <1>0, <1>3 DEF ImgTask, ImgWrite
    <3>3. disk'.img \in Content => Signed(disk'.img)
      BY <1>0, <2>1, NoValuesAssumption
    <3>. HIDE DEF t
    <3>. QED
      BY <2>1, <3>1, <3>2, <3>3, TaskSigned
  <2>. QED
    BY <2>2, <2>3
<1>4. CASE ImgFill(k)
  <2>. DEFINE t == [imgs[k] EXCEPT !.pc = "done"]
  <2>1. imgs' = [imgs EXCEPT ![k] = t] /\ server' = server
    BY <1>4 DEF ImgFill
  <2>2. t.pc = "done"
    BY <1>0 DEF ImgTask
  <2>3. disk'.img \in {disk.img, NoImage, CutOff, imgs[k].pic} /\ Signed(imgs[k].pic)
    BY <1>0, <1>4 DEF ImgFill
  <2>4. disk'.img \in Content => Signed(disk'.img)
    BY <1>0, <2>3, NoValuesAssumption
  <2>. HIDE DEF t
  <2>. QED
    BY <2>1, <2>2, <2>4, TaskSigned
<1>5. CASE ImgDone(k)
  BY <1>0, <1>5, TaskSigned DEF ImgDone, IdleImg
<1>. QED
  BY <1>1, <1>2, <1>3, <1>4, <1>5 DEF ImgStep

\* No step sends or renders a picture without the signatures it needs.
LEMMA StepSigned ==
  ASSUME TypeInv, SignedInv, [Next]_vars
  PROVE  SignedInv'
<1>. USE DEF uiVars, jobVars, ghosts
<1>0. /\ disk \in [sig : Signatures, img : Files]
      /\ server \in [images : Seq(Content \cup {CutOff}), forms : Seq(Form)]
      /\ imgs \in [ImgJobs -> ImgTask]
  BY DEF TypeInv, TypeOK
<1>1. CASE imgs' = imgs /\ disk'.img = disk.img /\ server'.images = server.images
  BY <1>1 DEF SignedInv
<1>2. ASSUME NEW t \in SigTypes, Paint(t) PROVE SignedInv'
  BY <1>0, <1>1, <1>2 DEF Paint
<1>3. ASSUME NEW k \in ImgJobs, CreateImage(k) PROVE SignedInv'
  <2>. DEFINE t == [IdleImg EXCEPT !.pc = "samples", !.here = TRUE]
  <2>1. imgs' = [imgs EXCEPT ![k] = t] /\ UNCHANGED <<disk, server>> /\ t.pc = "samples"
    BY <1>3 DEF CreateImage, IdleImg
  <2>. HIDE DEF t
  <2>. QED
    BY <2>1, TaskSigned DEF SignedInv
<1>4. ASSUME NEW j \in StripJobs, StripDelete(j) PROVE SignedInv'
  <2>1. disk'.img = NoImage /\ imgs' = imgs /\ server' = server
    BY <1>0, <1>4 DEF StripDelete
  <2>. QED
    BY <2>1, NoValuesAssumption DEF SignedInv
<1>5. CASE Close \/ ClearForm
  <2>1. ASSUME NEW k \in ImgJobs
        PROVE  imgs'[k].pc = imgs[k].pc /\ imgs'[k].pic = imgs[k].pic
    BY <1>0, <1>5 DEF Close, ClearForm, Leave, ImgTask
  <2>2. UNCHANGED <<disk, server>>
    BY <1>5 DEF Close, ClearForm
  <2>. QED
    BY <2>1, <2>2 DEF SignedInv
<1>6. ASSUME NEW u \in UplJobs, UplSend(u) PROVE SignedInv'
  <2>1. UNCHANGED <<imgs, disk>>
    BY <1>6 DEF UplSend
  <2>2. CASE server' = server
    BY <1>1, <2>1, <2>2
  <2>3. CASE server' # server
    <3>1. PICK f \in FileToSend : server' = [server EXCEPT !.images = Append(@, f)]
      BY <1>6, <2>3 DEF UplSend
    <3>2. f = disk.img
      BY DEF FileToSend
    <3>. DEFINE is == Append(server.images, f)
    <3>3. server'.images = is /\ server.images \in Seq(Content \cup {CutOff})
      BY <1>0, <3>1
    <3>4. f \in Content \cup {CutOff}
      BY <1>0, <3>2 DEF FileToSend, Files
    <3>5. \A i \in 1..Len(is) : is[i] = disk.img \/ (i \in 1..Len(server.images)
                                                       /\ is[i] = server.images[i])
      BY <3>2, <3>3, <3>4
    <3>. HIDE DEF is
    <3>. QED
      BY <2>1, <3>3, <3>5 DEF SignedInv
  <2>. QED
    BY <2>2, <2>3
<1>7. ASSUME NEW u \in UplJobs, UplFilesStep(u) \/ UplClientStep(u) \/ UplFormStep(u)
      PROVE  SignedInv'
  <2>1. CASE UplSend(u)
    BY <1>6, <2>1
  <2>2. CASE UplPost(u)
    BY <1>0, <1>1, <2>2 DEF UplPost
  <2>3. CASE ~UplSend(u) /\ ~UplPost(u)
    BY <1>1, <1>7, <2>3
       DEF UplFilesStep, UplClientStep, UplFormStep, UplClient, UplCheck, UplImageId,
           UplStatus, UplRemote, UplSave, UplDone, UplLost
  <2>. QED
    BY <2>1, <2>2, <2>3
<1>8. CASE Die
  BY <1>8 DEF Die, IdleImg, SignedInv
<1>9. CASE UNCHANGED vars
  BY <1>1, <1>9 DEF vars
<1>10. CASE UiStep
  BY <1>1, <1>2, <1>3, <1>5, <1>10
     DEF UiStep, ShowAddSampleType, SampleTypeResult, ShowCompany, CompanyResult,
         ShowSampling, SampleSave, SampleResult, LongClickSample, DeleteSample, Cancel,
         ShowSignature, SignSave, SignResult, BackOnDialog, Open, UploadArchives
<1>11. ASSUME NEW j \in StripJobs, StripStep(j) PROVE SignedInv'
  BY <1>1, <1>4, <1>11 DEF StripStep, StripRead, StripCheck, StripSave
<1>12. CASE TypeSave
  BY <1>1, <1>12 DEF TypeSave
<1>. QED
  BY <1>7, <1>8, <1>9, <1>10, <1>11, <1>12, ImgSigned DEF Next, Killed, ArchiveThrows

\* A whole picture the server holds carries every required signature.
LEMMA SignedInvariant == Spec => [](TypeInv /\ SignedInv)
<1>1. Init => TypeInv /\ SignedInv
  BY InitType, InitSigned
<1>2. TypeInv /\ SignedInv /\ [Next]_vars => (TypeInv /\ SignedInv)'
  BY StepType, StepSigned
<1>. QED
  BY <1>1, <1>2, PTL DEF Spec

=============================================================================
