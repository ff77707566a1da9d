----------------------------- MODULE FormArchive -----------------------------
(***************************************************************************)
(* The life of one sampling form (JianCeDan): it is filled in on           *)
(* FormDetailActivity, signed on SignatureActivity, rendered to a form     *)
(* image, and archived by uploading it (FormRepository).                   *)
(*                                                                         *)
(* Three copies of the form exist at once: the database row, the object    *)
(* held by FormDetailActivity and by every io task it started (mem), and   *)
(* the serialized copy SignatureActivity works on (copy).  save() writes a *)
(* whole object over the row.  Every UI action below runs on the main      *)
(* thread; the steps of deleteFormImages (Strip..), createImage (Img..)    *)
(* and uploadXxx (Upl..) run on io threads and interleave with it.  Only   *)
(* the progress dialog keeps a second rendering or upload from starting.   *)
(*                                                                         *)
(* A file is its content: the path of a signature or of the form image is  *)
(* fixed per form, so an AppFiles row is told apart only by the MD5 it     *)
(* stores, which here is the version of the signature (1, 2, .. per paint) *)
(* or what the image shows.  Text fields are members of small sets.        *)
(***************************************************************************)
EXTENDS Naturals, FiniteSets, Sequences

CONSTANTS
    Clients,          \* client units (受检单位) a user can pick
    SampleTypes,      \* sampling stages (抽样环节)
    SampleVals,       \* contents of the form's sample rows
    SigTypes,         \* kinds of signature file
    Required,         \* the kinds Signature.isValid() insists on
    StripJobs, ImgJobs, UplJobs,  \* slots for deleteFormImages, createImage, uploadXxx
    NoClient, NoType, NoSamples, NoImage, NoRow, NoCopy,
    CutOff,           \* a file that is not one whole picture
    NoDigest,         \* the MD5 of a file that was not there
    BackDismisses,    \* may Back cancel the progress dialog (Android: TRUE)
    DiskMayFill,      \* may the storage run full while a picture is written
    MaxPaints,        \* bound: signatures painted
    MaxTaps,          \* bound: taps on the form while a rendering or an upload runs behind it
    MaxPosts,         \* bound: form POSTs (and image uploads) that reach the server
    MaxCrashes        \* bound: process deaths

ASSUME ConstantsAssumption ==
    /\ NoClient \notin Clients
    /\ NoType \notin SampleTypes
    /\ NoSamples \notin SampleVals
    /\ Required \subseteq SigTypes
    /\ Required # {}
    /\ IsFiniteSet(SigTypes) /\ IsFiniteSet(UplJobs)
    /\ BackDismisses \in BOOLEAN /\ DiskMayFill \in BOOLEAN
    /\ MaxPaints \in Nat /\ MaxTaps \in Nat
    /\ MaxPosts \in Nat
    /\ MaxCrashes \in Nat

VARIABLES
    screen,    \* the activity or dialog on top of the form
    dialog,    \* the progress dialog is showing
    row,       \* the JIAN_CE_DAN row, or NoRow
    mem,       \* FormDetailActivity.jianCeDan
    copy,      \* SignatureActivity: [dan, ids], or NoCopy
    samples,   \* the form's sample rows: what they say and whether all are finished
    disk,      \* [sig, img]: the files in the form's directory
    typeSave,  \* an rx().save of the form is queued on io
    strips,    \* the deleteFormImages tasks
    imgs,      \* the createImage tasks
    upls,      \* the upload tasks
    server,    \* [images, forms]: what the server has accepted
    taps, paints, crashes, lost  \* counters: taps over a running task, paints, process deaths,
                                 \* answers to a form POST not recorded

uiVars == <<screen, dialog, copy>>
jobVars == <<typeSave, strips, imgs, upls>>
counts == <<paints, crashes, lost>>
ghosts == <<taps, counts>>
vars == <<screen, dialog, row, mem, copy, samples, disk, typeSave, strips, imgs,
          upls, server, taps, paints, crashes, lost>>

(***************************************************************************)
(* Values.                                                                 *)
(***************************************************************************)
Signatures == [SigTypes -> Nat]          \* 0: not signed
NoSigs == [t \in SigTypes |-> 0]

\* What a rendered form shows.
Content == [samples : SampleVals, client : Clients \cup {NoClient},
            stype : SampleTypes \cup {NoType}, sigs : Signatures]
Files == Content \cup {NoImage, CutOff}

\* What the form image ids of FileIDs name: the file, when its MD5 was taken.
Pictures == Content \cup {CutOff, NoDigest}

\* FileIDs is the pair sigs, images; status INIT and PRINTED are the same number.
Dan == [id : BOOLEAN, client : Clients \cup {NoClient},
        stype : SampleTypes \cup {NoType}, status : {"open", "archived"},
        sigs : Signatures, images : SUBSET Pictures, imageId : Nat, remoteId : Nat]

Blank == [id |-> FALSE, client |-> NoClient, stype |-> NoType, status |-> "open",
          sigs |-> NoSigs, images |-> {}, imageId |-> 0, remoteId |-> 0]

\* SignatureActivity's serialized form, with the ids of the signatures on screen.
Copies == [dan : Dan, ids : Signatures]

ASSUME NoValuesAssumption ==
    /\ NoImage \notin Content /\ CutOff \notin Content \cup {NoImage} /\ NoDigest \notin Files
    /\ NoRow \notin Dan /\ NoCopy \notin Copies

SampleRows == [val : SampleVals \cup {NoSamples}, ready : BOOLEAN]

Form == [samples : SampleVals, client : Clients \cup {NoClient},
         stype : SampleTypes \cup {NoType}, imageId : Nat]

\* The three kinds of io task.  A strip holds the ids it read from FileIDs, a rendering
\* those it checks; an upload those it was started with, how far its two parallel parts
\* are, and what the server answered.  "here": the activity that started it, whose dialog
\* it closes, has not been left.
StripTask == [pc : {"idle", "queued", "read", "delete", "save"}, sigs : Signatures, images : SUBSET Pictures]
ImgTask == [pc : {"idle", "samples", "signs", "check", "bind", "write", "fill", "done"},
            here : BOOLEAN, val : SampleVals \cup {NoSamples}, sigs : Signatures, images : SUBSET Pictures,
            pic : Content \cup {NoImage}]
UplTask == [pc : {"idle", "parts", "posted", "status", "remote", "saved"},
            here : BOOLEAN, sigs : Signatures, images : SUBSET Pictures,
            clientDone : BOOLEAN, val : SampleVals \cup {NoSamples},
            files : {"check", "send", "id", "done"}, imageId : Nat, remote : Nat]

IdleStrip == [pc |-> "idle", sigs |-> NoSigs, images |-> {}]
IdleImg == [pc |-> "idle", here |-> FALSE, val |-> NoSamples, sigs |-> NoSigs, images |-> {},
            pic |-> NoImage]
IdleUpl == [pc |-> "idle", here |-> FALSE, sigs |-> NoSigs, images |-> {},
            clientDone |-> FALSE, val |-> NoSamples, files |-> "check", imageId |-> 0, remote |-> 0]

TypeOK ==
    /\ screen \in {"closed", "detail", "type", "company", "sample", "sampleSaved",
                   "confirmDelete", "sign", "signed"}
    /\ dialog \in BOOLEAN
    /\ row \in Dan \cup {NoRow}
    /\ mem \in Dan
    /\ copy \in Copies \cup {NoCopy}
    /\ samples \in SampleRows
    /\ disk \in [sig : Signatures, img : Files]
    /\ typeSave \in BOOLEAN
    /\ strips \in [StripJobs -> StripTask]
    /\ imgs \in [ImgJobs -> ImgTask]
    /\ upls \in [UplJobs -> UplTask]
    /\ server \in [images : Seq(Content \cup {CutOff}), forms : Seq(Form)]
    /\ taps \in Nat /\ paints \in Nat /\ crashes \in Nat /\ lost \in Nat

Init ==
    /\ screen = "detail" /\ dialog = FALSE
    /\ row = NoRow /\ mem = Blank /\ copy = NoCopy
    /\ samples = [val |-> NoSamples, ready |-> FALSE]
    /\ disk = [sig |-> NoSigs, img |-> NoImage]
    /\ typeSave = FALSE /\ strips = [j \in StripJobs |-> IdleStrip]
    /\ imgs = [k \in ImgJobs |-> IdleImg] /\ upls = [u \in UplJobs |-> IdleUpl]
    /\ server = [images |-> <<>>, forms |-> <<>>]
    /\ taps = 0 /\ paints = 0 /\ crashes = 0 /\ lost = 0

(***************************************************************************)
(* Helpers.                                                                *)
(***************************************************************************)

\* AppUtils.isEditable.  Mutant: the check is missing.
Editable_Always(m) == TRUE
Editable(m) == m.status # "archived"

AlreadyArchived_Never(m) == FALSE
AlreadyArchived(m) == m.status = "archived"

FilesEmpty(m) == m.sigs = NoSigs /\ m.images = {}

\* onCompleted appends ",id" to FileIDs; to an empty one that leaves a list whose first
\* id does not parse.
Malformed(m) == m.sigs = NoSigs /\ m.images # {}

\* JianCeDanDao.save: insert without a key, else update; updating a deleted row
\* changes nothing.
Store(m) ==
    /\ mem' = [m EXCEPT !.id = TRUE]
    /\ row' = IF m.id /\ row = NoRow THEN NoRow ELSE [m EXCEPT !.id = TRUE]

\* deleteFormImages() hands the form to an io thread.
DeleteFormImages_Skipped == UNCHANGED strips
DeleteFormImages ==
    \E j \in StripJobs :
        /\ strips[j].pc = "idle"
        /\ strips' = [strips EXCEPT ![j].pc = "queued"]

\* The signatures whose file still has the MD5 its AppFiles row records.
Intact(sigs) == [t \in SigTypes |-> IF sigs[t] = disk.sig[t] THEN sigs[t] ELSE 0]

\* Some file named by FileIDs is gone or no longer has its MD5.
FilesChanged(ids) == Intact(ids.sigs) # ids.sigs \/ ~(ids.images \subseteq {disk.img})

\* Signature.isValid(), whose result is negated.
SignaturesMissing(sigs) == \E t \in Required : sigs[t] = 0

FileCount(m) == Cardinality({t \in SigTypes : m.sigs[t] # 0}) + Cardinality(m.images)

\* A task closes the dialog of the activity that started it, whichever task opened that.
DismissProgressDialog_Forgotten(here) == UNCHANGED dialog
DismissProgressDialog(here) == dialog' = (dialog /\ ~here)

\* The form screen takes taps: it is on top and no progress dialog covers it.
Touchable == screen = "detail" /\ ~dialog

\* A rendering or an upload is running; with the screen touchable, Back took its dialog away.
Behind == (\E k \in ImgJobs : imgs[k].pc # "idle") \/ \E u \in UplJobs : upls[u].pc # "idle"

\* The slot a new rendering or upload takes: the first free one.
Slot(tasks, k) == tasks[k].pc = "idle" /\ k = CHOOSE l \in DOMAIN tasks : tasks[l].pc = "idle"

\* A tap on the form screen.
Tap ==
    /\ Touchable
    /\ Behind => taps < MaxTaps
    /\ taps' = IF Behind THEN taps + 1 ELSE taps

(***************************************************************************)
(* Editing the form on the main thread.                                    *)
(***************************************************************************)

ShowAddSampleType ==
    /\ Tap /\ Editable(mem)
    /\ screen' = "type"
    /\ UNCHANGED <<dialog, row, mem, copy, samples, disk, jobVars, server, counts>>

\* With a client already chosen the handler returns: nothing is saved and the
\* form image stays.
SampleTypeResult ==
    /\ screen = "type"
    /\ \E t \in SampleTypes : mem' = [mem EXCEPT !.stype = t]
    /\ screen' = "detail"
    /\ IF mem.client # NoClient
         THEN UNCHANGED <<typeSave, strips>>
         ELSE typeSave' = TRUE /\ DeleteFormImages
    /\ UNCHANGED <<dialog, row, copy, samples, disk, imgs, upls, server, ghosts>>

\* The queued rx().save runs on io.
TypeSave ==
    /\ typeSave
    /\ Store(mem)
    /\ typeSave' = FALSE
    /\ UNCHANGED <<uiVars, samples, disk, strips, imgs, upls, server, ghosts>>

ShowCompany ==
    /\ Tap /\ Editable(mem) /\ mem.stype # NoType
    /\ screen' = "company"
    /\ UNCHANGED <<dialog, row, mem, copy, samples, disk, jobVars, server, counts>>

CompanyResult ==
    /\ screen = "company"
    /\ \E c \in Clients : Store([mem EXCEPT !.client = c])
    /\ DeleteFormImages
    /\ screen' = "detail"
    /\ UNCHANGED <<dialog, copy, samples, disk, typeSave, imgs, upls, server, ghosts>>

ShowSampling ==
    /\ Tap /\ Editable(mem) /\ mem.client # NoClient /\ mem.stype # NoType
    /\ screen' = "sample"
    /\ UNCHANGED <<dialog, row, mem, copy, samples, disk, jobVars, server, counts>>

\* onSave of the sample fragments writes the sample row; "ready" is the finished
\* flag (and, for drug samples, no duplicate code) over all of the form's samples.
SampleSave ==
    /\ screen = "sample"
    /\ \E v \in SampleVals, r \in BOOLEAN : samples' = [val |-> v, ready |-> r]
    /\ screen' = "sampleSaved"
    /\ UNCHANGED <<dialog, row, mem, copy, disk, jobVars, server, ghosts>>

\* RESULT_OK; after save-and-copy the next sample screen opens at once.
SampleResult ==
    /\ screen = "sampleSaved"
    /\ DeleteFormImages
    /\ \/ screen' = "detail"
       \/ screen' = "sample" /\ Editable(mem)
    /\ UNCHANGED <<dialog, row, mem, copy, samples, disk, typeSave, imgs, upls, server, ghosts>>

LongClickSample ==
    /\ Tap /\ Editable(mem) /\ samples.val # NoSamples
    /\ screen' = "confirmDelete"
    /\ UNCHANGED <<dialog, row, mem, copy, samples, disk, jobVars, server, counts>>

\* What is left may be nothing, or samples that are now all finished or not.
DeleteSample ==
    /\ screen = "confirmDelete"
    /\ samples' \in [val : SampleVals, ready : BOOLEAN]
                      \cup {[val |-> NoSamples, ready |-> FALSE]}
    /\ DeleteFormImages
    /\ screen' = "detail"
    /\ UNCHANGED <<dialog, row, mem, copy, disk, typeSave, imgs, upls, server, ghosts>>

\* RESULT_CANCELED from any of them.  The painted file stays on the disk.
Cancel ==
    /\ screen \in {"type", "company", "sample", "confirmDelete", "sign"}
    /\ screen' = "detail" /\ copy' = NoCopy
    /\ UNCHANGED <<dialog, row, mem, samples, disk, jobVars, server, ghosts>>

(***************************************************************************)
(* Signing.                                                                *)
(***************************************************************************)

ShowSignature ==
    /\ Tap /\ Editable(mem) /\ mem.client # NoClient /\ mem.stype # NoType
    /\ screen' = "sign"
    /\ copy' = [dan |-> mem, ids |-> mem.sigs]
    /\ UNCHANGED <<dialog, row, mem, samples, disk, jobVars, server, counts>>

\* PaintActivity overwrites the one file of this kind and inserts an AppFiles row.
Paint(t) ==
    /\ screen = "sign" /\ paints < MaxPaints
    /\ paints' = paints + 1
    /\ disk' = [disk EXCEPT !.sig[t] = paints + 1]
    /\ copy' = [copy EXCEPT !.ids[t] = paints + 1]
    /\ UNCHANGED <<screen, dialog, row, mem, samples, jobVars, server, taps, crashes, lost>>

\* SignatureActivity.save writes its whole copy, with FileIDs rebuilt from the
\* signature ids alone.
SignSave ==
    /\ screen = "sign" /\ \E t \in Required : copy.ids[t] # 0
    /\ LET d == [copy.dan EXCEPT !.sigs = copy.ids, !.images = {}] IN
         /\ copy' = [copy EXCEPT !.dan = d]
         /\ row' = IF row = NoRow THEN NoRow ELSE [d EXCEPT !.id = TRUE]
    /\ screen' = "signed"
    /\ UNCHANGED <<dialog, mem, samples, disk, jobVars, server, ghosts>>

\* RESULT_OK: refresh() reads the row back into mem.
SignResult ==
    /\ screen = "signed" /\ row # NoRow
    /\ mem' = row
    /\ DeleteFormImages
    /\ screen' = "detail" /\ copy' = NoCopy
    /\ UNCHANGED <<dialog, row, samples, disk, typeSave, imgs, upls, server, ghosts>>

(***************************************************************************)
(* deleteFormImages on an io thread.                                       *)
(***************************************************************************)

StripRead(j) ==
    /\ strips[j].pc = "queued"
    /\ strips' = [strips EXCEPT ![j] =
                     IF FilesEmpty(mem) \/ Malformed(mem) THEN IdleStrip
                     ELSE [pc |-> "read", sigs |-> mem.sigs, images |-> mem.images]]
    /\ UNCHANGED <<uiVars, row, mem, samples, disk, typeSave, imgs, upls, server, ghosts>>

\* An id whose file is gone or altered is dropped; a form image that is neither ...
StripCheck(j) ==
    /\ strips[j].pc = "read"
    /\ strips' = [strips EXCEPT ![j] =
                     [pc |-> IF disk.img \in @.images THEN "delete" ELSE "save",
                      sigs |-> Intact(@.sigs), images |-> {}]]
    /\ UNCHANGED <<uiVars, row, mem, samples, disk, typeSave, imgs, upls, server, ghosts>>

\* ... is deleted, whatever the file holds by then.
StripDelete(j) ==
    /\ strips[j].pc = "delete"
    /\ disk' = [disk EXCEPT !.img = NoImage]
    /\ strips' = [strips EXCEPT ![j].pc = "save"]
    /\ UNCHANGED <<uiVars, row, mem, samples, typeSave, imgs, upls, server, ghosts>>

StripSave(j) ==
    /\ strips[j].pc = "save"
    /\ Store([mem EXCEPT !.sigs = strips[j].sigs, !.images = {}])
    /\ strips' = [strips EXCEPT ![j] = IdleStrip]
    /\ UNCHANGED <<uiVars, samples, disk, typeSave, imgs, upls, server, ghosts>>

(***************************************************************************)
(* createImage.  Nothing but the dialog keeps it from running twice.       *)
(***************************************************************************)

\* The subscriber's onStart drops image ids (and broken signatures) at once.
CreateImage(k) ==
    /\ Tap /\ mem.id /\ Editable(mem) /\ ~Malformed(mem)
    /\ Slot(imgs, k)
    /\ dialog' = TRUE
    /\ imgs' = [imgs EXCEPT ![k] = [IdleImg EXCEPT !.pc = "samples", !.here = TRUE]]
    /\ IF FilesEmpty(mem)
         THEN UNCHANGED <<mem, row>>
         ELSE Store([mem EXCEPT !.sigs = Intact(mem.sigs), !.images = {}])
    /\ UNCHANGED <<screen, copy, samples, disk, typeSave, strips, upls, server, counts>>

ImgFail(k) ==
    /\ imgs' = [imgs EXCEPT ![k] = IdleImg] /\ DismissProgressDialog(imgs[k].here)
    /\ UNCHANGED <<row, mem>>

\* getXxxViewList: every sample finished, at least one.
ImgSamples(k) ==
    /\ imgs[k].pc = "samples"
    /\ IF samples.ready
         THEN /\ imgs' = [imgs EXCEPT ![k] = [@ EXCEPT !.pc = "signs", !.val = samples.val]]
              /\ UNCHANGED <<dialog, row, mem>>
         ELSE ImgFail(k)
    /\ UNCHANGED <<screen, copy, samples, disk, typeSave, strips, upls, server, ghosts>>

\* getSignatureInfo on io: three ids at least are read from FileIDs, ...
ImgSigns(k) ==
    /\ imgs[k].pc = "signs"
    /\ IF ~Malformed(mem) /\ FileCount(mem) >= Cardinality(Required)
         THEN /\ imgs' = [imgs EXCEPT ![k] = [@ EXCEPT !.pc = "check",
                                        !.sigs = mem.sigs, !.images = mem.images]]
              /\ UNCHANGED <<dialog, row, mem>>
         ELSE ImgFail(k)
    /\ UNCHANGED <<screen, copy, samples, disk, typeSave, strips, upls, server, ghosts>>

\* ... every file is checked and decoded, and the ids read are put back in FileIDs ...
ImgCheck(k) ==
    /\ imgs[k].pc = "check"
    /\ IF FilesChanged(imgs[k])
         THEN ImgFail(k)
         ELSE /\ mem' = [mem EXCEPT !.sigs = imgs[k].sigs, !.images = imgs[k].images]
              /\ imgs' = [imgs EXCEPT ![k] = [@ EXCEPT !.pc = "bind"]]
              /\ UNCHANGED <<dialog, row>>
    /\ UNCHANGED <<screen, copy, samples, disk, typeSave, strips, upls, server, ghosts>>

\* ... and on the main thread the page is bound to the signatures and the form.
ImgBind(k) ==
    /\ imgs[k].pc = "bind"
    /\ IF SignaturesMissing(imgs[k].sigs)
         THEN ImgFail(k)
         ELSE /\ imgs' = [imgs EXCEPT ![k] = [@ EXCEPT !.pc = "write",
                            !.pic = [samples |-> imgs[k].val, client |-> mem.client,
                                     stype |-> mem.stype, sigs |-> imgs[k].sigs]]]
              /\ UNCHANGED <<dialog, row, mem>>
    /\ UNCHANGED <<screen, copy, samples, disk, typeSave, strips, upls, server, ghosts>>

\* saveBitmapToFile deletes the file, creates it empty and opens it, ...
ImgWrite(k) ==
    /\ imgs[k].pc = "write"
    /\ \/ /\ disk' = [disk EXCEPT !.img = CutOff]
          /\ imgs' = [imgs EXCEPT ![k] = [@ EXCEPT !.pc = "fill"]]
          /\ UNCHANGED <<dialog, row, mem>>
       \/ /\ \E left \in {disk.img, NoImage, CutOff} : disk' = [disk EXCEPT !.img = left]
          /\ ImgFail(k)
    /\ UNCHANGED <<screen, copy, samples, typeSave, strips, upls, server, ghosts>>

\* ... then compresses the page into the file it opened: a file deleted since stays
\* deleted, one that another rendering opened or replaced may be left as it is or mixed,
\* and whether compress succeeded is not looked at.
ImgFill(k) ==
    /\ imgs[k].pc = "fill"
    /\ \E f \in {imgs[k].pic} \cup
                 (IF BackDismisses \/ DiskMayFill THEN {disk.img, CutOff} ELSE {}) :
          disk' = [disk EXCEPT !.img = IF @ = NoImage THEN NoImage ELSE f]
    /\ imgs' = [imgs EXCEPT ![k] = [@ EXCEPT !.pc = "done"]]
    /\ UNCHANGED <<uiVars, row, mem, samples, typeSave, strips, upls, server, ghosts>>

\* onCompleted: an id for the file joins FileIDs, and the status is set whatever it was.
ImgDone(k) ==
    /\ imgs[k].pc = "done"
    /\ Store([mem EXCEPT !.images = @ \cup {IF disk.img = NoImage THEN NoDigest ELSE disk.img},
                         !.status = "open"])
    /\ imgs' = [imgs EXCEPT ![k] = IdleImg] /\ DismissProgressDialog(imgs[k].here)
    /\ UNCHANGED <<screen, copy, samples, disk, typeSave, strips, upls, server, ghosts>>

(***************************************************************************)
(* Archiving: the client unit and the files go up in parallel, then the    *)
(* form itself.                                                            *)
(***************************************************************************)

UploadArchives(u) ==
    /\ Tap /\ mem.id
    /\ mem.images # {} /\ ~Malformed(mem) /\ mem.images \subseteq {disk.img}
    /\ ~AlreadyArchived(mem)
    /\ Slot(upls, u)
    /\ dialog' = TRUE
    /\ upls' = [upls EXCEPT ![u] = [IdleUpl EXCEPT !.pc = "parts", !.here = TRUE,
                                        !.sigs = mem.sigs, !.images = mem.images]]
    /\ UNCHANGED <<screen, row, mem, copy, samples, disk, typeSave, strips, imgs, server, counts>>

\* onError of whichever part fails ends the whole upload.
UplFail(u) ==
    /\ upls' = [upls EXCEPT ![u] = IdleUpl] /\ DismissProgressDialog(upls[u].here)
    /\ UNCHANGED <<row, mem>>

\* uploadClientUnit, then the samples are read.
UplClient(u) ==
    /\ upls[u].pc = "parts" /\ ~upls[u].clientDone
    /\ \/ /\ samples.val # NoSamples
          /\ upls' = [upls EXCEPT ![u] = [@ EXCEPT !.clientDone = TRUE, !.val = samples.val]]
          /\ UNCHANGED <<dialog, row, mem>>
       \/ UplFail(u)
    /\ UNCHANGED <<screen, copy, samples, disk, typeSave, strips, imgs, server, ghosts>>

\* FormRepository.uploadArchives: check every file named when the button was tapped, and
\* look for the remote image of an earlier attempt; ...
UplCheck(u) ==
    /\ upls[u].pc = "parts" /\ upls[u].files = "check"
    /\ IF FilesChanged(upls[u])
         THEN UplFail(u)
         ELSE /\ upls' = [upls EXCEPT ![u] =
                            [@ EXCEPT !.files = IF mem.imageId = 0 THEN "send" ELSE "id",
                                      !.imageId = mem.imageId]]
              /\ UNCHANGED <<dialog, row, mem>>
    /\ UNCHANGED <<screen, copy, samples, disk, typeSave, strips, imgs, server, ghosts>>

\* ... without one, send the image: the body is read from the file by now, and a file
\* that is gone fails.  The answer may be lost.  Mutant: a missing file is sent as an empty one.
FileToSend_Any == IF disk.img = NoImage THEN {CutOff} ELSE {disk.img}
FileToSend == {disk.img} \ {NoImage}

UplSend(u) ==
    /\ upls[u].pc = "parts" /\ upls[u].files = "send"
    /\ \/ \E f \in FileToSend :
             /\ Len(server.images) < MaxPosts
             /\ server' = [server EXCEPT !.images = Append(@, f)]
             /\ \/ /\ upls' = [upls EXCEPT ![u] = [@ EXCEPT !.files = "id",
                                                        !.imageId = Len(server.images) + 1]]
                   /\ UNCHANGED <<dialog, row, mem>>
                \/ UplFail(u)
       \/ UplFail(u) /\ UNCHANGED server
    /\ UNCHANGED <<screen, copy, samples, disk, typeSave, strips, imgs, ghosts>>

\* The id found or answered is kept in the form.
UplImageId(u) ==
    /\ upls[u].pc = "parts" /\ upls[u].files = "id"
    /\ Store([mem EXCEPT !.imageId = upls[u].imageId])
    /\ upls' = [upls EXCEPT ![u].files = "done"]
    /\ UNCHANGED <<uiVars, samples, disk, typeSave, strips, imgs, server, ghosts>>

\* The form goes when both parts are done (combineLatest).  Mutants: it waits for one of them.
UplReady_FilesOnly(u) == u.pc = "parts" /\ u.files = "done"
UplReady_ClientOnly(u) == u.pc = "parts" /\ u.clientDone
UplReady(u) == u.pc = "parts" /\ u.clientDone /\ u.files = "done"

\* The FormBean is built from the form object and POSTed.
UplPost(u) ==
    /\ UplReady(upls[u])
    /\ \/ /\ Len(server.forms) < MaxPosts
          /\ server' = [server EXCEPT !.forms =
                           Append(@, [samples |-> upls[u].val, client |-> mem.client,
                                      stype |-> mem.stype, imageId |-> mem.imageId])]
          /\ upls' = [upls EXCEPT ![u] = [@ EXCEPT !.pc = "posted",
                                              !.remote = Len(server.forms) + 1]]
          /\ UNCHANGED <<dialog, row, mem>>
       \/ UplFail(u) /\ UNCHANGED server
    /\ UNCHANGED <<screen, copy, samples, disk, typeSave, strips, imgs, ghosts>>

\* The answer has come.  Mutant: the form is marked when it is about to be sent.
Answered_Early(u) == u.pc = "parts" /\ u.files = "done"
Answered(u) == u.pc = "posted"

\* The map step on io sets the status of the form, ...
UplStatus(u) ==
    /\ Answered(upls[u])
    /\ mem' = [mem EXCEPT !.status = "archived"]
    /\ upls' = [upls EXCEPT ![u].pc = "status"]
    /\ UNCHANGED <<uiVars, row, samples, disk, typeSave, strips, imgs, server, ghosts>>

\* ... then its remote id, ...
UplRemote(u) ==
    /\ upls[u].pc = "status"
    /\ mem' = [mem EXCEPT !.remoteId = upls[u].remote]
    /\ upls' = [upls EXCEPT ![u].pc = "remote"]
    /\ UNCHANGED <<uiVars, row, samples, disk, typeSave, strips, imgs, server, ghosts>>

\* ... and saves it.
UplSave(u) ==
    /\ upls[u].pc = "remote"
    /\ Store(mem)
    /\ upls' = [upls EXCEPT ![u].pc = "saved"]
    /\ UNCHANGED <<uiVars, samples, disk, typeSave, strips, imgs, server, ghosts>>

\* onNext on the main thread sets the status once more.
UplDone(u) ==
    /\ upls[u].pc = "saved"
    /\ mem' = [mem EXCEPT !.status = "archived"]
    /\ upls' = [upls EXCEPT ![u] = IdleUpl] /\ DismissProgressDialog(upls[u].here)
    /\ UNCHANGED <<screen, row, copy, samples, disk, typeSave, strips, imgs, server, ghosts>>

\* The form was accepted but the answer never arrives.
UplLost(u) ==
    /\ upls[u].pc = "posted"
    /\ UplFail(u) /\ lost' = lost + 1
    /\ UNCHANGED <<screen, copy, samples, disk, typeSave, strips, imgs, server, taps, paints, crashes>>

(***************************************************************************)
(* Leaving, clearing, reopening, dying.                                    *)
(***************************************************************************)

\* Back cancels a dialog that never called setCancelable(false); its task runs on.
BackOnDialog ==
    /\ BackDismisses /\ dialog
    /\ dialog' = FALSE
    /\ UNCHANGED <<screen, row, mem, copy, samples, disk, jobVars, server, ghosts>>

\* The tasks outlive the activity; the dialog they would close is gone with it.
Leave ==
    /\ screen' = "closed"
    /\ imgs' = [k \in ImgJobs |-> [imgs[k] EXCEPT !.here = FALSE]]
    /\ upls' = [u \in UplJobs |-> [upls[u] EXCEPT !.here = FALSE]]

\* onDestroy deletes a form that never got a client.
Close ==
    /\ Tap /\ Leave
    /\ row' = IF mem.client = NoClient /\ mem.id THEN NoRow ELSE row
    /\ UNCHANGED <<dialog, mem, copy, samples, disk, typeSave, strips, server, counts>>

\* tab_clear_form: no check of the status.
ClearForm ==
    /\ Tap /\ mem.id /\ Leave
    /\ row' = NoRow
    /\ UNCHANGED <<dialog, mem, copy, samples, disk, typeSave, strips, server, counts>>

Busy == typeSave \/ Behind \/ \E j \in StripJobs : strips[j].pc # "idle"

\* FormListActivity shows rows with a client; loadDeep returns the object a task
\* still holds, or else perhaps a fresh one.
Open ==
    /\ screen = "closed" /\ row # NoRow /\ row.client # NoClient
    /\ screen' = "detail"
    /\ mem' \in (IF mem.id THEN {mem} ELSE {}) \cup (IF Busy THEN {} ELSE {row})
    /\ UNCHANGED <<dialog, row, copy, samples, disk, jobVars, server, ghosts>>

\* The server has the form and the tablet has not yet saved the answer.
InFlight(u) == upls[u].pc \in {"posted", "status", "remote"}

\* The process dies: memory and tasks are gone, rows, files and the server stay.
Die ==
    /\ crashes < MaxCrashes
    /\ crashes' = crashes + 1
    /\ lost' = lost + Cardinality({u \in UplJobs : InFlight(u)})
    /\ screen' = "closed" /\ dialog' = FALSE /\ mem' = Blank /\ copy' = NoCopy
    /\ typeSave' = FALSE /\ strips' = [j \in StripJobs |-> IdleStrip]
    /\ imgs' = [k \in ImgJobs |-> IdleImg] /\ upls' = [u \in UplJobs |-> IdleUpl]
    /\ UNCHANGED <<row, samples, disk, server, taps, paints>>

\* Android kills the process, ...
Killed == Die

\* ... or getFormImageList (archive, print) finds a listed image gone or an id that is
\* no number and throws on the main thread; so does createImage's onStart on the latter.
ArchiveThrows ==
    /\ Touchable /\ mem.id
    /\ Malformed(mem) \/ ~(mem.images \subseteq {disk.img})
    /\ Die

(***************************************************************************)
(* Specification.                                                          *)
(***************************************************************************)
UiStep ==
    \/ ShowAddSampleType \/ SampleTypeResult \/ ShowCompany \/ CompanyResult
    \/ ShowSampling \/ SampleSave \/ SampleResult \/ LongClickSample \/ DeleteSample
    \/ Cancel \/ ShowSignature \/ (\E t \in SigTypes : Paint(t)) \/ SignSave \/ SignResult
    \/ BackOnDialog \/ Close \/ ClearForm \/ Open
    \/ (\E k \in ImgJobs : CreateImage(k)) \/ (\E u \in UplJobs : UploadArchives(u))

StripStep(j) == StripRead(j) \/ StripCheck(j) \/ StripDelete(j) \/ StripSave(j)
ImgStep(k) ==
    \/ ImgSamples(k) \/ ImgSigns(k) \/ ImgCheck(k) \/ ImgBind(k)
    \/ ImgWrite(k) \/ ImgFill(k) \/ ImgDone(k)
UplClientStep(u) == UplClient(u)
UplFilesStep(u) == UplCheck(u) \/ UplSend(u) \/ UplImageId(u)
UplFormStep(u) ==
    UplPost(u) \/ UplStatus(u) \/ UplRemote(u) \/ UplSave(u) \/ UplDone(u) \/ UplLost(u)

Next ==
    \/ UiStep
    \/ TypeSave
    \/ \E j \in StripJobs : StripStep(j)
    \/ \E k \in ImgJobs : ImgStep(k)
    \/ \E u \in UplJobs : UplClientStep(u) \/ UplFilesStep(u) \/ UplFormStep(u)
    \/ Killed \/ ArchiveThrows

\* The io scheduler runs every task it was given, and a request is answered or
\* times out; the user and the failures owe nothing.
Fairness ==
    /\ WF_vars(TypeSave)
    /\ \A j \in StripJobs : WF_vars(StripStep(j))
    /\ \A k \in ImgJobs : WF_vars(ImgStep(k))
    /\ \A u \in UplJobs :
         WF_vars(UplClientStep(u)) /\ WF_vars(UplFilesStep(u)) /\ WF_vars(UplFormStep(u))

Spec == Init /\ [][Next]_vars /\ Fairness

(***************************************************************************)
(* Properties.                                                             *)
(***************************************************************************)

\* A form that says it is archived, in the row or in any copy in memory, was accepted by
\* the server, and its QR code and e-mail button name one the server holds if they name
\* any: no clean-up, second upload, reopening or death leaves the status without the form.
ArchivedOnServer ==
    LET known(m) == m.status = "archived" =>
            server.forms # <<>> /\ m.remoteId \in 0..Len(server.forms) IN
    /\ known(mem)
    /\ row # NoRow => known(row)
    /\ copy # NoCopy => known(copy.dan)

\* No picture reaches the server without every required signature on it, whatever was
\* tapped while it was rendered, stripped and sent; and none that is cut off, though the
\* file is read only after it was checked, unless Back let a rendering run over the upload
\* or the storage filled up while the picture was written.
ServerImagesSigned ==
    \A k \in 1..Len(server.images) :
        IF server.images[k] = CutOff
          THEN BackDismisses \/ DiskMayFill
          ELSE \A t \in Required : server.images[k].sigs[t] # 0

\* A form is archived with its image ("请先生成表单图片！"): every form the server holds
\* names an image the server holds.
FormsHaveImage ==
    \A i \in 1..Len(server.forms) : server.forms[i].imageId \in 1..Len(server.images)

\* An archived form cannot be modified (createImage: "已归档不能修改！"): once archived,
\* the row keeps its status, remote form, client and stage, and the samples stay.
ArchiveFinal ==
    [][row # NoRow /\ row.status = "archived" =>
         /\ samples' = samples
         /\ row' # NoRow =>
              /\ row'.status = "archived" /\ row.remoteId \in {0, row'.remoteId}
              /\ row'.client = row.client /\ row'.stype = row.stype]_vars

\* What the tablet keeps as archived is what the server was sent.  A row may be archived
\* without naming the server's form only while the answer is being recorded, or when a
\* death cut that off after a clean-up had saved the status.
ArchivedMatchesServer ==
    row # NoRow /\ row.status = "archived" =>
        /\ \E i \in 1..Len(server.forms) :
             /\ row.remoteId \in {0, i}
             /\ server.forms[i].samples = samples.val
             /\ server.forms[i].client = row.client /\ server.forms[i].stype = row.stype
        /\ row.remoteId = 0 => lost > 0 \/ \E u \in UplJobs : upls[u].pc \in {"status", "remote"}

\* Uploading the same form twice takes a lost answer: the server never holds more
\* forms than one and the answers nobody read.
DuplicateOnlyAfterLoss == Len(server.forms) <= 1 + lost

\* Once deleteFormImages has run, an image the form could still be archived with shows
\* its samples and client, however many clean-ups overlapped (a process death may lose
\* one, and a form whose FileIDs no longer parse cannot be archived).
FreshImage ==
    (crashes = 0 /\ screen = "detail" /\ (\A k \in ImgJobs : imgs[k].pc = "idle")
       /\ \A j \in StripJobs : strips[j].pc = "idle")
      => (mem.images = {disk.img} /\ disk.img # CutOff /\ ~Malformed(mem) =>
            disk.img.samples = samples.val /\ disk.img.client = mem.client)

\* The progress dialog goes away: no chain of io steps leaves the screen locked, failed
\* writes and renderings or uploads started over one another included.
DialogEnds == dialog ~> ~dialog

=============================================================================
