# A TLA+ model of the sampling tablet application

The repository is an Android application (`app/`, Java, RxJava, greenDAO, Retrofit) with
which inspectors fill in sampling forms (抽样单) on a tablet, collect signatures on the
screen, render the form as an image, and archive everything at a server. `printer/` holds
the printer vendor's samples and the C code that turns a picture into what is printed: a
copy of libjpeg 8c, by far the largest program of the repository.
`slideDateTimePicker/` is a widget library. `S/` below is
`src/app/src/main/java/com/cdv/sampling/`, `J/` is
`src/printer/src/main/jniSrc/jpeg-8c/`.

The models are in plain TLA+, checked with TLC; the theorems are proved with TLAPS.

    cd tla
    tlc -workers 2 -config FormWaits.cfg MCFormArchive.tla     # one run
    tlapm FormArchiveProofs.tla                                # one module of proofs

`PROJECT.json` lists components, runs, mutants, hazards and theorems, and maps every
definition to the lines it stands for.

## 1. Inventory

### The application

| Component | State | Operations | Talks to |
|---|---|---|---|
| **Form editing, signing, archiving**: `FormDetailActivity`, `SignatureActivity`, `PaintActivity`, `AddSamplingActivity`, `FormRepository` | row `JIAN_CE_DAN`; the object the detail screen and its io tasks share; the serialized copy the signature screen works on; sample rows; `AppFiles` rows; files in the form's directory | choose client and stage, edit and delete samples, paint and save signatures, `deleteFormImages`, `createImage`, `uploadArchives`, clear, leave, reopen | results of activities, io threads, server (unit, image, form) |
| **Batch upload and clearing**: `DataManagerActivity`, `DeleteDataDialog` | forms' rows; which phase a batch is in and the list it queried | `uploadAllForm` (three phases), `clearAllData` | `FormRepository`, database |
| **Client units**: `SyncDataRepository`, `AddCompanyActivity`, `SearchCompanyActivity`, `FormRepository.uploadClientUnit` | table `CLIENT_UNIT` with `IsInvalidate` (0: to be pushed) and `LastModifyTime`; no stored watermark | pull pages, push, edit, add | server shared with other tablets |
| **Session**: `UserRepository`, `HttpService`, `OperatorRequestMap`, `SamplingUserStorage`, `LoginActivity`, `MainActivity` | token and user, in memory and in preferences; the database of the user | login, logout, token from the first answer, logout on 403 | every request; local broadcast |
| **Dictionaries**: `SyncDataRepository` (five lists), `AddAppTypeActivity`, `AppTypeListActivity` | table `APP_TYPES` | fetch and insert what is missing; add by hand | database, server |
| **Sample editors**: `DrugFragment`, `QualitySamplingFragment`, `SampleVerificationFragment` | one sample row, the next sample's code | check, save, number the next sample | form detail |
| User management, printing, widgets, image loading, utilities, storage | presentation, preferences | one request each, or none | |

What makes them hard:

* **Interleaving.** Screens run on the main thread and start tasks on `Schedulers.io()`;
  several tasks read and write the same object and row, without a lock or a transaction.
  `save()` writes all columns, so the last writer wins with everything it had read before.
* **The progress dialog is the only lock.** `BaseActivity.showProgressDialog` is modal,
  but never calls `setCancelable(false)`: Back dismisses it and the task goes on. The
  models have a constant `BackDismisses`; with `FALSE` they say what holds for a user who
  waits, with `TRUE` what holds on the device.
* **Partial failure.** An upload is a chain of requests and a row write; a batch is many
  chains where one error unsubscribes the rest; the process may be killed anywhere.
* **Ordering.** A list is read and acted on later (clearing, pushing); answers come when
  the rows have changed; the activity has closed before its queued save runs.

What makes them correct: a form is archived only with the server's consent, once, with
its image and the required signatures, and stays as it was sent; the batch's success
message is true; clearing deletes what it offers to delete; a row that says it is the
server's is; edits are not lost; every dialog ends.

### libjpeg

| Component | State | Operations |
|---|---|---|
| **DCT and quantization**: `jidctint.c`, `jidctfst.c`, `jfdctint.c`, `jfdctfst.c`, `jddctmgr.c`, `jcdctmgr.c` | none beside the tables | one routine per block size, 1x1 to 16x16 and N x 2N, both ways |
| **Lossless transformation**: `transupp.c`, as `jpegtran.c` calls it | block arrays, critical parameters, saved markers | request, adjust, transform, copy markers; eight transforms, trim, perfect, crop, grey |
| **Memory manager**: `jmemmgr.c` over `jmemansi.c` | two pools, virtual arrays, temporary files | allocate, request, realize, access, free a pool, destruct |
| **Entropy coding**: `jchuff.c`, `jdhuff.c`, `jcarith.c`, `jdarith.c`, restarts of `jdmarker.c` | bit buffers, code register, statistics, EOB runs, restart counters | start a pass, one MCU, finish; resynchronise |
| Colour, sampling, colour quantization, control, files, tools | buffers | arithmetic on one row at a time, and I/O |

What makes it hard is not concurrency but state that lives across calls. A decoder that
runs out of input inside an MCU returns and does the MCU again, and must leave nothing
behind the second attempt would see. Restart markers may be missing or doubled, and the
decoder decides from one marker where it is. A carry leaves the arithmetic coder's register
after the byte it must be added to is gone. A virtual array is one moving window over rows
that are partly in a file, under a memory limit, with every allocation a possible error
exit that the application has to clean up after. Partial blocks at the edge cannot be
mirrored, in eight transforms that each treat the edge differently. And the 32 integer DCT
routines have constants of their own, where one term scaled wrongly looks like noise.

What makes it correct: rows read are the rows written; what was coded is decoded, and
damage stays between two restarts; a transform puts every sample where geometry says; a
sample is the DCT's value by its definition.

## 2. Modules

| Module | Content |
|---|---|
| `FormArchive` | the life of one form, with its clean-ups, renderings, uploads and process deaths |
| `Archiving` | the abstract promise about every form: accepted before archived, never sent again |
| `BatchUpload` | batches over all forms, clearing beside them; implements `Archiving` |
| `ClientSync` | synchronisation of the client units with a shared server |
| `JpegFixed`, `JpegIdct`, `JpegFdct`, `JpegFast` | fixed-point arithmetic and the kernels of the DCT routines, as operators |
| `JpegDct` | a block through the two DCT managers and back |
| `JpegTransform` | runs of jpegtran on pictures of blocks |
| `VirtualArrays` | the abstract promise about arrays: rows are kept, one strip at a time |
| `JpegMemory` | the memory manager; implements `VirtualArrays` |
| `JpegLoops` | loops and long sequences cut in halves, so that TLC needs no deep recursion |
| `JpegScan` | MCUs of a scan, what a decoder may know after some scans, restart markers and the resynchronisation |
| `JpegHuffTables`, `JpegHuffman` | tables from counts and codes from tables; the Huffman encoder and decoder |
| `JpegArithRegisters`, `JpegArithCoder`, `JpegArith` | the arithmetic coder's registers; its decisions in sequence; the values as decisions |
| `JpegEntropy` | an image coded by either coder, sent with faults, and decoded |
| `FormArchiveProofs`, `FormFinalProofs`, `FormImageProofs`, `BatchUploadProofs`, `ClientSyncProofs`, `JpegArithProofs`, `JpegTransformProofs`, `JpegMemoryProofs` | theorems and proofs |
| `MC*` | sets of inputs and symmetry for TLC; the instances are the `.cfg` files |

The kernels, tables and coders of libjpeg are pure computations between suspensions and are
operators on records; the modules that compose them (`JpegDct`, `JpegTransform`,
`JpegMemory`, `JpegEntropy`) have the variables and actions.

### FormArchive

One form, because forms share nothing but the dictionaries and the units (two forms of the
same minute share a directory; see section 6). State and code:

* `row` is the `JIAN_CE_DAN` row, `mem` is `FormDetailActivity.jianCeDan`, which greenDAO's
  identity map also hands to the io tasks, `copy` is the object `SignatureActivity` got
  through an intent, with the signature ids on its screen. `Store` is `save()`.
* `FileIDs` is a string of ids. The model keeps what it denotes: which version of each
  signature (`sigs`), and the form images (`images`), each told by what the file showed when
  its MD5 was taken; `Malformed` is the string `",id"` that `createImage` leaves when the
  clean-up has emptied `FileIDs`.
* `disk` holds the files. The path of a signature is fixed by form and kind, so painting
  again overwrites the file (`Paint`), and the MD5 comparison of the code is a comparison
  of versions (`Intact`). The path of the form image is fixed as well: all renderings write
  one file, all clean-ups delete it, and uploads read it.
* `strips` are the running `deleteFormImages` tasks: read the ids, check the files, delete
  the image, save. The deletion is a step of its own: what it deletes may not be what was
  checked.
* `imgs` are the running `createImage` tasks: samples; the ids of the signatures; their check,
  with the ids put back in `FileIDs`; the binding on the main thread; the file; the new id.
  `saveBitmapToFile` is two steps: `ImgWrite` deletes the file and opens an empty one
  (`CutOff`), or throws with the old file, none or an empty one left; `ImgFill` compresses the page
  into it. Nothing looks at what `compress` returns, so with the storage full
  (`DiskMayFill`) the file stays cut off, and `ImgDone` stores its MD5 all the same. When two
  renderings write at once, what the file holds is one of the pages, the older content or
  a mixture (`CutOff`); a file deleted in between stays deleted, whatever is written.
* `upls` are the running uploads: unit, and beside it the files (`UplCheck` compares the MD5s,
  `UplSend` reads the file when the request goes out, `UplImageId` stores the answer); then
  the form (`UplPost`), and the answer in the code's order: status, remote id, save, and
  the status once more on the main thread (`UplStatus`, `UplRemote`, `UplSave`, `UplDone`).
  Any part may fail (`UplFail`), an answer be lost (`UplLost`).
* Nothing but the dialog keeps a second rendering or upload from starting. Tasks live in
  slots, and a tap takes the first free one (`Slot`); with Back a task may start over others.
  `here` tells whether the activity that started it is still there: such a task closes
  whatever dialog shows, as `mProgressDialog` is one field. `MaxTaps` bounds what is tapped while a
  rendering or an upload runs behind the screen; without Back it is never used.
* `typeSave` is the queued `rx().save` of the sampling stage, which may run after
  `onDestroy` has deleted the row.
* `Killed` is Android killing the process; `ArchiveThrows` is the crash on the main thread
  when `getFormImageList` meets an image whose file is gone or an id that is no number.
* `server` is what the server accepted: images and forms, in order.

The three kinds of form differ in the tables that hold their samples and in what is
printed; they share this code path and the model.

### BatchUpload and Archiving

`uploadAllForm` uploads the drug forms, in `onCompleted` the quality forms, in
`onCompleted` what should be the third kind, but that query asks for the quality type again
(`DataManagerActivity.java:234`). The model keeps each phase's own query (`KindOf`, `Query`);
verification forms, which no screen makes at this commit and no phase asks for, are left out. `flatMap` starts the forms one
after the other and leaves them running at once (`StartForm`, `Step`); the first error
unsubscribes all others, wherever they are (`Fail`, `Unsubscribe`): an unsubscribed upload
that has been posted leaves a form at the server and an open row here. `StartThrows` is a
form without client; a form without image fails in its first step, unless an earlier attempt
has left it the id of an image that the server has (`Finished`). Status `INIT` and
`PRINTED` are the same number in the code, so unfinished forms are queried too.
`ClearRead` and `ClearDelete` are the two halves of `clearAllData`, which shows no dialog.

`Archiving` is what all this must come to: `Accept`, `Record`, `Remove`. `BatchUpload`
implements it under `status <- rowStatus` (`KeepsPromise`).

### ClientSync

A unit is its name (unique in the table); its content is the time it was written. The
watermark is computed, as in the code, from the newest row if that row is clean, else it
is the year 2000. `PullAnswer`/`PullSave` repeat until a short page; then `PushRead`,
`PushAnswer`, `PushSave`. `SyncFails` may come at any point, also after the server has
acted: that is the lost answer. `OpenUnit`/`SaveUnit` work on the copy that was passed to
`AddCompanyActivity`, whose missing id overwrites one the row has got since. `UploadClientUnit`
is the first request of a form's upload: request and save are one step here, taken while no
sync shows its dialog, and the answer is saved as it comes, since the code does not look at the
error a unit may carry. Stamps are distinct, where the server's times have a resolution of
one second; two writes in one second are the equal times that a page is assumed not to cut.

The server is not in the repository. What the model assumes of it, from how the code uses
it: it stamps a unit with its own clock when it accepts it, hands out the oldest page of
what is newer than the watermark, does not cut a page between equal times, gives no error
for what it accepts, refuses a new unit of a name it has, and may refuse others.

### JpegDct and the kernels

Every accurate routine is two passes of one-dimensional kernels, the same N-point kernel
wherever N occurs; what differs is the scaling of the pass. `JpegIdct` and `JpegFdct` have
one kernel per N with the code's constants (`FIX`) and the passes that scale and round it.
`JpegDct` takes a block of quantized coefficients through `inverse_DCT` to samples and
through `forward_DCT` back with the same quantization table, one step per pass; the rows of
the forward routines of 12 and 14 samples are translated as they stand, mistakes included.

### JpegTransform

A picture is, per component, a grid of blocks. The transforms only move blocks, transpose
them and change signs of odd rows and columns, so a block is where it was in the original
and how it has been turned, and a sample's place is computed from that. The steps are the
calls of `jpegtran.c`: `ReadHeader`, `Request` (`jtransform_request_workspace`, with its
test for `perfect`, trims and crop), `Adjust` (`jtransform_adjust_parameters`), `Execute`.
`BlockOf` is the routine `jtransform_execute_transform` picks, `Resampled` the sampling factors
`jtransform_adjust_parameters` leaves. Markers are saved and copied with the rules of
`jcopy_markers_execute`, behind the one `jpeg_set_colorspace` has the library write
(`OwnMarkers`); Exif dimensions are changed in the list of the source, in the bytes of the TIFF
structure and in either byte order (`adjust_exif_parameters`).

Assumed of the constants is what the code has checked before: pictures with samples, sides of
up to `JPEG_MAX_DIMENSION` and sampling factors of 1 to 4 (`initial_setup`), crop values as
`jtransform_parse_crop_spec` makes them. Of the markers of a file it is assumed that JFIF and
Adobe are there once at most, and that the entries an Exif marker has for the size lie neither in its
header nor in IFD0 (`SoundMarkers`). That the code does not check: it copies what it finds and
rewrites entries that overlap the directory it has read them through; the result for such a
file is outside of `MarkersInOrder`.

### VirtualArrays and JpegMemory

One action per method of `jpeg_memory_mgr`. `m` holds the pools with what is used and left of
each block, the arrays with strip buffer, `cur_start_row`, `first_undef_row` and `dirty`, the
space counted and the space malloc gave, and the open files. `malloc` fails when `HeapSize` is
used up; a file is opened or refused. A failed call is `error_exit`, after which the caller can
only abort (free the IMAGE pool) or destroy the object. The unit of space is abstract, with the
code's ratios: a chunk limit, headers, alignment, the slop of the first and later pools.

`VirtualArrays` is the comment "About virtual array management": every array keeps all its
rows, one strip at a time is accessible, and a strip reads what was written. `ArraysAreWhole`
is `JpegMemory` under the mapping of an array to its buffer over its file. Rows never
written read as zeroes only if the array was requested pre-zeroed (`NoNoiseInStrips`).

The model is written to be proved about. The loops of the code are recursive functions
(`SumTo`, the chunks of `AllocRows`, the lists of `RealizeList`); the retries of
`alloc_small` with half the slop are the least divisor that malloc accepts, and
`SizesAssumption` says that nine halvings bring every slop below `MIN_SLOP` (in the code 16000
and 50). `ArraysAssumption`: a request has rows, columns and strips, and heights are bounded
(by `JPEG_MAX_DIMENSION`). Sizes are numbers without width, so the sums that
`realize_virt_arrays` makes in `long` are those of images for which they fit.

### JpegScan, the coders and JpegEntropy

A block is a function on `0..LimSe`, in zigzag order; an image is a sequence of blocks per
component; a scan has `Ss`, `Se`, `Ah`, `Al` and the component of each block of an MCU.
Coefficients are real, with their categories, sign bits, ZRL, EOB runs, correction bits; the
coded data are real bytes with stuffed zeroes and `RSTn`. `JpegHuffTables` has
`jpeg_gen_optimal_table` with the adjustment to 16 bits and the derived tables;
`JpegHuffman` the counting pass, the four encoders and four decoders, `JpegArith` the
arithmetic ones with their statistics.

`JpegEntropy` is the composition. Its phases are those of a job: count the symbols of a scan and
encode it MCU by MCU (`EncodeMcu`, `FinishGather`, `FinishPass`), send its segments with at most
one fault (`Send`, `SendDamaged`), decode. The decoder is given the bytes in pieces (`Deliver`);
when they end inside an MCU it returns, and the same MCU is decoded again from its saved state
(`DecodeMcu`). A fault loses a segment, doubles it, or cuts it short; `read_restart_marker` and
`jpeg_resync_to_restart` decide what to do.

## 3. Runs

Every run ends within five minutes. Runs with a liveness property have no symmetry.

| Run | Instance | What it shows |
|---|---|---|
| `FormWaits` | 1 client, 1 stage, 2 sample contents, 1 signature, 2 clean-ups, 2 posts, 1 death; no Back, storage does not fill (1 237 871 states) | Every form at the server has its image; a second form takes a lost answer; an image the form could be archived with is fresh once the clean-ups have run; no image that is unsigned or cut off is sent; an archived row is what was sent and stays so. |
| `FormBack` | 1 sample content, 1 signature, 1 clean-up, 2 renderings, 2 uploads, 1 tap over a running task, 1 post; Back, storage may fill (365 678) | With renderings and uploads started over one another and failing anywhere, archived means accepted and never names another form, and the progress dialog goes away. |
| `BatchWaits` | 2 drug forms, 1 quality form, 1 batch, 2 posts each, 1 death; no Back (585 306) | The success message is true; no duplicates without lost answers; `Archiving` is implemented; the dialog goes away. |
| `BatchBack` | 1 + 1 forms, 2 batches; Back (514 518) | What is archived was accepted; deleted stays deleted. |
| `SyncWaits` | 3 units, page of 2, 5 writes; others write between syncs; no Back (369 048) | The success message is true; new units are not overwritten; a sync ends, but for `Stuck` (section 4). |
| `SyncBack` | 2 units, page of 1, 2 syncs, 4 writes; others anytime; form uploads; Back (579 043) | A clean row is what the server once had. |
| `SyncEdits` | 2 units, page of 2, 4 writes | **Violated**: an edit is pulled over before it is pushed. |
| `JpegDct` | all 32 sizes, both methods, blocks with a few coefficients at every place and some that clamp, two quantization steps (13 860) | A sample is the inverse DCT by its definition, rounded and clamped, within the method's error; saving a block again gives the same coefficients, but for the widths 12 and 14. |
| `JpegDctRows` | the same, accurate method | **Violated**: without that exception. |
| `JpegTransform` | blocks of 2x2, five sources with partial iMCUs and different samplings, all transforms, trimmed, perfect, grey, cropped; a second run over each result (17 996) | Every sample is where geometry puts it; edges act as the sequences of transforms that `usage.txt` describes; a crop is a part of the whole transform; inverse transforms give the file back; tables turn with their blocks; no JFIF or Adobe marker is there twice, and a leading Exif marker still leads (behind an Adobe marker at most) and states the new size. |
| `JpegMemory` | two arrays, a zeroed one of 3 rows of blocks and one of 2 rows of samples, a limit below their sum, malloc and files failing anywhere (75 531) | Rows are kept, space is accounted for, files have owners and go with their pool, buffers stay within the limit. |
| `JpegEntropy` | images sparse, dense, wild, flat and of one coefficient; sequential, grey and progressive scripts; with and without restarts; three kinds of arrival; optimized tables, with counts that need codes above 16 bits; arithmetic coding; one fault (4 089) | What was coded is decoded; damage stays in its segments; the decoder never waits for nothing; no data look like a marker; carries have room; the encoder finds a code for every symbol; optimized tables are good codes. |

Every property of a passing run has a mutant in `PROJECT.json`: a plausible mistake in one
definition that makes TLC find that property violated under the same `.cfg`.

**Findings.** `SyncEdits` and `JpegDctRows` are disagreements between the code and what it
says (`findings`). The second is arithmetic: in the row passes of `jpeg_fdct_12x12` and
`12x6` (`jfdctint.c:1472`, `2770`) and of `jpeg_fdct_14x14` and `14x7` (`:1874`, `:2644`) a
term is added without the `<< CONST_BITS` of its neighbours and vanishes in the rounding.
More are behaviours of the models that no text of the repository rules out, or that the
properties leave out by name:

* with `BackDismisses = TRUE`, `FormWaits` violates `ArchiveFinal` (an edit begun during the
  upload is saved after it, though "已归档不能修改！") and `FormsHaveImage` (the signature
  screen's copy wipes the image id that the upload has just stored); `FreshImage` goes too, as
  a clean-up or an edit then runs beside a rendering;
* a cut-off image is archived when the storage fills while it is written: `compress` fails,
  `AppUtils.java:226` does not look, the MD5 stored is that of what is there, and every later
  check agrees. With Back it needs no full storage: the MD5s are compared
  (`FormRepository.java:239`), a rendering started over the upload empties the file, and only
  then the request reads it (line 68). `ServerImagesSigned` says that these are the ways;
* the status can be archived without a remote id, so that QR code and e-mail find none: a
  clean-up that is still running saves the object between `setStatus` and `setFormRemoteId`, and the
  process dies (`UplStatus`, `StripSave`, `Killed`). `ArchivedMatchesServer` says that
  this is the only way;
* clearing 未完成表单 deletes a form that was archived after the list was read
  (`ClearRead`, `Answer`, `ClearDelete` in `BatchUpload`);
* after the lost answer to the push of a new unit (`PushAnswer`, `SyncFails` in
  `ClientSync`) every later sync that pulls it ends at the unique name (`PullClash`).

**Bounds.** `MaxPaints`, `MaxPosts`, `MaxCrashes`, `MaxNow` cap counters. Two posts are the
least that show a duplicate, two clean-ups the least that overlap, one death is enough because a
death resets everything but the rows, the files and the server. Two contents of samples tell a
stale image from a fresh one; two renderings and two uploads the least that run over
one another, and one tap over a running task starts the second. One kind of signature is
enough to tell signed from unsigned; which kinds are required is in the theorem
`ImagesOnServerAreSigned`, for any. A page of one or two units stands for 50: what
matters is that pages can be full, short and empty, and that there are more units than one page
holds. Five writes let a unit be edited here, changed there, and pushed. What TLC cannot enlarge
the theorems cover: they hold for any of these numbers.

For libjpeg, the DCT runs take every block size, as each is code of its own; the
kernels are linear up to rounding, so blocks with three coefficients, moved over all places of the
block, meet every constant, and a few strong ones meet the clamping. Blocks
of 2x2 samples turn like blocks of 8x8, and pictures of up to three iMCUs a side have inner,
edge and partial ones. Two arrays are the least among which the limit is divided. Blocks keep
their 64 coefficients; `MAX_CORR_BITS` is 80 instead of 1000 and EOB runs end at 3 instead
of 32767, so that their flushes happen. Deadlock is not checked: with the counters at their
bounds and nothing open, and at the end of a job, the models stop.

## 4. Fairness

Only the application's own steps are fair. The io scheduler has unbounded threads, so each
task that was given to it goes on; a request is answered or times out (OkHttp's default
timeouts), so waiting for an answer ends in an answer or an error. The user, other tablets,
failures and the death of the process owe nothing. In `FormArchive` fairness is per task
and, in the upload, per part of the chain; in `BatchUpload` per batch and form; in
`ClientSync` per sync, where the failure of a request is one of the ways it ends.

`SyncEnds` has an exception, and it is the code's: while no clean row is the newest (a unit
edited here is newer than all that was pulled) and the server has a full page of units,
`updateRemoteClientUnit` calls itself with the same watermark 2000 and gets the same first
page, forever. The property says this is the only way.

libjpeg's models have no fairness and no liveness property; that the decoder is never left
waiting for data that do not come is the invariant `NeverStarves`.

## 5. Proofs

Proved for every value of the constants (any sets of forms, units, batches and tasks, any
bounds), from the named assumptions on the constants and what is said here:

* `FormArchiveProofs!TypeCorrect`. `TypeOK` is not inductive: a step uses what an earlier
  one of the same task has checked, so `TaskInv` says what each task carries.
* `FormArchiveProofs!ArchivedIsOnServer`, with or without Back and full storage. `ServerInv`
  adds that an upload holding an answer holds the index of a form the server has. Every way a
  status or a remote id travels (object, row, copy, stale save, second upload, reopening), one
  without the other included, preserves it, through deaths.
* `FormFinalProofs`, under `~BackDismisses`: `FormsAtServerHaveImage`, `NoDuplicates`,
  `ArchiveIsWhatWasSent`, `ArchiveKept`. `Waiting`: the dialog keeps the user out while a task
  runs, and so at most one rendering or upload does, however many slots there are.
  `ImagesKnown`: an image id in row, object or copy is one the server gave. `Flight`: an upload
  under way holds what the object holds, and nothing is archived before its answer
  (`Unarchived`). `Settled`: after that the row and every object a task may still save are the
  archived form, but for a remote id that has not been set yet.
* `FormFinalProofs!ImagesOnServerAreSigned`, for any kinds of signature and any interleaving.
  `SignedInv` (in `FormArchiveProofs`) follows a picture from where it is bound through the file to the
  server: with Back and full storage, too, what arrives is a signed page or cut off. Without them,
  `WholeInv` adds that no copy of the form and no task names a cut-off file, and that there is
  none on the disk while an upload runs: only a rendering refills the file, and `Waiting`
  keeps it from the upload.
* `FormImageProofs!ImageIsFresh`, under `~BackDismisses`. `Drawing` says what a rendering has
  read and bound, `Current` that the image is up to date or a clean-up is still to come
  (`Pending`) that will find out.
* `BatchUploadProofs!TypeCorrect`, `ArchivedFormsWereAccepted`, `DeletedFormsStayDeleted`.
  The last two for either value of `BackDismisses`, from `AcceptedInv`: a posted upload was
  accepted, and from `TypeOK`.
* `BatchUploadProofs!BatchDuplicatesOnlyAfterLoss`, `SuccessIsTrue`, `BatchKeepsPromise`,
  under `~BackDismisses`. `Quiet`: the dialog makes the running batch the only one and keeps
  the user from editing. `Sending`: a form that is being sent is not archived and its earlier
  acceptances were all lost. `Covered`: the phases a batch has behind it left nothing open.
  The refinement maps `EditForm` and `ClearDelete` to `Remove` or a stutter, `Post` to
  `Accept`, `Answer` to `Record`.
* `ClientSyncProofs!TypeCorrect`, `CleanRowsAreTheServers`. The latter for either value of
  `BackDismisses`, from `Held` (what a sync got from the server and has not saved yet is
  behind the server) and `Stamps` (no stamp is ahead of the clock).
* `ClientSyncProofs!NewUnitsAreKept`, under `~BackDismisses`, from `Quiet` and `Fresh` (what
  is being pushed is still what the rows hold).
* `ClientSyncProofs!SuccessIsInSync`, under `Alone`: `~BackDismisses`, no units uploaded
  with forms, other tablets writing between syncs only. The watermark is not stored but read
  off the newest clean row; `Complete` says why it may be trusted: a clean row stands for
  everything the server has up to its time, since pages come oldest first
  (`PagesAreOldest`), a short page is the last (`ShortPageIsLast`), and a push is stamped
  after all was pulled (`AllHere`).
* `JpegArithProofs!CarriesHaveRoom`, `NoMarkerInData`, `FinalCarryHasRoom`, for every
  sequence of decisions and any probability estimates below 2^15: `CSpec` lets the
  estimates be arbitrary, so the statistics do not matter. The invariant `Spaced` bounds
  code register and interval together after each byte, which is what the comment on the
  "3 spacer bits" claims: a carry reaches a byte that can take it, and FF is always
  followed by 00.

* `JpegTransformProofs`, for every picture (any size, any number of components with any
  sampling factors), every block size, every request, and with a second run where the
  property speaks of one: `TablesAlwaysFitBlocks`, `CropsAreOfTheWhole`, `EverySampleInPlace`,
  `RotationsAreSequences`, `TransformsAreReversible`. The properties look at the file
  written; they rest on two invariants. `IInv` (`PicturesWhole`): a picture read or written
  has, in every component, exactly the blocks of its grid, turned as its tables are, and the
  plan is the one the request asks of this picture. It needs the arithmetic of the plan: the
  output begins on an iMCU boundary and ends within the picture (`CroppedFact`,
  `TrimmedFact`), the largest factors of the output are those the plan counted with
  (`ResampledFact`, also for a single or grey component), so that every routine reads inside
  the source array (`PlaceFact`). `HInv` (`RunsFollowTheOriginal`): what the second run reads
  is what the first made of the original. Each routine is a place and a turn (`BlockOfFact`);
  a transposition exchanges the axes (`AxesFact`), the file read again has the axes it was
  written with (`ChainFact`), and on given axes two routines compose to the third
  (`ComposedFact`, twelve pairs): from these the two theorems about sequences follow.
* `JpegTransformProofs!MarkersAlwaysInOrder`, for any list of sound markers with data of any
  length, any request and both runs. The invariant `MInv` says of the picture read and of the
  one planned or written that it is no larger than the library accepts and has sound markers,
  and of a leading Exif marker where the output has it and what it states. It rests on three
  lemmas. `OfKindsFact`, an induction over the list: what a filter keeps comes from increasing
  places of it, and a first marker of a kind that is kept stays the first. `AdjustedFact`, about
  bytes: since the entries for the size lie apart from the header, from IFD0 and from each other,
  every number the function has found its way by reads the same after the change, so the
  structure stays adjustable by the next run, and each entry states a size, which fits its two low
  bytes (`BoundedPlan`: a plan cuts from a picture of at most 65500 a side). `OutputMarkers`:
  the library writes one marker of its own, not JFIF when Exif leads, and copies none of that
  kind. What the property does not say is that Exif comes first: in a picture that the library
  flags with an Adobe marker (CMYK, YCCK, RGB) it comes second, and the next run, which
  looks at the first marker only, leaves it with the old size.

* `JpegMemoryProofs!SpaceIsAccounted`, `FilesAreOwned`, `StripsWithoutNoise`,
  `BuffersStayWithinLimit` and the refinement `ArraysStayWhole`, for any number of arrays of
  any size, any heap, limit, chunk, header, alignment and slop, and any calls that fail. The
  invariant `IInv` adds to the properties what they need from one call to the next: a buffer
  is as long as any strip that can be asked for (`WindowOK`); a row defined is in the buffer
  or the file, and the file agrees with a buffer that is not dirty (`RowsKept`); a caller's
  strip lies in the window, and one for writing is defined and its buffer dirty (`StripOK`).
  `Kept` follows the space through `alloc_small` and `alloc_large`; `RowsKeep` and `ListStep`
  are the inductions over the chunks of a buffer and the arrays of a list, `SumBound` the one
  over the sum that the limit is about. An access is taken apart as the code does it: the
  buffer is written out (`FlushStep`), moved and read (`PositionStep`), then defined and
  zeroed (`DefineStep`); `PositionStep` also shows that a transfer never reads a part of
  the file that was not written. The refinement maps a granted access to `Access`, `WriteRow`
  to `Store`, the release of the IMAGE pool to `Release`, a failed call to `Fail` or, as
  every other call, to a stutter.

The assumption `~BackDismisses` is not idle: with Back `FormsHaveImage`, `ArchiveFinal`, `FreshImage`, the
three properties of the batch and `NewUnitKept` are false. Nor is `Alone`: section 6.

Only model-checked: liveness (`DialogEnds` twice, `SyncEnds`), which needs fairness and
`ENABLED`; the coders of `JpegEntropy` but for the arithmetic registers, which with their
tables are recursive; the two properties of `JpegDct`, which are about numbers, not about steps.

## 6. What is not modelled

* Two forms created in the same minute share a directory (`AppUtils.getFormRootPath`), and
  with it image and signature files. One form is modelled.
* The check of a signature file and its decoding by `getSignatureInfo` are one step
  (`ImgCheck`): nothing writes signature files while the detail screen is shown, but with
  Back the user may paint between the two.
* The signature screen loads its ids asynchronously; the model has them when it opens.
* Renaming a stored client unit, clearing the units, e-mail, sample photos.
* Units that other tablets write while a sync is pushing get a time below the stamp of what
  was pushed, and so below the next watermark: with `Others = "anytime"` `SuccessMeansInSync`
  is violated. `SyncWaits` therefore lets other tablets write between syncs. The same happens when
  a form takes its unit to the server (`UploadClientUnit`): the row's new time is a watermark
  above units that were never pulled.
* Session (token, user, a late 403), dictionaries and the numbering of samples: listed with
  their hazards, no module. User management is one request per screen; printing calls the
  vendor's library; widgets, image cache and utilities hold no protocol state; DAOs are
  generated.
* libjpeg: the float DCT; colour conversion, up- and downsampling, colour quantization and
  the main, coefficient and post controllers, which are arithmetic on rows; reading and
  writing the markers other than restarts; suspension of the encoder; the options of the
  tools and `jtransform_parse_crop_spec`; the Java bindings. On Android temporary files
  cannot be opened in general (`jmemnobs.c` refuses them all): that is `JpegMemory` with
  every open refused, one of its behaviours.
* Undefined behaviour of the C code on damaged data beyond the coded segments.

## 7. What could follow

1. A `Session` module: requests in flight across logout and login, the late 403, the
   broadcast that reopens the user's storage.
2. `Dictionary`: the two check-then-insert writers.
3. The numbering of samples as functions on bounded codes.
4. `FormArchive` with two forms in one directory, and with signature ids that arrive late.
5. `ClientSync` with renaming, where the unique name is between two stored units.
