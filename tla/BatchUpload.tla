----------------------------- MODULE BatchUpload -----------------------------
(***************************************************************************)
(* DataManagerActivity: "upload all" and "clear".  A batch uploads the     *)
(* drug forms, then the quality forms, then runs a verification phase.     *)
(* Each phase queries the forms that are not archived and uploads them all *)
(* at once (flatMap); the first error ends the batch and unsubscribes      *)
(* every other upload wherever it is.                                      *)
(*                                                                         *)
(* One upload is FormArchive's in short: sent, posted, answered.  A form   *)
(* without its image (or without a client) is "unfinished"; its status is  *)
(* the same number as a finished one's, so the query returns it too.       *)
(***************************************************************************)
EXTENDS Naturals, FiniteSets

CONSTANTS
    DrugForms, QualityForms,  \* the forms that may come to exist, by EDanType
    Batches,                  \* batches: one per tap on "upload"
    BackDismisses,            \* may Back cancel the progress dialog (Android: TRUE)
    MaxPosts,                 \* bound: POSTs of one form the server accepts
    MaxCrashes                \* bound: process deaths

Forms == DrugForms \cup QualityForms

ASSUME BatchAssumption ==
    /\ DrugForms \cap QualityForms = {}
    /\ IsFiniteSet(Batches)
    /\ BackDismisses \in BOOLEAN
    /\ MaxPosts \in Nat
    /\ MaxCrashes \in Nat

VARIABLES
    form,      \* the rows: not there, not archived (two kinds), archived, deleted
    batch,     \* per batch: its phase, whether it has queried, the forms left to start
    task,      \* per batch and form: the upload
    dialog,    \* the progress dialog is showing
    clear,     \* the clear task: what it deletes and the list it read
    said,      \* how the last batch ended, as told to the user
    accepted, lost,  \* per form: POSTs the server accepted, answers that were never recorded
    crashes

vars == <<form, batch, task, dialog, clear, said, accepted, lost, crashes>>

Waiting == {"unfinished", "ready"}   \* status INIT or PRINTED: both are 1
Phases == {"idle", "drug", "quality", "verify"}
ClearTypes == {"unfinished", "archived", "all"}

IdleBatch == [phase |-> "idle", queried |-> FALSE, todo |-> {}]
NoTasks == [f \in Forms |-> "none"]
IdleClear == [pc |-> "idle", type |-> "all", list |-> {}]

FormStates == {"none", "unfinished", "ready", "archived", "gone"}
BatchStates == [phase : Phases, queried : BOOLEAN, todo : SUBSET Forms]
TaskStates == [Forms -> {"none", "sending", "doomed", "posted", "done"}]
ClearStates == [pc : {"idle", "queued", "read"}, type : ClearTypes, list : SUBSET Forms]

TypeOK ==
    /\ form \in [Forms -> FormStates]
    /\ batch \in [Batches -> BatchStates]
    /\ task \in [Batches -> TaskStates]
    /\ dialog \in BOOLEAN
    /\ clear \in ClearStates
    /\ said \in {"nothing", "allUploaded", "error"}
    /\ accepted \in [Forms -> Nat] /\ lost \in [Forms -> Nat] /\ crashes \in Nat
    /\ \A b \in Batches : batch[b].phase = "idle" => batch[b] = IdleBatch /\ task[b] = NoTasks

Init ==
    /\ form = [f \in Forms |-> "none"]
    /\ batch = [b \in Batches |-> IdleBatch] /\ task = [b \in Batches |-> NoTasks]
    /\ dialog = FALSE /\ clear = IdleClear /\ said = "nothing"
    /\ accepted = [f \in Forms |-> 0] /\ lost = [f \in Forms |-> 0] /\ crashes = 0

(***************************************************************************)
(* Other screens: forms come, are finished, edited and deleted.            *)
(***************************************************************************)
EditForm(f) ==
    /\ ~dialog
    /\ \/ form[f] = "none" /\ form' = [form EXCEPT ![f] = "unfinished"]
       \/ form[f] = "unfinished" /\ form' = [form EXCEPT ![f] = "ready"]
       \/ form[f] = "ready" /\ form' = [form EXCEPT ![f] = "unfinished"]
       \/ form[f] \in Waiting \cup {"archived"} /\ form' = [form EXCEPT ![f] = "gone"]
    /\ UNCHANGED <<batch, task, dialog, clear, said, accepted, lost, crashes>>

(***************************************************************************)
(* The batch.                                                              *)
(***************************************************************************)
TapUpload(b) ==
    /\ ~dialog /\ batch[b].phase = "idle"
    /\ batch' = [batch EXCEPT ![b] = [IdleBatch EXCEPT !.phase = "drug"]]
    /\ dialog' = TRUE /\ said' = "nothing"
    /\ UNCHANGED <<form, task, clear, accepted, lost, crashes>>

\* The forms a phase asks for by type.  The verification phase asks for the quality type
\* once more; forms of the verification type, which no screen can make, nobody asks for.
\* Mutant: the quality phase asks for the drug forms.
KindOf_Copied(p) == DrugForms
KindOf(p) == IF p = "drug" THEN DrugForms ELSE QualityForms

\* ... and by status.  Mutant: every form of the type.
Wanted_Any(f) == form[f] \notin {"none", "gone"}
Wanted(f) == form[f] \in Waiting

Query(b) ==
    /\ batch[b].phase # "idle" /\ ~batch[b].queried
    /\ batch' = [batch EXCEPT ![b].queried = TRUE,
                              ![b].todo = {f \in KindOf(batch[b].phase) : Wanted(f)}]
    /\ UNCHANGED <<form, task, dialog, clear, said, accepted, lost, crashes>>

\* Whether the object the query returned can be sent: it is finished, or its image went up
\* in an earlier attempt and it has lost it since; of a row deleted since, who knows.
Finished(f) == IF form[f] \in {"gone", "unfinished"} THEN BOOLEAN ELSE {TRUE}

\* flatMap subscribes to the upload of the next form.  One that cannot be sent, and a
\* quality form taken for a verification form (it has no such samples), fails later.
StartForm(b, f) ==
    /\ f \in batch[b].todo
    /\ batch' = [batch EXCEPT ![b].todo = @ \ {f}]
    /\ \E ok \in Finished(f) :
         task' = [task EXCEPT ![b][f] = IF ok /\ batch[b].phase # "verify" THEN "sending" ELSE "doomed"]
    /\ UNCHANGED <<form, dialog, clear, said, accepted, lost, crashes>>

Post(b, f) ==
    /\ task[b][f] = "sending" /\ accepted[f] < MaxPosts
    /\ accepted' = [accepted EXCEPT ![f] = @ + 1]
    /\ task' = [task EXCEPT ![b][f] = "posted"]
    /\ UNCHANGED <<form, batch, dialog, clear, said, lost, crashes>>

\* The answer is recorded; save() updates, which does nothing to a deleted row.
\* Mutant: it is inserted again.
Recorded_Inserted(s) == "archived"
Recorded(s) == IF s = "gone" THEN "gone" ELSE "archived"

\* Mutant: the form is marked when it is sent.
Answered_Early(b, f) == task[b][f] \in {"sending", "posted"}
Answered(b, f) == task[b][f] = "posted"

Answer(b, f) ==
    /\ Answered(b, f)
    /\ task' = [task EXCEPT ![b][f] = "done"]
    /\ form' = [form EXCEPT ![f] = Recorded(@)]
    /\ UNCHANGED <<batch, dialog, clear, said, accepted, lost, crashes>>

Posted(b) == {f \in Forms : task[b][f] = "posted"}

\* onError: the progress dialog goes.  Mutant: it stays.
DismissOnError_Forgotten == UNCHANGED dialog
DismissOnError == dialog' = FALSE

\* The other uploads are unsubscribed.
Unsubscribe(b) == task' = [task EXCEPT ![b] = NoTasks]

Fail(b) ==
    /\ lost' = [f \in Forms |-> IF f \in Posted(b) THEN lost[f] + 1 ELSE lost[f]]
    /\ Unsubscribe(b)
    /\ batch' = [batch EXCEPT ![b] = IdleBatch]
    /\ DismissOnError /\ said' = "error"
    /\ UNCHANGED <<form, clear, accepted, crashes>>

\* A form without client or FileIDs throws in flatMap's own function, ...
StartThrows(b, f) ==
    /\ f \in batch[b].todo /\ FALSE \in Finished(f)
    /\ Fail(b)

\* ... anything else fails while it is under way, a lost answer included.
UploadFails(b, f) ==
    /\ task[b][f] \in {"sending", "doomed", "posted"}
    /\ Fail(b)

Step(b, f) == Post(b, f) \/ Answer(b, f) \/ UploadFails(b, f)
Subscribe(b, f) == StartForm(b, f) \/ StartThrows(b, f)

NextOf == [drug |-> "quality", quality |-> "verify", verify |-> "idle"]

\* onCompleted: everything the phase started is archived.
PhaseDone(b) ==
    /\ batch[b].phase # "idle" /\ batch[b].queried /\ batch[b].todo = {}
    /\ \A f \in Forms : task[b][f] \in {"none", "done"}
    /\ batch' = [batch EXCEPT ![b] = [IdleBatch EXCEPT !.phase = NextOf[batch[b].phase]]]
    /\ task' = [task EXCEPT ![b] = NoTasks]
    /\ IF batch[b].phase = "verify"
         THEN dialog' = FALSE /\ said' = "allUploaded"
         ELSE dialog' = TRUE /\ UNCHANGED said
    /\ UNCHANGED <<form, clear, accepted, lost, crashes>>

(***************************************************************************)
(* Clearing data, on io and without a progress dialog.                     *)
(***************************************************************************)
TapClear(t) ==
    /\ ~dialog /\ clear.pc = "idle"
    /\ clear' = [IdleClear EXCEPT !.pc = "queued", !.type = t]
    /\ UNCHANGED <<form, batch, task, dialog, said, accepted, lost, crashes>>

\* The list of forms is read first; deleteAll reads none.
ClearRead ==
    /\ clear.pc = "queued" /\ clear.type # "all"
    /\ clear' = [clear EXCEPT !.pc = "read",
                    !.list = {f \in Forms : form[f] \in IF clear.type = "archived"
                                                          THEN {"archived"} ELSE Waiting}]
    /\ UNCHANGED <<form, batch, task, dialog, said, accepted, lost, crashes>>

ToDelete == IF clear.type = "all" THEN Forms ELSE clear.list

ClearDelete ==
    /\ clear.pc = IF clear.type = "all" THEN "queued" ELSE "read"
    /\ form' = [f \in Forms |-> IF f \in ToDelete /\ form[f] # "none" THEN "gone" ELSE form[f]]
    /\ clear' = IdleClear
    /\ UNCHANGED <<batch, task, dialog, said, accepted, lost, crashes>>

(***************************************************************************)
(* Back and process death.                                                 *)
(***************************************************************************)
BackOnDialog ==
    /\ BackDismisses /\ dialog
    /\ dialog' = FALSE
    /\ UNCHANGED <<form, batch, task, clear, said, accepted, lost, crashes>>

Died ==
    /\ crashes < MaxCrashes
    /\ crashes' = crashes + 1
    /\ lost' = [f \in Forms |-> lost[f] + Cardinality({b \in Batches : f \in Posted(b)})]
    /\ batch' = [b \in Batches |-> IdleBatch] /\ task' = [b \in Batches |-> NoTasks]
    /\ dialog' = FALSE /\ clear' = IdleClear /\ said' = "nothing"
    /\ UNCHANGED <<form, accepted>>

Next ==
    \/ \E f \in Forms : EditForm(f)
    \/ \E b \in Batches : TapUpload(b) \/ Query(b) \/ PhaseDone(b)
    \/ \E b \in Batches, f \in Forms : Subscribe(b, f) \/ Step(b, f)
    \/ \E t \in ClearTypes : TapClear(t)
    \/ ClearRead \/ ClearDelete
    \/ BackOnDialog \/ Died

\* io runs what it was given, requests are answered or time out, the main thread runs
\* onCompleted; the user and the failures owe nothing.
Fairness ==
    /\ \A b \in Batches : WF_vars(Query(b)) /\ WF_vars(PhaseDone(b))
    /\ \A b \in Batches, f \in Forms : WF_vars(Subscribe(b, f)) /\ WF_vars(Step(b, f))
    /\ WF_vars(ClearRead) /\ WF_vars(ClearDelete)

Spec == Init /\ [][Next]_vars /\ Fairness

(***************************************************************************)
(* Properties.                                                             *)
(***************************************************************************)

\* A form reaches the server twice only if an answer got lost on the way, whether by
\* the network, by the error of another form of the batch, or by a process death.
DuplicateOnlyAfterLoss == \A f \in Forms : accepted[f] <= 1 + lost[f]

\* "上传所有表单成功！": when the user is told so, no form is left on the tablet that is
\* not archived.
SuccessMeansArchived ==
    [][said' = "allUploaded" /\ said # "allUploaded"
         => \A f \in Forms : form'[f] \notin Waiting]_vars

\* Whatever overlaps - batches started over one another with Back, clearing, editing -
\* a form marked archived was accepted by the server.
ArchivedWasAccepted == \A f \in Forms : form[f] = "archived" => accepted[f] > 0

\* A deleted form does not come back, though uploads still hold its object.
DeletedStaysDeleted == [][\A f \in Forms : form[f] = "gone" => form'[f] = "gone"]_vars

\* The batch ends: the progress dialog goes away, whatever forms there are.
DialogEnds == dialog ~> ~dialog

\* Batches implement the promise of Archiving.
rowStatus == [f \in Forms |-> IF form[f] \in {"archived", "gone"} THEN form[f] ELSE "open"]

Promise == INSTANCE Archiving WITH status <- rowStatus
KeepsPromise == Promise!Spec

=============================================================================
