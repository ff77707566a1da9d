-------------------------- MODULE BatchUploadProofs --------------------------
(***************************************************************************)
(* Proofs about BatchUpload, for any forms, bounds and number of deaths.   *)
(*                                                                         *)
(* With Back (BackDismisses either way): TypeOK and ArchivedWasAccepted.   *)
(* Without: the progress dialog makes the running batch the only one and   *)
(* keeps the user from editing (Quiet), a form is only ever sent while it  *)
(* is not archived and every earlier answer was lost (Sending), and the    *)
(* phases leave nothing behind (Covered).                                  *)
(***************************************************************************)
EXTENDS BatchUpload, FiniteSetTheorems, TLAPS

\* Both types of form that have phases of their own are forms.
LEMMA FormsOfType == DrugForms \subseteq Forms /\ QualityForms \subseteq Forms
  BY DEF Forms

\* The query of any phase (the WHERE of its queryRaw) finds forms only.
LEMMA KindOfForms == ASSUME NEW p PROVE KindOf(p) \subseteq Forms
  BY DEF KindOf, Forms

\* The number of batches that have a form posted and unanswered counts what is there.
LEMMA PostedBy ==
    ASSUME NEW f \in Forms
    PROVE  LET S == {b \in Batches : f \in Posted(b)} IN
           /\ Cardinality(S) \in Nat
           /\ (\E b \in Batches : task[b][f] = "posted") => Cardinality(S) >= 1
  <1> DEFINE S == {b \in Batches : f \in Posted(b)}
  <1>1. IsFiniteSet(S)
    BY FS_Subset, BatchAssumption
  <1>2. Cardinality(S) \in Nat /\ (Cardinality(S) = 0 <=> S = {})
    BY <1>1, FS_CardinalityType, FS_EmptySet
  <1>3. (\E b \in Batches : task[b][f] = "posted") => S # {}
    BY DEF Posted
  <1> QED BY <1>2, <1>3

(***************************************************************************)
(* Types.                                                                  *)
(***************************************************************************)

\* Every variable of BatchUpload keeps its type, and an idle batch has no work left.
THEOREM TypeCorrect == Spec => []TypeOK
  <1> DEFINE Idle == \A b \in Batches : batch[b].phase = "idle" => batch[b] = IdleBatch /\ task[b] = NoTasks
  <1>0. /\ IdleBatch \in BatchStates /\ IdleBatch.phase = "idle" /\ NoTasks \in TaskStates
        /\ IdleClear \in ClearStates
        /\ \A p \in Phases : /\ [IdleBatch EXCEPT !.phase = p] \in BatchStates
                             /\ [IdleBatch EXCEPT !.phase = p].phase = p
                             /\ [IdleBatch EXCEPT !.phase = "idle"] = IdleBatch
    <2>1. IdleBatch \in BatchStates
      BY DEF IdleBatch, BatchStates, Phases
    <2>2. NoTasks \in TaskStates
      BY DEF NoTasks, TaskStates
    <2>3. IdleClear \in ClearStates
      BY DEF IdleClear, ClearStates, ClearTypes
    <2>4. IdleBatch.phase = "idle" /\ [IdleBatch EXCEPT !.phase = "idle"] = IdleBatch
      BY DEF IdleBatch
    <2>5. ASSUME NEW p \in Phases
          PROVE  [IdleBatch EXCEPT !.phase = p] \in BatchStates /\ [IdleBatch EXCEPT !.phase = p].phase = p
      BY DEF IdleBatch, BatchStates, Phases
    <2> QED BY <2>1, <2>2, <2>3, <2>4, <2>5
  <1>1. Init => TypeOK
    <2> SUFFICES ASSUME Init PROVE TypeOK
      OBVIOUS
    <2>1. form \in [Forms -> FormStates]
      BY DEF Init, FormStates
    <2>2. batch \in [Batches -> BatchStates] /\ task \in [Batches -> TaskStates] /\ clear \in ClearStates
      BY <1>0 DEF Init
    <2>3. Idle
      BY DEF Init
    <2>4. dialog \in BOOLEAN /\ said \in {"nothing", "allUploaded", "error"}
      BY DEF Init
    <2>5. accepted \in [Forms -> Nat] /\ lost \in [Forms -> Nat] /\ crashes \in Nat
      BY DEF Init
    <2> QED BY <2>1, <2>2, <2>3, <2>4, <2>5 DEF TypeOK
  <1>2. TypeOK /\ [Next]_vars => TypeOK'
    <2> SUFFICES ASSUME TypeOK, [Next]_vars PROVE TypeOK'
      OBVIOUS
    <2>1. ASSUME NEW f \in Forms, EditForm(f) PROVE TypeOK'
      BY <2>1 DEF EditForm, TypeOK, FormStates
    <2>2. ASSUME NEW b \in Batches, TapUpload(b) PROVE TypeOK'
      <3>1. batch' \in [Batches -> BatchStates]
        BY <2>2, <1>0 DEF TapUpload, TypeOK, Phases
      <3>2. Idle'
        BY <2>2, <1>0 DEF TapUpload, TypeOK, Phases
      <3> QED BY <2>2, <3>1, <3>2 DEF TapUpload, TypeOK
    <2>3. ASSUME NEW b \in Batches, Query(b) PROVE TypeOK'
      <3>1. PICK S \in SUBSET Forms :
               batch' = [batch EXCEPT ![b].queried = TRUE, ![b].todo = S]
        BY <2>3, KindOfForms DEF Query
      <3>2. batch' \in [Batches -> BatchStates]
        BY <3>1 DEF TypeOK, BatchStates
      <3>3. Idle'
        BY <2>3, <3>1 DEF Query, TypeOK, BatchStates
      <3> QED BY <2>3, <3>2, <3>3 DEF Query, TypeOK
    <2>4. ASSUME NEW b \in Batches, PhaseDone(b) PROVE TypeOK'
      <3>1. NextOf[batch[b].phase] \in Phases
        BY <2>4 DEF PhaseDone, TypeOK, BatchStates, Phases, NextOf
      <3>2. batch' \in [Batches -> BatchStates] /\ task' \in [Batches -> TaskStates]
        BY <2>4, <3>1, <1>0 DEF PhaseDone, TypeOK
      <3>3. Idle'
        BY <2>4, <3>1, <1>0 DEF PhaseDone, TypeOK
      <3> QED BY <2>4, <3>2, <3>3 DEF PhaseDone, TypeOK
    <2>5. ASSUME NEW b \in Batches, Fail(b) PROVE TypeOK'
      <3>1. batch' \in [Batches -> BatchStates] /\ task' \in [Batches -> TaskStates]
        BY <2>5, <1>0 DEF Fail, Unsubscribe, TypeOK
      <3>2. Idle'
        BY <2>5, <1>0 DEF Fail, Unsubscribe, TypeOK
      <3>3. lost' \in [Forms -> Nat]
        BY <2>5 DEF Fail, TypeOK
      <3> QED BY <2>5, <3>1, <3>2, <3>3 DEF Fail, DismissOnError, TypeOK
    <2>6. ASSUME NEW b \in Batches, NEW f \in Forms, Subscribe(b, f) PROVE TypeOK'
      <3>1. CASE StartForm(b, f)
        <4>1. /\ batch' = [batch EXCEPT ![b].todo = @ \ {f}]
              /\ batch[b].phase # "idle"
          BY <3>1 DEF StartForm, TypeOK, IdleBatch
        <4>2. batch' \in [Batches -> BatchStates]
          BY <4>1 DEF TypeOK, BatchStates
        <4>3. task' \in [Batches -> TaskStates]
          BY <3>1 DEF StartForm, TypeOK, TaskStates
        <4>4. Idle'
          BY <3>1, <4>1 DEF StartForm, TypeOK, BatchStates
        <4> QED BY <3>1, <4>2, <4>3, <4>4 DEF StartForm, TypeOK
      <3>2. CASE StartThrows(b, f)
        BY <3>2, <2>5 DEF StartThrows
      <3> QED BY <2>6, <3>1, <3>2 DEF Subscribe
    <2>7. ASSUME NEW b \in Batches, NEW f \in Forms, Step(b, f) PROVE TypeOK'
      <3>0. ASSUME NEW g \in {"posted", "done"}, task[b][f] # "none",
                   task' = [task EXCEPT ![b][f] = g], UNCHANGED batch
            PROVE  task' \in [Batches -> TaskStates] /\ Idle'
        BY <3>0 DEF TypeOK, TaskStates, NoTasks
      <3>1. CASE Post(b, f)
        BY <3>1, <3>0 DEF Post, TypeOK
      <3>2. CASE Answer(b, f)
        BY <3>2, <3>0 DEF Answer, Answered, Recorded, TypeOK, FormStates
      <3>3. CASE UploadFails(b, f)
        BY <3>3, <2>5 DEF UploadFails
      <3> QED BY <2>7, <3>1, <3>2, <3>3 DEF Step
    <2>8. ASSUME NEW t \in ClearTypes, TapClear(t) PROVE TypeOK'
      BY <2>8 DEF TapClear, TypeOK, IdleClear, ClearStates
    <2>9. CASE ClearRead
      BY <2>9 DEF ClearRead, TypeOK, ClearStates
    <2>10. CASE ClearDelete
      BY <2>10, <1>0 DEF ClearDelete, TypeOK, FormStates
    <2>11. CASE BackOnDialog
      BY <2>11 DEF BackOnDialog, TypeOK
    <2>12. CASE Died
      <3>1. \A f \in Forms : lost[f] + Cardinality({b \in Batches : f \in Posted(b)}) \in Nat
        BY PostedBy DEF TypeOK
      <3>2. lost' \in [Forms -> Nat]
        BY <2>12, <3>1 DEF Died
      <3>3. /\ batch' = [b \in Batches |-> IdleBatch] /\ task' = [b \in Batches |-> NoTasks]
            /\ dialog' = FALSE /\ clear' = IdleClear /\ said' = "nothing"
            /\ crashes' = crashes + 1 /\ form' = form /\ accepted' = accepted
        BY <2>12 DEF Died
      <3>4. /\ batch' \in [Batches -> BatchStates] /\ task' \in [Batches -> TaskStates]
            /\ clear' \in ClearStates /\ Idle'
        BY <3>3, <1>0
      <3>5. /\ form' \in [Forms -> FormStates] /\ accepted' \in [Forms -> Nat]
            /\ crashes' \in Nat /\ said' \in {"nothing", "allUploaded", "error"}
        BY <3>3 DEF TypeOK
      <3>6. dialog' \in BOOLEAN
        BY <3>3
      <3> QED BY <3>2, <3>4, <3>5, <3>6 DEF TypeOK
    <2>13. CASE UNCHANGED vars
      BY <2>13 DEF vars, TypeOK
    <2> QED
      BY <2>1, <2>2, <2>3, <2>4, <2>6, <2>7, <2>8, <2>9, <2>10, <2>11, <2>12, <2>13 DEF Next
  <1> QED BY <1>1, <1>2, PTL DEF Spec

(***************************************************************************)
(* What is archived was accepted, with Back or without.                    *)
(***************************************************************************)
AcceptedInv ==
    \A f \in Forms :
        /\ form[f] = "archived" => accepted[f] > 0
        /\ \A b \in Batches : task[b][f] = "posted" => accepted[f] > 0

\* AcceptedInv, the strengthening of ArchivedWasAccepted, holds with and without Back.
LEMMA AcceptedInvariant == Spec => []AcceptedInv
  <1>1. Init => AcceptedInv
    BY DEF Init, AcceptedInv, NoTasks
  <1>2. TypeOK /\ AcceptedInv /\ [Next]_vars => AcceptedInv'
    <2> SUFFICES ASSUME TypeOK, AcceptedInv, [Next]_vars PROVE AcceptedInv'
      OBVIOUS
    <2>1. ASSUME NEW f \in Forms, EditForm(f) PROVE AcceptedInv'
      BY <2>1 DEF EditForm, TypeOK, AcceptedInv
    <2>2. ASSUME NEW b \in Batches, TapUpload(b) \/ Query(b) PROVE AcceptedInv'
      BY <2>2 DEF TapUpload, Query, AcceptedInv
    <2>3. ASSUME NEW b \in Batches, PhaseDone(b) PROVE AcceptedInv'
      BY <2>3 DEF PhaseDone, NoTasks, TypeOK, AcceptedInv
    <2>4. ASSUME NEW b \in Batches, Fail(b) PROVE AcceptedInv'
      BY <2>4 DEF Fail, Unsubscribe, NoTasks, TypeOK, AcceptedInv
    <2>5. ASSUME NEW b \in Batches, NEW f \in Forms, Subscribe(b, f) PROVE AcceptedInv'
      <3>1. CASE StartForm(b, f)
        BY <3>1 DEF StartForm, TypeOK, TaskStates, AcceptedInv
      <3>2. CASE StartThrows(b, f)
        BY <3>2, <2>4 DEF StartThrows
      <3> QED BY <2>5, <3>1, <3>2 DEF Subscribe
    <2>6. ASSUME NEW b \in Batches, NEW f \in Forms, Step(b, f) PROVE AcceptedInv'
      <3>1. CASE Post(b, f)
        BY <3>1 DEF Post, TypeOK, TaskStates, AcceptedInv
      <3>2. CASE Answer(b, f)
        BY <3>2 DEF Answer, Answered, Recorded, TypeOK, TaskStates, AcceptedInv
      <3>3. CASE UploadFails(b, f)
        BY <3>3, <2>4 DEF UploadFails
      <3> QED BY <2>6, <3>1, <3>2, <3>3 DEF Step
    <2>7. CASE ClearDelete
      BY <2>7 DEF ClearDelete, TypeOK, AcceptedInv
    <2>8. CASE Died
      BY <2>8 DEF Died, NoTasks, AcceptedInv
    <2>9. CASE ClearRead \/ BackOnDialog \/ UNCHANGED vars
      BY <2>9 DEF ClearRead, BackOnDialog, vars, AcceptedInv
    <2>10. ASSUME NEW t \in ClearTypes, TapClear(t) PROVE AcceptedInv'
      BY <2>10 DEF TapClear, AcceptedInv
    <2> QED
      BY <2>1, <2>2, <2>3, <2>5, <2>6, <2>7, <2>8, <2>9, <2>10 DEF Next
  <1> QED BY <1>1, <1>2, TypeCorrect, PTL DEF Spec

\* A form marked archived was accepted by the server, whatever batches, edits and
\* clearing overlap.
THEOREM ArchivedFormsWereAccepted == Spec => []ArchivedWasAccepted
  <1>1. AcceptedInv => ArchivedWasAccepted
    BY DEF AcceptedInv, ArchivedWasAccepted
  <1> QED BY <1>1, AcceptedInvariant, PTL

(***************************************************************************)
(* A deleted row stays deleted, with Back or without.                      *)
(***************************************************************************)

\* No step brings a deleted form back: an upload that still holds its object records
\* the answer with save(), which updates the rows it finds and finds none.
THEOREM DeletedFormsStayDeleted == Spec => DeletedStaysDeleted
  <1> DEFINE Stays == \A f \in Forms : form[f] = "gone" => form'[f] = "gone"
  <1>1. TypeOK /\ [Next]_vars => Stays
    <2> SUFFICES ASSUME TypeOK, [Next]_vars PROVE Stays
      OBVIOUS
    <2>1. ASSUME NEW f \in Forms, EditForm(f) PROVE Stays
      BY <2>1 DEF EditForm, Waiting, TypeOK
    <2>2. ASSUME NEW b \in Batches, NEW f \in Forms, Answer(b, f) PROVE Stays
      BY <2>2 DEF Answer, Recorded, TypeOK
    <2>3. CASE ClearDelete
      BY <2>3 DEF ClearDelete, TypeOK
    <2>4. ASSUME UNCHANGED form PROVE Stays
      BY <2>4
    <2>5. ASSUME NEW b \in Batches, TapUpload(b) \/ Query(b) \/ PhaseDone(b) PROVE UNCHANGED form
      BY <2>5 DEF TapUpload, Query, PhaseDone
    <2>6. ASSUME NEW b \in Batches, NEW f \in Forms, Subscribe(b, f) \/ Post(b, f) \/ UploadFails(b, f)
          PROVE  UNCHANGED form
      BY <2>6 DEF Subscribe, StartForm, StartThrows, Post, UploadFails, Fail
    <2>7. ASSUME NEW t \in ClearTypes, TapClear(t) PROVE UNCHANGED form
      BY <2>7 DEF TapClear
    <2>8. CASE ClearRead \/ BackOnDialog \/ Died \/ UNCHANGED vars
      BY <2>4, <2>8 DEF ClearRead, BackOnDialog, Died, vars
    <2> QED
      BY <2>1, <2>2, <2>3, <2>4, <2>5, <2>6, <2>7, <2>8 DEF Next, Step
  <1>2. TypeOK /\ [Next]_vars => [Stays]_vars
    BY <1>1
  <1> QED BY <1>2, TypeCorrect, PTL DEF Spec, DeletedStaysDeleted

(***************************************************************************)
(* Without Back: one batch at a time, and nobody edits meanwhile.          *)
(***************************************************************************)
Quiet ==
    /\ \A b \in Batches : batch[b].phase # "idle" => dialog
    /\ \A b, c \in Batches : batch[b].phase # "idle" /\ batch[c].phase # "idle" => b = c

\* The dialog of a running batch keeps other batches, edits and clearing out.
LEMMA QuietInvariant == ASSUME ~BackDismisses PROVE Spec => []Quiet
  <1>1. Init => Quiet
    BY DEF Init, Quiet, IdleBatch
  <1>2. TypeOK /\ Quiet /\ [Next]_vars => Quiet'
    <2> SUFFICES ASSUME TypeOK, Quiet, [Next]_vars PROVE Quiet'
      OBVIOUS
    <2> USE DEF Quiet
    <2>0. /\ \A p \in Phases : [IdleBatch EXCEPT !.phase = p].phase = p
          /\ IdleBatch.phase = "idle"
      BY DEF IdleBatch, Phases
    <2>1. ASSUME NEW f \in Forms, EditForm(f) PROVE Quiet'
      BY <2>1 DEF EditForm
    <2>2. ASSUME NEW b \in Batches, TapUpload(b) PROVE Quiet'
      BY <2>2, <2>0 DEF TapUpload, TypeOK, Phases
    <2>3. ASSUME NEW b \in Batches, Query(b) PROVE Quiet'
      BY <2>3 DEF Query, TypeOK, BatchStates
    <2>4. ASSUME NEW b \in Batches, PhaseDone(b) PROVE Quiet'
      <3>1. /\ NextOf[batch[b].phase] \in Phases
            /\ batch[b].phase # "verify" => NextOf[batch[b].phase] # "idle"
            /\ batch[b].phase = "verify" => NextOf[batch[b].phase] = "idle"
        BY <2>4 DEF PhaseDone, TypeOK, BatchStates, Phases, NextOf
      <3> QED BY <2>4, <3>1, <2>0 DEF PhaseDone, TypeOK
    <2>5. ASSUME NEW b \in Batches, batch[b].phase # "idle", Fail(b) PROVE Quiet'
      BY <2>5, <2>0 DEF Fail, DismissOnError, TypeOK
    <2>6. ASSUME NEW b \in Batches, NEW f \in Forms, Subscribe(b, f) PROVE Quiet'
      <3>0. f \in batch[b].todo => batch[b].phase # "idle"
        BY DEF TypeOK, IdleBatch
      <3>1. CASE StartForm(b, f)
        BY <3>1 DEF StartForm, TypeOK, BatchStates
      <3>2. CASE StartThrows(b, f)
        BY <3>2, <3>0, <2>5 DEF StartThrows
      <3> QED BY <2>6, <3>1, <3>2 DEF Subscribe
    <2>7. ASSUME NEW b \in Batches, NEW f \in Forms, Step(b, f) PROVE Quiet'
      <3>0. task[b][f] # "none" => batch[b].phase # "idle"
        BY DEF TypeOK, NoTasks
      <3>1. CASE Post(b, f) \/ Answer(b, f)
        BY <3>1 DEF Post, Answer
      <3>2. CASE UploadFails(b, f)
        BY <3>2, <3>0, <2>5 DEF UploadFails
      <3> QED BY <2>7, <3>1, <3>2 DEF Step
    <2>8. CASE Died
      BY <2>8, <2>0 DEF Died
    <2>9. CASE ClearRead \/ ClearDelete \/ UNCHANGED vars
      BY <2>9 DEF ClearRead, ClearDelete, vars
    <2>10. ASSUME NEW t \in ClearTypes, TapClear(t) PROVE Quiet'
      BY <2>10 DEF TapClear
    <2>11. ~BackOnDialog
      BY DEF BackOnDialog
    <2> QED
      BY <2>1, <2>2, <2>3, <2>4, <2>6, <2>7, <2>8, <2>9, <2>10, <2>11 DEF Next
  <1> QED BY <1>1, <1>2, TypeCorrect, PTL DEF Spec

(***************************************************************************)
(* Without Back: what an upload holds, against the row and the counts.     *)
(***************************************************************************)
InFlight(f) == \E b \in Batches : task[b][f] = "posted"

Fresh(b) == ~batch[b].queried => batch[b].todo = {} /\ task[b] = NoTasks

Held(b, f) ==
    /\ f \in batch[b].todo => task[b][f] = "none" /\ form[f] # "archived" /\ accepted[f] <= lost[f]
    /\ task[b][f] = "sending" => form[f] # "archived" /\ accepted[f] <= lost[f]
    /\ task[b][f] = "posted" => form[f] # "archived"
    /\ task[b][f] = "done" => form[f] \in {"archived", "gone"}

Counted(f) ==
    /\ accepted[f] <= 1 + lost[f]
    /\ form[f] \notin {"archived", "gone"} /\ ~InFlight(f) => accepted[f] <= lost[f]

Sending ==
    /\ \A b \in Batches : Fresh(b)
    /\ \A b \in Batches, f \in Forms : Held(b, f)
    /\ \A f \in Forms : Counted(f)

\* A form that is being sent was not accepted before, but for lost answers.
LEMMA SendingInvariant == ASSUME ~BackDismisses PROVE Spec => []Sending
  <1>1. Init => Sending
    BY DEF Init, Sending, Fresh, Held, Counted, IdleBatch, NoTasks
  <1>2. TypeOK /\ Quiet /\ Sending /\ [Next]_vars => Sending'
    <2> SUFFICES ASSUME TypeOK, Quiet, Sending, [Next]_vars PROVE Sending'
      OBVIOUS
    <2> USE DEF Fresh, Held, Counted
    <2>0. /\ \A f \in Forms : accepted[f] \in Nat /\ lost[f] \in Nat
          /\ \A b \in Batches, f \in Forms : (f \in batch[b].todo \/ task[b][f] # "none") => batch[b].phase # "idle"
          /\ \A p : /\ [IdleBatch EXCEPT !.phase = p].queried = FALSE
                   /\ [IdleBatch EXCEPT !.phase = p].todo = {}
          /\ IdleBatch.queried = FALSE /\ IdleBatch.todo = {}
          /\ \A f \in Forms : NoTasks[f] = "none"
      BY DEF TypeOK, IdleBatch, NoTasks
    <2>1. ASSUME NEW f \in Forms, EditForm(f) PROVE Sending'
      <3>1. \A b \in Batches, g \in Forms : task[b][g] = "none" /\ g \notin batch[b].todo
        BY <2>1, <2>0 DEF EditForm, Quiet
      <3> QED BY <2>1, <2>0, <3>1 DEF EditForm, Sending, InFlight, TypeOK
    <2>2. ASSUME NEW b \in Batches, TapUpload(b) PROVE Sending'
      <3>1. task[b] = NoTasks
        BY <2>2 DEF TapUpload, TypeOK
      <3> QED BY <2>2, <2>0, <3>1 DEF TapUpload, Sending, InFlight, TypeOK
    <2>3. ASSUME NEW b \in Batches, Query(b) PROVE Sending'
      <3>1. /\ batch'[b].queried
            /\ batch'[b].todo = {f \in KindOf(batch[b].phase) : Wanted(f)}
            /\ \A c \in Batches \ {b} : batch'[c] = batch[c]
        BY <2>3 DEF Query, TypeOK, BatchStates
      <3>2. \A f \in Forms : task[b][f] = "none" /\ ~InFlight(f)
        BY <2>3, <2>0 DEF Query, Quiet, Sending, InFlight
      <3>3. \A f \in Forms : Wanted(f) => form[f] \notin {"archived", "gone"}
        BY DEF Wanted, Waiting
      <3>4. UNCHANGED <<form, task, accepted, lost>>
        BY <2>3 DEF Query
      <3>5. \A c \in Batches : Fresh(c)'
        BY <3>1, <3>4 DEF Sending
      <3>6. \A f \in Forms : Held(b, f)'
        BY <3>1, <3>2, <3>3, <3>4 DEF Sending
      <3>7. \A c \in Batches \ {b}, f \in Forms : Held(c, f)'
        BY <3>1, <3>4 DEF Sending
      <3>8. \A f \in Forms : Counted(f)'
        BY <3>4 DEF Sending, InFlight
      <3> QED BY <3>5, <3>6, <3>7, <3>8 DEF Sending
    <2>4. ASSUME NEW b \in Batches, PhaseDone(b) PROVE Sending'
      <3>1. \A f \in Forms : task[b][f] # "posted"
        BY <2>4 DEF PhaseDone
      <3>2. \A f \in Forms : InFlight(f)' <=> InFlight(f)
        BY <2>4, <3>1, <2>0 DEF PhaseDone, InFlight, TypeOK
      <3> QED BY <2>4, <2>0, <3>2 DEF PhaseDone, Sending, TypeOK
    <2>5. ASSUME NEW b \in Batches, Fail(b) PROVE Sending'
      <3>2. \A f \in Forms : InFlight(f) => InFlight(f)' \/ task[b][f] = "posted"
        BY <2>5 DEF Fail, Unsubscribe, InFlight, TypeOK
      <3>3. /\ \A c \in Batches \ {b} : batch'[c] = batch[c] /\ task'[c] = task[c]
            /\ batch'[b] = IdleBatch /\ task'[b] = NoTasks
            /\ form' = form /\ accepted' = accepted
        BY <2>5 DEF Fail, Unsubscribe, TypeOK
      <3>4. \A c \in Batches : Fresh(c)'
        BY <3>3, <2>0 DEF Sending
      <3>5. ASSUME NEW c \in Batches, NEW f \in Forms PROVE Held(c, f)'
        <4>0. /\ Held(c, f) /\ accepted[f] \in Nat /\ lost[f] \in Nat
              /\ accepted'[f] = accepted[f] /\ form'[f] = form[f]
          BY <3>3, <2>0 DEF Sending
        <4>3. lost'[f] \in Nat /\ lost'[f] >= lost[f]
          BY <2>5, <2>0 DEF Fail
        <4>1. CASE c = b
          BY <4>1, <3>3, <2>0
        <4>2. CASE c # b
          <5>1. batch'[c] = batch[c] /\ task'[c] = task[c]
            BY <4>2, <3>3
          <5> QED BY <4>0, <4>3, <5>1
        <4> QED BY <4>1, <4>2
      <3>6. ASSUME NEW f \in Forms PROVE Counted(f)'
        <4>0. /\ Counted(f) /\ accepted[f] \in Nat /\ lost[f] \in Nat
              /\ accepted'[f] = accepted[f] /\ form'[f] = form[f]
          BY <3>3, <2>0 DEF Sending
        <4>3. lost'[f] \in Nat /\ lost'[f] >= lost[f]
          BY <2>5, <2>0 DEF Fail
        <4>1. CASE task[b][f] = "posted"
          <5>1. lost'[f] = lost[f] + 1
            BY <4>1, <2>5 DEF Fail, Posted
          <5> QED BY <4>0, <5>1
        <4>2. CASE task[b][f] # "posted"
          <5>1. InFlight(f) => InFlight(f)'
            BY <4>2, <3>2
          <5> QED BY <4>0, <4>3, <5>1
        <4> QED BY <4>1, <4>2
      <3> QED BY <3>4, <3>5, <3>6 DEF Sending
    <2>6. ASSUME NEW b \in Batches, NEW f \in Forms, Subscribe(b, f) PROVE Sending'
      <3>1. CASE StartForm(b, f)
        <4>1. /\ batch'[b].todo = batch[b].todo \ {f} /\ batch'[b].queried = batch[b].queried
              /\ \A c \in Batches \ {b} : batch'[c] = batch[c]
          BY <3>1 DEF StartForm, TypeOK, BatchStates
        <4>2. /\ task'[b][f] \in {"sending", "doomed"}
              /\ \A c \in Batches, g \in Forms : c # b \/ g # f => task'[c][g] = task[c][g]
              /\ \A c \in Batches : c # b => task'[c] = task[c]
          BY <3>1 DEF StartForm, TypeOK, TaskStates
        <4>3. f \in batch[b].todo /\ batch[b].queried /\ UNCHANGED <<form, accepted, lost>>
          BY <3>1 DEF StartForm, Sending
        <4>4. \A g \in Forms : InFlight(g)' <=> InFlight(g)
          BY <4>2, <4>3 DEF InFlight, Sending
        <4>5. ASSUME NEW c \in Batches PROVE Fresh(c)'
          <5>1. CASE c = b
            BY <5>1, <4>1, <4>3
          <5>2. CASE c # b
            BY <5>2, <4>1, <4>2 DEF Sending
          <5> QED BY <5>1, <5>2
        <4>6. \A c \in Batches, g \in Forms : Held(c, g)'
          BY <4>1, <4>2, <4>3 DEF Sending
        <4>7. \A g \in Forms : Counted(g)'
          BY <4>3, <4>4 DEF Sending
        <4> QED BY <4>5, <4>6, <4>7 DEF Sending
      <3>2. CASE StartThrows(b, f)
        BY <3>2, <2>5 DEF StartThrows
      <3> QED BY <2>6, <3>1, <3>2 DEF Subscribe
    <2>7. ASSUME NEW b \in Batches, NEW f \in Forms, Step(b, f) PROVE Sending'
      <3>0. \A c \in Batches : task[b][f] # "none" /\ task[c][f] # "none" => c = b
        BY <2>0 DEF Quiet
      <3>00. \A c \in Batches : task[b][f] # "none" /\ f \in batch[c].todo => c = b
        BY <2>0 DEF Quiet
      <3>1. CASE Post(b, f)
        <4>1. /\ task[b][f] = "sending" /\ task'[b][f] = "posted"
              /\ \A c \in Batches, g \in Forms : c # b \/ g # f => task'[c][g] = task[c][g]
              /\ \A c \in Batches : c # b => task'[c] = task[c]
              /\ accepted'[f] = accepted[f] + 1 /\ \A g \in Forms \ {f} : accepted'[g] = accepted[g]
              /\ UNCHANGED <<form, batch, lost>>
          BY <3>1 DEF Post, TypeOK, TaskStates
        <4>2. batch[b].queried /\ f \notin batch[b].todo
          BY <4>1, <2>0 DEF Sending
        <4>3. \A g \in Forms : InFlight(g)' <=> InFlight(g) \/ g = f
          BY <4>1 DEF InFlight
        <4> QED BY <4>1, <4>2, <4>3, <3>0, <3>00, <2>0 DEF Sending
      <3>2. CASE Answer(b, f)
        <4>1. /\ task[b][f] = "posted" /\ task'[b][f] = "done"
              /\ \A c \in Batches, g \in Forms : c # b \/ g # f => task'[c][g] = task[c][g]
              /\ \A c \in Batches : c # b => task'[c] = task[c]
              /\ form'[f] \in {"archived", "gone"} /\ \A g \in Forms \ {f} : form'[g] = form[g]
              /\ UNCHANGED <<batch, accepted, lost>>
          BY <3>2 DEF Answer, Answered, Recorded, TypeOK, TaskStates
        <4>2. batch[b].queried /\ f \notin batch[b].todo
          BY <4>1, <2>0 DEF Sending
        <4>3. \A g \in Forms : g # f => (InFlight(g)' <=> InFlight(g))
          BY <4>1 DEF InFlight
        <4> QED BY <4>1, <4>2, <4>3, <3>0, <3>00, <2>0 DEF Sending
      <3>3. CASE UploadFails(b, f)
        BY <3>3, <2>5 DEF UploadFails
      <3> QED BY <2>7, <3>1, <3>2, <3>3 DEF Step
    <2>8. CASE ClearDelete
      <3>1. \A f \in Forms : form'[f] = form[f] \/ form'[f] = "gone"
        BY <2>8 DEF ClearDelete, TypeOK
      <3> QED BY <2>8, <3>1 DEF ClearDelete, Sending, InFlight
    <2>9. CASE Died
      <3>1. /\ \A b \in Batches : batch'[b] = IdleBatch /\ task'[b] = NoTasks
            /\ form' = form /\ accepted' = accepted
        BY <2>9 DEF Died
      <3>2. \A f \in Forms : lost'[f] \in Nat /\ lost'[f] >= lost[f] /\ (InFlight(f) => lost'[f] >= lost[f] + 1)
        <4> SUFFICES ASSUME NEW f \in Forms
                     PROVE lost'[f] \in Nat /\ lost'[f] >= lost[f] /\ (InFlight(f) => lost'[f] >= lost[f] + 1)
          OBVIOUS
        <4> DEFINE n == Cardinality({b \in Batches : f \in Posted(b)})
        <4>1. n \in Nat /\ (InFlight(f) => n >= 1)
          BY PostedBy DEF InFlight
        <4>2. lost'[f] = lost[f] + n
          BY <2>9 DEF Died
        <4> HIDE DEF n
        <4> QED BY <4>1, <4>2, <2>0
      <3> QED BY <2>0, <3>1, <3>2 DEF Sending
    <2>10. CASE ClearRead \/ BackOnDialog \/ UNCHANGED vars
      BY <2>10 DEF ClearRead, BackOnDialog, vars, Sending, InFlight
    <2>11. ASSUME NEW t \in ClearTypes, TapClear(t) PROVE Sending'
      BY <2>11 DEF TapClear, Sending, InFlight
    <2> QED
      BY <2>1, <2>2, <2>3, <2>4, <2>6, <2>7, <2>8, <2>9, <2>10, <2>11 DEF Next
  <1> QED BY <1>1, <1>2, TypeCorrect, QuietInvariant, PTL DEF Spec

\* The server never holds a form more often than once and once per answer that was
\* lost, as long as the progress dialog is waited for.
THEOREM BatchDuplicatesOnlyAfterLoss ==
    ASSUME ~BackDismisses PROVE Spec => []DuplicateOnlyAfterLoss
  <1>1. Sending => DuplicateOnlyAfterLoss
    BY DEF Sending, Counted, DuplicateOnlyAfterLoss
  <1> QED BY <1>1, SendingInvariant, PTL

(***************************************************************************)
(* Without Back: what the phases of a batch have dealt with.               *)
(***************************************************************************)
Behind(b) ==
    /\ batch[b].phase = "quality" => \A f \in DrugForms : form[f] \notin Waiting
    /\ batch[b].phase = "verify" => \A f \in Forms : form[f] \notin Waiting

UnderWay(b) ==
    batch[b].phase # "idle" /\ batch[b].queried =>
        \A f \in KindOf(batch[b].phase) :
            form[f] \in Waiting => f \in batch[b].todo \/ task[b][f] \notin {"none", "done"}

Covered == \A b \in Batches : Behind(b) /\ UnderWay(b)

\* What the phases a batch has behind it wanted is archived.
LEMMA CoveredInvariant == ASSUME ~BackDismisses PROVE Spec => []Covered
  <1>1. Init => Covered
    BY DEF Init, Covered, Behind, UnderWay, IdleBatch
  <1>2. TypeOK /\ Quiet /\ Covered /\ [Next]_vars => Covered'
    <2> SUFFICES ASSUME TypeOK, Quiet, Covered, [Next]_vars, NEW c \in Batches
                 PROVE  Behind(c)' /\ UnderWay(c)'
      BY DEF Covered
    <2> USE DEF Behind, UnderWay
    <2>0. /\ \A p : /\ [IdleBatch EXCEPT !.phase = p].queried = FALSE
          /\ \A p \in Phases : [IdleBatch EXCEPT !.phase = p].phase = p
          /\ IdleBatch.phase = "idle"
          /\ Behind(c) /\ UnderWay(c)
          /\ \A p : KindOf(p) \subseteq Forms
      BY KindOfForms DEF Covered, IdleBatch, Phases
    <2>1. ASSUME NEW f \in Forms, EditForm(f) PROVE Behind(c)' /\ UnderWay(c)'
      BY <2>1 DEF EditForm, Quiet
    <2>2. ASSUME NEW b \in Batches, TapUpload(b) PROVE Behind(c)' /\ UnderWay(c)'
      BY <2>2, <2>0 DEF TapUpload, TypeOK, Phases
    <2>3. ASSUME NEW b \in Batches, Query(b) PROVE Behind(c)' /\ UnderWay(c)'
      <3>1. CASE c = b
        <4>1. /\ batch'[c].phase = batch[c].phase
              /\ batch'[c].todo = {f \in KindOf(batch[c].phase) : Wanted(f)}
              /\ UNCHANGED <<form, task>>
          BY <2>3, <3>1 DEF Query, TypeOK, BatchStates
        <4>2. KindOf(batch'[c].phase) = KindOf(batch[c].phase)
          BY <4>1
        <4> QED BY <4>1, <4>2, <2>0 DEF Wanted, KindOf
      <3>2. CASE c # b
        BY <2>3, <3>2, <2>0 DEF Query, TypeOK, KindOf
      <3> QED BY <3>1, <3>2
    <2>4. ASSUME NEW b \in Batches, PhaseDone(b) PROVE Behind(c)' /\ UnderWay(c)'
      <3>1. CASE c = b
        <4>1. /\ \A f \in KindOf(batch[c].phase) : form[f] \notin Waiting
              /\ batch[c].phase \in {"drug", "quality", "verify"} /\ form' = form
          BY <2>4, <3>1, <2>0 DEF PhaseDone, TypeOK, BatchStates, Phases
        <4>2. NextOf[batch[c].phase] \in Phases
          BY <4>1 DEF NextOf, Phases
        <4>3. batch'[c].phase = NextOf[batch[c].phase] /\ ~batch'[c].queried
          BY <2>4, <3>1, <4>2, <2>0 DEF PhaseDone, TypeOK
        <4>4. CASE batch[c].phase = "drug"
          BY <4>1, <4>3, <4>4 DEF NextOf, KindOf
        <4>5. CASE batch[c].phase = "quality"
          BY <4>1, <4>3, <4>5, <2>0 DEF NextOf, KindOf, Forms
        <4>6. CASE batch[c].phase = "verify"
          BY <4>1, <4>3, <4>6 DEF NextOf, KindOf
        <4> QED BY <4>1, <4>4, <4>5, <4>6
      <3>2. CASE c # b
        BY <2>4, <3>2, <2>0 DEF PhaseDone, TypeOK, KindOf
      <3> QED BY <3>1, <3>2
    <2>5. ASSUME NEW b \in Batches, Fail(b) PROVE Behind(c)' /\ UnderWay(c)'
      BY <2>5, <2>0 DEF Fail, Unsubscribe, TypeOK, KindOf
    <2>6. ASSUME NEW b \in Batches, NEW f \in Forms, Subscribe(b, f) PROVE Behind(c)' /\ UnderWay(c)'
      <3>1. CASE StartForm(b, f)
        <4>1. /\ batch'[c].phase = batch[c].phase /\ batch'[c].queried = batch[c].queried
              /\ \A g \in Forms : g \in batch[c].todo => g \in batch'[c].todo \/ (c = b /\ g = f)
          BY <3>1 DEF StartForm, TypeOK, BatchStates
        <4>2. /\ task'[b][f] \in {"sending", "doomed"}
              /\ \A g \in Forms : c # b \/ g # f => task'[c][g] = task[c][g]
              /\ form' = form
          BY <3>1 DEF StartForm, TypeOK, TaskStates
        <4>3. KindOf(batch'[c].phase) = KindOf(batch[c].phase)
          BY <4>1
        <4> QED BY <4>1, <4>2, <4>3, <2>0
      <3>2. CASE StartThrows(b, f)
        BY <3>2, <2>5 DEF StartThrows
      <3> QED BY <2>6, <3>1, <3>2 DEF Subscribe
    <2>7. ASSUME NEW b \in Batches, NEW f \in Forms, Step(b, f) PROVE Behind(c)' /\ UnderWay(c)'
      <3>1. CASE Post(b, f)
        BY <3>1, <2>0 DEF Post, TypeOK, TaskStates, KindOf
      <3>2. CASE Answer(b, f)
        <4>1. /\ form'[f] \notin Waiting /\ \A g \in Forms \ {f} : form'[g] = form[g]
              /\ \A g \in Forms \ {f} : task'[c][g] = task[c][g]
              /\ batch' = batch
          BY <3>2 DEF Answer, Answered, Recorded, TypeOK, TaskStates, Waiting
        <4>2. KindOf(batch'[c].phase) = KindOf(batch[c].phase)
          BY <4>1
        <4> QED BY <4>1, <4>2, <2>0, FormsOfType
      <3>3. CASE UploadFails(b, f)
        BY <3>3, <2>5 DEF UploadFails
      <3> QED BY <2>7, <3>1, <3>2, <3>3 DEF Step
    <2>8. CASE ClearDelete
      <3>1. \A f \in Forms : form'[f] \in Waiting => form[f] \in Waiting
        BY <2>8 DEF ClearDelete, TypeOK, Waiting
      <3>2. UNCHANGED <<batch, task>>
        BY <2>8 DEF ClearDelete
      <3>3. KindOf(batch'[c].phase) = KindOf(batch[c].phase)
        BY <3>2
      <3> QED BY <3>1, <3>2, <3>3, <2>0, FormsOfType
    <2>9. CASE Died
      BY <2>9, <2>0 DEF Died
    <2>10. CASE ClearRead \/ BackOnDialog \/ UNCHANGED vars
      BY <2>10, <2>0 DEF ClearRead, BackOnDialog, vars, KindOf
    <2>11. ASSUME NEW t \in ClearTypes, TapClear(t) PROVE Behind(c)' /\ UnderWay(c)'
      BY <2>11, <2>0 DEF TapClear, KindOf
    <2> QED
      BY <2>1, <2>2, <2>3, <2>4, <2>6, <2>7, <2>8, <2>9, <2>10, <2>11 DEF Next
  <1> QED BY <1>1, <1>2, TypeCorrect, QuietInvariant, PTL DEF Spec

\* The message "all forms uploaded" is true when it is shown, as long as the progress
\* dialog is waited for: every form on the tablet is archived.
THEOREM SuccessIsTrue == ASSUME ~BackDismisses PROVE Spec => SuccessMeansArchived
  <1>1. Covered /\ [Next]_vars
          => [said' = "allUploaded" /\ said # "allUploaded" => \A f \in Forms : form'[f] \notin Waiting]_vars
    <2> SUFFICES ASSUME Covered, Next, said' # said, said' = "allUploaded", NEW f \in Forms
                 PROVE  form'[f] \notin Waiting
      BY DEF vars
    <2>1. PICK b \in Batches : PhaseDone(b) /\ batch[b].phase = "verify"
      <3>1. \A b \in Batches : Fail(b) => FALSE
        BY DEF Fail
      <3>2. \A b \in Batches, g \in Forms : ~Subscribe(b, g) /\ ~Step(b, g)
        BY <3>1 DEF Subscribe, StartForm, StartThrows, Step, Post, Answer, UploadFails
      <3>3. \A g \in Forms : ~EditForm(g)
        BY DEF EditForm
      <3>4. \A b \in Batches : ~TapUpload(b) /\ ~Query(b)
        BY DEF TapUpload, Query
      <3>5. /\ \A t \in ClearTypes : ~TapClear(t)
            /\ ~ClearRead /\ ~ClearDelete /\ ~BackOnDialog /\ ~Died
        BY DEF TapClear, ClearRead, ClearDelete, BackOnDialog, Died
      <3> QED BY <3>2, <3>3, <3>4, <3>5 DEF Next, PhaseDone
    <2> QED BY <2>1 DEF PhaseDone, Covered, Behind
  <1> QED BY <1>1, CoveredInvariant, PTL DEF Spec, SuccessMeansArchived

\* As long as the progress dialog is waited for, batches implement Archiving: a form is
\* recorded only once it was accepted and never sent again.
THEOREM BatchKeepsPromise == ASSUME ~BackDismisses PROVE Spec => KeepsPromise
  <1>1. Init => Promise!Init
    BY DEF Init, Promise!Init, rowStatus
  <1>2. TypeOK /\ AcceptedInv /\ Sending /\ [Next]_vars => [Promise!Next]_(Promise!vars)
    <2> SUFFICES ASSUME TypeOK, AcceptedInv, Sending, [Next]_vars
                 PROVE  Promise!Next \/ UNCHANGED <<rowStatus, accepted>>
      BY DEF Promise!vars
    <2>1. ASSUME NEW f \in Forms, EditForm(f) PROVE Promise!Next \/ UNCHANGED <<rowStatus, accepted>>
      <3>1. CASE form'[f] # "gone"
        BY <2>1, <3>1 DEF EditForm, TypeOK, rowStatus, Waiting
      <3>2. CASE form'[f] = "gone"
        <4>1. Promise!Remove({f})
          BY <2>1, <3>2 DEF EditForm, TypeOK, rowStatus, Promise!Remove
        <4> QED BY <4>1 DEF Promise!Next
      <3> QED BY <3>1, <3>2
    <2>2. ASSUME NEW b \in Batches, NEW f \in Forms, Step(b, f)
          PROVE  Promise!Next \/ UNCHANGED <<rowStatus, accepted>>
      <3>1. CASE Post(b, f)
        <4>1. Promise!Accept(f)
          BY <3>1 DEF Post, Promise!Accept, rowStatus, Sending, Held
        <4> QED BY <4>1 DEF Promise!Next
      <3>2. CASE Answer(b, f) /\ form[f] = "gone"
        BY <3>2 DEF Answer, Recorded, TypeOK, rowStatus
      <3>3. CASE Answer(b, f) /\ form[f] # "gone"
        <4>1. Promise!Record(f)
          BY <3>3 DEF Answer, Answered, Recorded, TypeOK, rowStatus, Promise!Record, Sending, Held, AcceptedInv
        <4> QED BY <4>1 DEF Promise!Next
      <3>4. CASE UploadFails(b, f)
        BY <3>4 DEF UploadFails, Fail, rowStatus
      <3> QED BY <2>2, <3>1, <3>2, <3>3, <3>4 DEF Step
    <2>3. CASE ClearDelete
      <3>1. Promise!Remove({f \in ToDelete : form[f] # "none"} \cap Forms)
        BY <2>3 DEF ClearDelete, TypeOK, rowStatus, Promise!Remove
      <3> QED BY <3>1 DEF Promise!Next
    <2>4. ASSUME NEW b \in Batches, TapUpload(b) \/ Query(b) \/ PhaseDone(b)
          PROVE UNCHANGED <<rowStatus, accepted>>
      BY <2>4 DEF TapUpload, Query, PhaseDone, rowStatus
    <2>5. ASSUME NEW b \in Batches, NEW f \in Forms, Subscribe(b, f)
          PROVE UNCHANGED <<rowStatus, accepted>>
      BY <2>5 DEF Subscribe, StartForm, StartThrows, Fail, rowStatus
    <2>6. ASSUME NEW t \in ClearTypes, TapClear(t) PROVE UNCHANGED <<rowStatus, accepted>>
      BY <2>6 DEF TapClear, rowStatus
    <2>7. CASE ClearRead \/ BackOnDialog \/ Died \/ UNCHANGED vars
      BY <2>7 DEF ClearRead, BackOnDialog, Died, vars, rowStatus
    <2> QED BY <2>1, <2>2, <2>3, <2>4, <2>5, <2>6, <2>7 DEF Next
  <1> QED
    BY <1>1, <1>2, TypeCorrect, AcceptedInvariant, SendingInvariant, PTL
       DEF Spec, KeepsPromise, Promise!Spec

=============================================================================
