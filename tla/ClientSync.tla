------------------------------ MODULE ClientSync ------------------------------
(***************************************************************************)
(* Synchronising the client units (SyncDataRepository): pages of units     *)
(* that changed at the server since a watermark are pulled and saved, then *)
(* the units edited on the tablet are pushed.  The server is shared with   *)
(* other tablets.                                                          *)
(*                                                                         *)
(* A unit is its name, which is unique in the tablet's table.  Its content *)
(* is the time it was written; a row is dirty when Is_Invalidate is 0.     *)
(* The watermark is not stored: it is the newest modification time of the  *)
(* table if a clean row has it, else the year 2000 (here 0).               *)
(***************************************************************************)
EXTENDS Naturals, FiniteSets

CONSTANTS
    Units,          \* the client units (受检单位), by name
    Syncs,          \* slots for syncs that run at once (several only with Back)
    PageSize,       \* 50: a shorter page is the last one
    BackDismisses,  \* may Back cancel the progress dialog (Android: TRUE)
    Others,         \* other tablets write: "never", "between" this one's syncs, "anytime"
    FormUploads,    \* are forms, and with them their units, uploaded between syncs
    MaxNow          \* bound: writes on the tablet and at the server

ASSUME SyncAssumption ==
    /\ IsFiniteSet(Units)
    /\ PageSize \in Nat \ {0}
    /\ BackDismisses \in BOOLEAN /\ FormUploads \in BOOLEAN
    /\ Others \in {"never", "between", "anytime"}
    /\ MaxNow \in Nat

VARIABLES
    row,      \* the CLIENT_UNIT table
    server,   \* the server's units
    now,      \* the clock
    sync,     \* per slot: where it is and what it holds
    dialog,   \* the progress dialog is showing
    edit,     \* the unit open on AddCompanyActivity: was it stored, with an id, when opened
    told,     \* how the last sync ended, as told to the user
    began     \* the units the server held when the last sync was started

vars == <<row, server, now, sync, dialog, edit, told, began>>

NoRow == [in |-> FALSE, id |-> FALSE, val |-> 0, dirty |-> FALSE, lmt |-> 0]
NoUnit == [in |-> FALSE, val |-> 0, lmt |-> 0]
NoPage == [u \in Units |-> NoUnit]
IdleSync == [pc |-> "idle", mark |-> 0, page |-> NoPage, refused |-> {}]

Rows == [in : BOOLEAN, id : BOOLEAN, val : Nat, dirty : BOOLEAN, lmt : Nat]
ServerUnits == [in : BOOLEAN, val : Nat, lmt : Nat]
SyncStates == [pc : {"idle", "pull", "pulled", "push", "pushing", "pushed"}, mark : Nat,
               page : [Units -> ServerUnits], refused : SUBSET Units]
Outcomes == {"nothing", "success", "someFailed", "error", "clash"}

TypeOK ==
    /\ row \in [Units -> Rows]
    /\ server \in [Units -> ServerUnits]
    /\ now \in Nat
    /\ sync \in [Syncs -> SyncStates]
    /\ dialog \in BOOLEAN
    /\ edit \in [open : SUBSET Units, stored : BOOLEAN, id : BOOLEAN]
    /\ told \in Outcomes
    /\ began \in SUBSET Units
    /\ \A u \in Units : row[u].in /\ ~row[u].dirty => row[u].id

NoEdit == [open |-> {}, stored |-> FALSE, id |-> FALSE]

Init ==
    /\ row = [u \in Units |-> NoRow] /\ server = [u \in Units |-> NoUnit]
    /\ now = 0 /\ sync = [s \in Syncs |-> IdleSync] /\ dialog = FALSE
    /\ edit = NoEdit /\ told = "nothing" /\ began = {}

Running == {s \in Syncs : sync[s].pc # "idle"}

(***************************************************************************)
(* AddCompanyActivity works on a copy of the row and saves it whole.       *)
(***************************************************************************)
OpenUnit(u) ==
    /\ ~dialog /\ edit.open = {}
    /\ edit' = [open |-> {u}, stored |-> row[u].in, id |-> row[u].id]
    /\ UNCHANGED <<row, server, now, sync, dialog, told, began>>

CloseUnit ==
    /\ edit.open # {}
    /\ edit' = NoEdit
    /\ UNCHANGED <<row, server, now, sync, dialog, told, began>>

\* The row as it is saved.  Mutant: Is_Invalidate is not reset.
Edited_StillClean(id, t) == [in |-> TRUE, id |-> id, val |-> t, dirty |-> FALSE, lmt |-> t]
Edited(id, t) == [in |-> TRUE, id |-> id, val |-> t, dirty |-> TRUE, lmt |-> t]

\* A copy that is not a stored row is not saved when the name is taken by then.
SaveUnit(u) ==
    /\ u \in edit.open /\ (edit.stored \/ ~row[u].in) /\ now < MaxNow
    /\ now' = now + 1
    /\ row' = [row EXCEPT ![u] = Edited(edit.id, now + 1)]
    /\ edit' = NoEdit
    /\ UNCHANGED <<server, sync, dialog, told, began>>

\* Another tablet's unit reaches the server.
OtherWrites(u) ==
    /\ now < MaxNow /\ (Others = "anytime" \/ (Others = "between" /\ Running = {}))
    /\ now' = now + 1
    /\ server' = [server EXCEPT ![u] = [in |-> TRUE, val |-> now + 1, lmt |-> now + 1]]
    /\ UNCHANGED <<row, sync, dialog, edit, told, began>>

\* FormRepository.uploadClientUnit: the unit of a form goes to the server, which stamps
\* it, and the answer is saved.  The server refuses a second unit of one name.  Request
\* and save are one step, taken while no sync shows its dialog.
Uploaded(r) == [r EXCEPT !.id = TRUE, !.lmt = now + 1]
UploadClientUnit(u) ==
    /\ FormUploads /\ ~dialog /\ now < MaxNow
    /\ row[u].in /\ (row[u].id \/ ~server[u].in)
    /\ now' = now + 1
    /\ server' = [server EXCEPT ![u] = [in |-> TRUE, val |-> row[u].val, lmt |-> now + 1]]
    /\ row' = [row EXCEPT ![u] = Uploaded(@)]
    /\ UNCHANGED <<sync, dialog, edit, told, began>>

(***************************************************************************)
(* One sync.                                                               *)
(***************************************************************************)

\* The query's "LAST_MODIFY_TIME = max and Is_Invalidate = 1".  Mutants: never found;
\* edited rows count.
NewestClean(r, u) == r[u].in /\ ~r[u].dirty /\ \A v \in Units : r[v].in => r[v].lmt <= r[u].lmt
Watermark_Lost(r) == 0
Watermark_OfDirty(r) == CHOOSE n \in 0..now : /\ n = 0 \/ \E u \in Units : r[u].in /\ r[u].lmt = n
                                              /\ \A u \in Units : r[u].in => r[u].lmt <= n
Watermark(r) == IF \E u \in Units : NewestClean(r, u)
                  THEN r[CHOOSE u \in Units : NewestClean(r, u)].lmt ELSE 0

StartSync(s) ==
    /\ ~dialog /\ edit.open = {} /\ sync[s].pc = "idle"
    /\ sync' = [sync EXCEPT ![s] = [IdleSync EXCEPT !.pc = "pull", !.mark = Watermark(row)]]
    /\ dialog' = TRUE /\ told' = "nothing"
    /\ began' = {u \in Units : server[u].in}
    /\ UNCHANGED <<row, server, now, edit>>

Holding(x, pc, page) == [x EXCEPT !.pc = pc, !.page = page]

\* GetLatest: the oldest PageSize units that changed after the mark.
Newer(m) == {u \in Units : server[u].in /\ server[u].lmt > m}
InPage(m, u) == u \in Newer(m) /\ Cardinality({v \in Newer(m) : server[v].lmt < server[u].lmt}) < PageSize

PullAnswer(s) ==
    /\ sync[s].pc = "pull"
    /\ sync' = [sync EXCEPT ![s] = Holding(@, "pulled",
                   [u \in Units |-> IF InPage(@.mark, u) THEN server[u] ELSE NoUnit])]
    /\ UNCHANGED <<row, server, now, dialog, edit, told, began>>

Got(s) == {u \in Units : sync[s].page[u].in}

\* A unit is looked up by its remote id; one that is not found is inserted, which fails
\* on the unique name.  Mutant: names need not be unique.
Clash_None(s) == FALSE
Clash(s) == \E u \in Got(s) : row[u].in /\ ~row[u].id

FromServer(x) == [in |-> TRUE, id |-> TRUE, val |-> x.val, dirty |-> FALSE, lmt |-> x.lmt]

PullSave(s) ==
    /\ sync[s].pc = "pulled" /\ ~Clash(s)
    /\ row' = [u \in Units |-> IF u \in Got(s) THEN FromServer(sync[s].page[u]) ELSE row[u]]
    /\ sync' = [sync EXCEPT ![s] = IF Cardinality(Got(s)) < PageSize
                                     THEN [IdleSync EXCEPT !.pc = "push"]
                                     ELSE [IdleSync EXCEPT !.pc = "pull", !.mark = Watermark(row')]]
    /\ UNCHANGED <<server, now, dialog, edit, told, began>>

End(s, outcome) ==
    /\ sync' = [sync EXCEPT ![s] = IdleSync]
    /\ dialog' = FALSE /\ told' = outcome
    /\ UNCHANGED <<server, now, edit, began>>

PullClash(s) ==
    /\ sync[s].pc = "pulled" /\ Clash(s)
    /\ End(s, "clash") /\ UNCHANGED row

Dirty == {u \in Units : row[u].in /\ row[u].dirty}

\* What is sent: the rows as they are read.  A row without remote id is told by lmt 0.
PushRead(s) ==
    /\ sync[s].pc = "push" /\ Dirty # {}
    /\ sync' = [sync EXCEPT ![s] = Holding(@, "pushing",
                   [u \in Units |-> IF u \in Dirty
                      THEN [in |-> TRUE, val |-> row[u].val, lmt |-> IF row[u].id THEN row[u].lmt ELSE 0]
                      ELSE NoUnit])]
    /\ UNCHANGED <<row, server, now, dialog, edit, told, began>>

PushNothing(s) ==
    /\ sync[s].pc = "push" /\ Dirty = {}
    /\ End(s, "success") /\ UNCHANGED row

\* The server stamps what it accepts; it refuses (ErrInfo) a second unit of one name,
\* and may refuse others.
PushAnswer(s) ==
    /\ sync[s].pc = "pushing" /\ now < MaxNow
    /\ \E refused \in SUBSET Got(s) :
         /\ \A u \in Got(s) : sync[s].page[u].lmt = 0 /\ server[u].in => u \in refused
         /\ LET stamped(u) == [in |-> TRUE, val |-> sync[s].page[u].val, lmt |-> now + 1]
                accepted == Got(s) \ refused
            IN /\ server' = [u \in Units |-> IF u \in accepted THEN stamped(u) ELSE server[u]]
               /\ sync' = [sync EXCEPT ![s] = [Holding(@, "pushed",
                     [u \in Units |-> IF u \in accepted THEN stamped(u) ELSE @.page[u]])
                     EXCEPT !.refused = refused]]
         /\ now' = now + 1
    /\ UNCHANGED <<row, dialog, edit, told, began>>

\* The units the answer has no error for are saved as clean.  Mutant: all of them.
Saved_All(s) == Got(s)
Saved(s) == Got(s) \ sync[s].refused

PushSave(s) ==
    /\ sync[s].pc = "pushed"
    /\ row' = [u \in Units |-> IF u \in Saved(s) THEN FromServer(sync[s].page[u]) ELSE row[u]]
    /\ End(s, IF sync[s].refused = {} THEN "success" ELSE "someFailed")

\* A request, or one of the dictionaries fetched beside it, fails; an answer is lost.
SyncFails(s) ==
    /\ sync[s].pc # "idle"
    /\ End(s, "error") /\ UNCHANGED row

BackOnDialog ==
    /\ BackDismisses /\ dialog
    /\ dialog' = FALSE
    /\ UNCHANGED <<row, server, now, sync, edit, told, began>>

SyncStep(s) ==
    \/ PullAnswer(s) \/ PullSave(s) \/ PullClash(s) \/ PushRead(s) \/ PushNothing(s)
    \/ PushAnswer(s) \/ PushSave(s)

Next ==
    \/ \E u \in Units : OpenUnit(u) \/ SaveUnit(u) \/ OtherWrites(u) \/ UploadClientUnit(u)
    \/ CloseUnit
    \/ \E s \in Syncs : StartSync(s) \/ SyncStep(s) \/ SyncFails(s)
    \/ BackOnDialog

\* Requests are answered or time out; the user, other tablets and failures owe nothing.
Fairness == \A s \in Syncs : WF_vars(SyncStep(s) \/ SyncFails(s))

Spec == Init /\ [][Next]_vars /\ Fairness

(***************************************************************************)
(* Properties.                                                             *)
(***************************************************************************)

\* A clean row is what the server once had: never newer than the server's unit, and the
\* same as it when equally old.
CleanIsServers ==
    \A u \in Units : row[u].in /\ ~row[u].dirty =>
        /\ server[u].in /\ row[u].id
        /\ row[u].lmt <= server[u].lmt
        /\ row[u].lmt = server[u].lmt => row[u].val = server[u].val

\* No sync changes the content of a unit that was added on the tablet and that the
\* server has not given an id.
NewUnitKept ==
    [][\A u \in Units : row[u].in /\ ~row[u].id /\ Running # {} => row'[u].val = row[u].val]_vars

\* "同步数据成功！": when the user is told so, the tablet has every unit the server had
\* when the sync began, as it is there, and the server everything the tablet has.
SuccessMeansInSync ==
    [][told' = "success" /\ told # "success" =>
         /\ \A u \in began : row'[u].in
         /\ \A u \in Units : row'[u].in => server[u].in /\ row'[u].val = server[u].val]_vars

\* An edit saved on the tablet ("保存成功！") is not thrown away by a sync: the content of a
\* dirty row does not change while one runs.
EditsSurvive ==
    [][\A u \in Units : u \in Dirty /\ Running # {} =>
         row'[u].val = row[u].val]_vars

\* A sync ends, unless a unit edited on the tablet is newer than all it pulled and the
\* server has a full page of units: then the first page is pulled again and again.
Stuck ==
    /\ \A u \in Units : ~NewestClean(row, u)
    /\ Cardinality({u \in Units : server[u].in}) >= PageSize
SyncEnds == dialog ~> ~dialog \/ Stuck

=============================================================================
