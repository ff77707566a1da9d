------------------------------ MODULE Archiving ------------------------------
(***************************************************************************)
(* What archiving promises about every form of a tablet, whoever uploads   *)
(* it: a form is marked archived only after the server accepted it, an     *)
(* archived form is never sent again and never opened again.               *)
(***************************************************************************)
EXTENDS Naturals

CONSTANT Forms

VARIABLES
    status,    \* of each form's row; a form that is not there yet is open
    accepted   \* how often the server accepted each form

vars == <<status, accepted>>

Init ==
    /\ status = [f \in Forms |-> "open"]
    /\ accepted = [f \in Forms |-> 0]

\* The server accepts a form POST.  The tablet may never learn of it.
Accept(f) ==
    /\ status[f] # "archived"
    /\ accepted' = [accepted EXCEPT ![f] = @ + 1]
    /\ UNCHANGED status

\* The answer is recorded.
Record(f) ==
    /\ accepted[f] > 0 /\ status[f] = "open"
    /\ status' = [status EXCEPT ![f] = "archived"]
    /\ UNCHANGED accepted

\* Rows are deleted.
Remove(S) ==
    /\ status' = [f \in Forms |-> IF f \in S THEN "gone" ELSE status[f]]
    /\ UNCHANGED accepted

Next == (\E f \in Forms : Accept(f) \/ Record(f)) \/ \E S \in SUBSET Forms : Remove(S)

Spec == Init /\ [][Next]_vars

=============================================================================
