---------------------------- MODULE MCClientSync ----------------------------
(* Instances of ClientSync for TLC. *)
EXTENDS ClientSync, TLC

\* Which unit or slot it is makes no difference to any step.
Symmetry == Permutations(Units) \cup Permutations(Syncs)

=============================================================================
