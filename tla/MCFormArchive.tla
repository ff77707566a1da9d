---------------------------- MODULE MCFormArchive ----------------------------
(* Instances of FormArchive for TLC. *)
EXTENDS FormArchive, TLC

\* Which client, stage or sample content it is makes no difference to any step, nor does
\* which slot a clean-up task takes.
Symmetry == Permutations(Clients) \cup Permutations(SampleTypes) \cup Permutations(SampleVals)
              \cup Permutations(StripJobs)

=============================================================================
