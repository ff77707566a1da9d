---------------------------- MODULE MCBatchUpload ----------------------------
(* Instances of BatchUpload for TLC. *)
EXTENDS BatchUpload, TLC

\* Forms of a type, and taps, are interchangeable.
Symmetry == Permutations(DrugForms) \cup Permutations(QualityForms) \cup Permutations(Batches)

=============================================================================
