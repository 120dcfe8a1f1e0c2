------------------------------ MODULE MCRecords ------------------------------
(* Records and Files for TLC: objects, edits and files are interchangeable.  *)
EXTENDS Files, TLC

Symmetry == Permutations(Handle) \cup Permutations(Edit) \cup Permutations(File)

=============================================================================
