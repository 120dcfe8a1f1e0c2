------------------------------ MODULE MCFolders ------------------------------
(* RecordCreation, and with it Folders, for TLC.  Folders and records are   *)
(* interchangeable: Symmetry is for larger instances, which leave the       *)
(* liveness property out.                                                    *)
EXTENDS RecordCreation

Symmetry == Permutations(Folder) \cup Permutations(Record)

=============================================================================
