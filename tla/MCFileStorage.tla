---------------------------- MODULE MCFileStorage ----------------------------
(* FileStorage for TLC: keys, values and readers are interchangeable.       *)
EXTENDS FileStorage, TLC

Symmetry == Permutations(Key) \cup Permutations(Value) \cup Permutations(Reader)

=============================================================================
