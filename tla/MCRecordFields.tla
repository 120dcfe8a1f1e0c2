---------------------------- MODULE MCRecordFields ----------------------------
(* RecordFields for TLC: a login, a text field labelled "FILEREF", and the  *)
(* fileRef field that uploads add.                                           *)
EXTENDS RecordFields

CONSTANTS a, b

Name(word, upper) == [word |-> word, upper |-> upper]

MCFileRef == Name("fileref", FALSE)

MCShape ==
  {[type |-> Name("login", FALSE), label |-> None],
   [type |-> Name("text", FALSE), label |-> Name("fileref", TRUE)]}

Symmetry == Permutations({a, b})

=============================================================================
