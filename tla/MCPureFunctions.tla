--------------------------- MODULE MCPureFunctions ---------------------------
(* PureFunctions for TLC: blocks of two bytes, codes of base 4, and all four  *)
(* categories of a password with counts around zero.                         *)
EXTENDS PureFunctions

MCBytes == {0, 1, 2, 255}

MCData == UNION {[1..n -> MCBytes] : n \in 0..3} \cup [1..4 -> {1, 2}]

MCPeriod == {Missing, 0, 1, 2, 30, 60, -1, -30}

\* A word takes powers of four up to the sixth.
MCDigits == {Missing, 0, 1, 2, 3, 4, 7, -1}

MCCount == -2..2 \cup {Unspecified}

MCLength == {-1, 0, 1, 3, 5}

=============================================================================
