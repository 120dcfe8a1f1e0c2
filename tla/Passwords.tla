------------------------------ MODULE Passwords ------------------------------
(***************************************************************************)
(* GeneratePassword (core/utils.go): how many characters of which category *)
(* a password gets.  The random choice of each character and the shuffle   *)
(* are abstracted to the numbers of each category that may come out; a     *)
(* character of the custom set counts as special, whatever it is.          *)
(***************************************************************************)
EXTENDS Integers

CONSTANTS
  Unspecified,     \* no count, or none that is a number
  DefaultLength    \* DefaultPasswordLength

ASSUME LengthAssumption == DefaultLength \in Nat \ {0}

Category == {"lowercase", "uppercase", "digits", "specialCharacters"}

Abs(n) == IF n < 0 THEN -n ELSE n

\* An option is a count for each category: a minimum if positive, exact if it
\* is zero or negative.
Given(counts) == {c \in Category : counts[c] # Unspecified}
Exact(counts) == {c \in Given(counts) : counts[c] <= 0}

MinLength(length) == IF length <= 0 THEN DefaultLength ELSE length

BaseCount(counts, c) == IF c \in Given(counts) THEN Abs(counts[c]) ELSE 0

\* The characters of all four categories.
Total(number) ==
  number["lowercase"] + number["uppercase"] + number["digits"]
    + number["specialCharacters"]

SumCategories(counts) == Total([c \in Category |-> BaseCount(counts, c)])

\* Broken variant: exact counts that are too small stay exact.
NeverConverted(counts, length) == FALSE

\* All four are exact and too few: they become minimums.
Converted(counts, length) ==
  Exact(counts) = Category /\ SumCategories(counts) < MinLength(length)

ExtraCount(counts, length) ==
  IF MinLength(length) > SumCategories(counts)
    THEN MinLength(length) - SumCategories(counts) ELSE 0

\* The categories that fill a password up: those without a count, those with a
\* minimum, and all of them if there is no such category.
ExtraChars(counts, length) ==
  LET open == {c \in Category :
                 \/ c \notin Given(counts)
                 \/ counts[c] > 0
                 \/ counts[c] < 0 /\ Converted(counts, length)}
  IN  IF open = {} THEN Category ELSE open

\* The passwords there may be, each as its numbers of characters.
Generated(counts, length) ==
  LET extra == ExtraCount(counts, length)
  IN  {[c \in Category |-> BaseCount(counts, c) + share[c]] :
         share \in {f \in [Category -> 0..extra] :
                      /\ Total(f) = extra
                      /\ \A c \in Category \ ExtraChars(counts, length) : f[c] = 0}}

=============================================================================
