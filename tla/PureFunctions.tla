---------------------------- MODULE PureFunctions ----------------------------
(***************************************************************************)
(* The computations of the SDK that keep no state, one call at a time:     *)
(* padding, one-time codes and passwords, with what each promises of every *)
(* argument.  "call" is the call; nothing follows it.                      *)
(***************************************************************************)
EXTENDS Padding, Totp, Passwords

CONSTANTS
  Data,      \* messages
  Time,      \* moments, in seconds
  Period,    \* periods of a URL
  Decimal,   \* truncated hashes
  Digits,    \* numbers of digits
  Count,     \* counts of a category
  Length     \* minimum lengths

ASSUME ArgumentAssumption ==
  /\ Data \subseteq Seq(Byte)
  /\ Time \subseteq Nat /\ Decimal \subseteq Nat
  /\ Period \subseteq Int \cup {Missing} /\ Missing \notin Int
  /\ Digits \subseteq Int \cup {Missing}
  /\ Count \subseteq Int \cup {Unspecified} /\ Unspecified \notin Int
  /\ Length \subseteq Int

VARIABLE call

\* GetTotpCode takes the moment from the clock, the parameters from the URL.
Call ==
       [name : {"EncryptAesCbc"}, data : Data, noise : Data]
  \cup [name : {"GetTotpCode"}, time : Time, period : Period]
  \cup [name : {"generateOTP"}, decimal : Decimal, digits : Digits]
  \cup [name : {"GeneratePassword"}, counts : [Category -> Count], length : Length]

Init == call \in Call

\* A call changes nothing, and the next one may be any.
Next == UNCHANGED call

Spec == Init /\ [][Next]_call

-----------------------------------------------------------------------------
(* Properties *)

Calls(name) == call.name = name

\* What was encrypted is what is decrypted, for every length of the data and
\* whatever bytes it ends in.
RoundTrip ==
  Calls("EncryptAesCbc") =>
    DecryptAesCbc(EncryptAesCbc(call.data, "key"), "key", call.noise) = call.data

\* Under a wrong key nothing is taken off that is not a whole padding: what is
\* returned is the noise itself, or it is what would be padded to the noise.
OnlyPaddingRemoved ==
  Calls("EncryptAesCbc") =>
    LET result == DecryptAesCbc(EncryptAesCbc(call.data, "key"), "other", call.noise)
    IN  result = call.noise \/ pkcs7Pad(result) = call.noise

\* A code is the same until the time left is over, and then it is another: the
\* counter moves on by one.  A period below zero has a time left below zero.
CodeLastsTimeLeft ==
  Calls("GetTotpCode") =>
    LET left == TimeLeft(call.time, call.period)
        now == Counter(call.time, call.period)
    IN  IF EffectivePeriod(call.period) < 0 THEN left < 0
        ELSE /\ left \in 1..EffectivePeriod(call.period)
             /\ \A s \in 0..(left - 1) : Counter(call.time + s, call.period) = now
             /\ Counter(call.time + left, call.period) = now + 1

\* A code has the digits asked for, or six, and they are the last ones of the
\* number if their power fits into a uint32: up to nine.  For more digits the
\* length is all that is sure of a code, and for fewer than none there is none.
CodeIsLastDigits ==
  Calls("generateOTP") =>
    LET codes == Codes(call.decimal, call.digits)
        n == EffectiveDigits(call.digits)
    IN  /\ codes = {} <=> n < 0
        /\ \A code \in codes : Len(code) = n
        /\ n > 0 /\ Power[n] < WordSize =>
             \A code \in codes, i \in 1..n :
               code[i] = (call.decimal \div Power[n - i]) % Base

\* "Positive values specify minimum length, zero or negative - exact length",
\* and exact values become minimums if there are only exact ones and they are
\* too few; a category without a count is used only if the others do not reach
\* the length, and one with the count zero only if all four are zero.
PasswordAsAsked ==
  Calls("GeneratePassword") =>
    LET counts == call.counts
        sum == SumCategories(counts)
        min == IF call.length > 0 THEN call.length ELSE DefaultLength
        minimums == Given(counts) = Category /\ sum < min
                      /\ \A c \in Category : counts[c] <= 0
    IN  /\ Generated(counts, call.length) # {}
        /\ \A password \in Generated(counts, call.length) :
             /\ Total(password) = IF sum < min THEN min ELSE sum
             /\ \A c \in Category \ Given(counts) : password[c] > 0 => sum < min
             /\ \A c \in Given(counts) :
                  IF counts[c] > 0 \/ minimums
                    THEN /\ password[c] >= Abs(counts[c])
                         /\ counts[c] = 0 /\ password[c] > 0 => sum = 0
                    ELSE password[c] = Abs(counts[c])

=============================================================================
