--------------------------------- MODULE Totp ---------------------------------
(***************************************************************************)
(* One-time codes (core/utils.go): the parameters of an otpauth URL with   *)
(* their defaults, the time step a code belongs to, and the digits of a    *)
(* code.  Parameters are any integers: nothing in the code refuses one.    *)
(* The HMAC of the secret is external: any number below 2^31.              *)
(***************************************************************************)
EXTENDS Integers, Sequences

CONSTANTS
  Missing,   \* a parameter the URL does not have, or not as a number
  Base,      \* of the digits a code is written in
  WordSize   \* how many numbers a uint32 can be

ASSUME BaseAssumption == Base \in Nat \ {0, 1} /\ WordSize \in Nat \ {0, 1}

Or(parameter, default) == IF parameter = Missing THEN default ELSE parameter

\* GetTotpCode and TOTP.Generate: the default for nothing and for zero.
EffectivePeriod(period) ==
  IF Or(period, 30) = 0 THEN 30 ELSE Or(period, 30)

EffectiveDigits(digits) == IF Or(digits, 6) = 0 THEN 6 ELSE Or(digits, 6)

\* Division in Go rounds towards zero, and the remainder takes the sign of
\* what is divided: here a moment, which the clock gives.
Counter(time, period) ==
  LET p == EffectivePeriod(period)
  IN  IF p > 0 THEN time \div p ELSE -(time \div (-p))

Gone(time, period) ==
  LET p == EffectivePeriod(period)
  IN  IF p > 0 THEN time % p ELSE time % (-p)

\* Broken variant: the seconds gone instead of those left.
SecondsGone(time, period) == Gone(time, period)

TimeLeft(time, period) == EffectivePeriod(period) - Gone(time, period)

-----------------------------------------------------------------------------
(* generateOTP: the digits of a code                                        *)

Power[n \in Nat] == IF n = 0 THEN 1 ELSE Base * Power[n - 1]

\* strconv.Itoa: no leading zeros, and one digit for zero.
Itoa[n \in Nat] ==
  IF n < Base THEN <<n>> ELSE Append(Itoa[n \div Base], n % Base)

\* Broken variant: what is short stays short.
Unpadded(result, digits) == result

\* Zeros in front, then the last of them.
Padded(result, digits) ==
  IF Len(result) < digits
    THEN LET padded == [i \in 1..digits |-> 0] \o result
         IN  SubSeq(padded, Len(padded) - digits + 1, Len(padded))
    ELSE result

\* uint32(math.Pow10(digits)): a power below one becomes zero, and what a
\* power that does not fit becomes is left to the compiler.
Moduli(n) ==
  IF n < 0 THEN {0}
  ELSE IF Power[n] < WordSize THEN {Power[n]} ELSE 0..(WordSize - 1)

\* The codes there can be; a remainder by zero panics, with no code.
Codes(decimal, digits) ==
  LET n == EffectiveDigits(digits)
  IN  {Padded(Itoa[decimal % m], n) : m \in Moduli(n) \ {0}}

=============================================================================
