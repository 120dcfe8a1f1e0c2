------------------------- MODULE PureFunctionsProofs -------------------------
(***************************************************************************)
(* Padding is undone for every message and every block size, and a code    *)
(* lasts exactly the time it is given, for every period that is not below  *)
(* zero and every moment; what the others give is stated too.              *)
(***************************************************************************)
EXTENDS PureFunctions, SequenceTheorems, Recursion, TLAPS

\* Division with remainder, and that it is unique (PureFunctions: the block a
\* message ends in, the time step a moment is in).
LEMMA Division ==
  ASSUME NEW n \in Nat, NEW m \in Nat \ {0}
  PROVE  /\ n % m \in 0..(m - 1)
         /\ n \div m \in Nat
         /\ n = m * (n \div m) + (n % m)
OBVIOUS

LEMMA DivisionUnique ==
  ASSUME NEW n \in Nat, NEW m \in Nat \ {0}, NEW q \in Nat, NEW r \in 0..(m - 1),
         n = m * q + r
  PROVE  n \div m = q /\ n % m = r
<1> DEFINE p == n \div m
           s == n % m
<1>1. p \in Nat /\ s \in 0..(m - 1) /\ n = m * p + s
  BY Division
<1> HIDE DEF p, s
<1>2. ~(p < q)
  <2>1. SUFFICES ASSUME p < q PROVE FALSE
    OBVIOUS
  <2>2. m * (p + 1) <= m * q
    BY <1>1, <2>1
  <2>3. m * (p + 1) = m * p + m
    BY <1>1
  <2> QED BY <1>1, <2>2, <2>3
<1>3. ~(q < p)
  <2>1. SUFFICES ASSUME q < p PROVE FALSE
    OBVIOUS
  <2>2. m * (q + 1) <= m * p
    BY <1>1, <2>1
  <2>3. m * (q + 1) = m * q + m
    OBVIOUS
  <2> QED BY <1>1, <2>2, <2>3
<1>4. p = q
  BY <1>1, <1>2, <1>3
<1>5. s = r
  BY <1>1, <1>4
<1> QED BY <1>4, <1>5 DEF p, s

\* What is divided by two or more gets smaller.
LEMMA QuotientSmaller ==
  ASSUME NEW n \in Nat, NEW m \in Nat \ {0, 1}, NEW q \in Nat, NEW r \in Nat,
         n = m * q + r, ~(n < m)
  PROVE  q < n
<1>1. CASE q = 0
  BY <1>1
<1>2. CASE q > 0
  <2>1. m * q >= 2 * q
    BY <1>2
  <2>2. m * q \in Nat
    OBVIOUS
  <2> DEFINE p == m * q
  <2> HIDE DEF p
  <2>3. p \in Nat /\ p >= 2 * q /\ n = p + r
    BY <2>1, <2>2 DEF p
  <2> QED BY <1>2, <2>3
<1> QED BY <1>1, <1>2

\* Every call has its type: what it is given is what the assumptions say.
LEMMA CallsTyped == Spec => [](call \in Call)
<1>1. Init => call \in Call
  BY DEF Init
<1>2. call \in Call /\ [Next]_call => (call \in Call)'
  BY DEF Next
<1> QED BY <1>1, <1>2, PTL DEF Spec

-----------------------------------------------------------------------------
(* One-time codes                                                           *)

LEMMA EffectivePeriodNonzero ==
  ASSUME NEW period \in Period
  PROVE  EffectivePeriod(period) \in Int \ {0}
BY ArgumentAssumption DEF EffectivePeriod, Or

\* The window of a code, for every moment and every period that is not negative.
LEMMA Window ==
  ASSUME NEW time \in Nat, NEW period \in Period, ~(EffectivePeriod(period) < 0)
  PROVE  LET left == TimeLeft(time, period)
             now == Counter(time, period)
         IN  /\ left \in 1..EffectivePeriod(period)
             /\ \A s \in 0..(left - 1) : Counter(time + s, period) = now
             /\ Counter(time + left, period) = now + 1
<1> DEFINE p == EffectivePeriod(period)
           q == time \div p
           r == time % p
<1>1. p \in Nat \ {0}
  BY EffectivePeriodNonzero
<1> HIDE DEF p
<1>2. q \in Nat /\ r \in 0..(p - 1) /\ time = p * q + r
  BY <1>1, Division
<1> HIDE DEF q, r
<1>3. p - r \in 1..p
  BY <1>1, <1>2
<1>4. ASSUME NEW s \in 0..(p - r - 1) PROVE (time + s) \div p = q
  <2>1. r + s \in 0..(p - 1) /\ time + s = p * q + (r + s) /\ time + s \in Nat
    BY <1>1, <1>2
  <2> QED BY <1>1, <1>2, <2>1, DivisionUnique
<1>5. (time + (p - r)) \div p = q + 1
  <2>1. p * (q + 1) = p * q + p
    BY <1>1, <1>2
  <2>2. time + (p - r) = p * (q + 1) + 0 /\ time + (p - r) \in Nat
    BY <1>1, <1>2, <2>1
  <2> QED BY <1>1, <1>2, <2>2, DivisionUnique
<1>6. p > 0
  BY <1>1
<1>7. /\ TimeLeft(time, period) = p - r
      /\ \A t : Counter(t, period) = t \div p
  BY <1>6 DEF TimeLeft, Gone, Counter, p, r
<1> QED BY <1>3, <1>4, <1>5, <1>7 DEF p, q

\* A negative period has no time left.
LEMMA NoWindow ==
  ASSUME NEW time \in Nat, NEW period \in Period, EffectivePeriod(period) < 0
  PROVE  TimeLeft(time, period) < 0
<1> DEFINE p == EffectivePeriod(period)
           r == time % (-p)
<1>1. p \in Int /\ p < 0 /\ -p \in Nat \ {0}
  BY EffectivePeriodNonzero
<1> HIDE DEF p
<1>2. r \in 0..(-p - 1)
  BY <1>1, Division
<1>3. TimeLeft(time, period) = p - r
  BY <1>1 DEF TimeLeft, Gone, p
<1> HIDE DEF r
<1> QED BY <1>1, <1>2, <1>3

\* A code is the same until the time left is over, unless the period is negative,
\* and then that time is (TOTP.Generate).
THEOREM CodesLast == Spec => []CodeLastsTimeLeft
<1>1. call \in Call => CodeLastsTimeLeft
  <2> SUFFICES ASSUME call \in Call, Calls("GetTotpCode")
               PROVE  CodeLastsTimeLeft
    BY DEF CodeLastsTimeLeft
  <2>1. call.time \in Nat /\ call.period \in Period
    BY ArgumentAssumption DEF Call, Calls
  <2> QED BY <2>1, Window, NoWindow DEF CodeLastsTimeLeft
<1> QED BY <1>1, CallsTyped, PTL

-----------------------------------------------------------------------------
(* The digits of a code                                                     *)

\* The powers of the base are what their recursive definition says.
LEMMA PowerDef ==
  /\ Power \in [Nat -> Nat \ {0}]
  /\ Power[0] = 1
  /\ \A n \in Nat : Power[n + 1] = Base * Power[n]
<1>1. Base \in Nat \ {0, 1}
  BY BaseAssumption
<1> DEFINE rule == [n \in Nat |-> [b \in [0..(n - 1) -> Nat] |->
                      IF n = 0 THEN 1 ELSE Base * b[n - 1]]]
<1>2. IsRule(rule, Nat)
  BY <1>1 DEF IsRule
<1>3. PICK f \in [Nat -> Nat] : \A n \in Nat : f[n] = rule[n][Before(n, f)]
  <2> HIDE DEF rule
  <2> QED BY <1>2, CourseOfValues
<1>4. ASSUME NEW n \in Nat
      PROVE  f[n] = IF n = 0 THEN 1 ELSE Base * f[n - 1]
  <2>1. Before(n, f) \in [0..(n - 1) -> Nat]
    BY BeforeOf
  <2>2. ASSUME n # 0 PROVE Before(n, f)[n - 1] = f[n - 1]
    <3>1. n - 1 \in 0..(n - 1)
      BY <2>2
    <3> QED BY <3>1, BeforeOf, Zenon
  <2> QED BY <1>3, <2>1, <2>2
<1>5. f = [n \in Nat |-> IF n = 0 THEN 1 ELSE Base * f[n - 1]]
  BY <1>4
<1>6. Power = [n \in Nat |-> IF n = 0 THEN 1 ELSE Base * Power[n - 1]]
  BY <1>5 DEF Power
<1>7. Power[0] = 1 /\ \A n \in Nat : Power[n + 1] = Base * Power[n]
  BY <1>6
<1> DEFINE Typed == {n \in Nat : Power[n] \in Nat \ {0}}
<1>8. 0 \in Typed
  BY <1>7
<1>9. \A n \in Nat : n \in Typed => n + 1 \in Typed
  BY <1>1, <1>7
<1>10. Nat \subseteq Typed
  <2> HIDE DEF Typed
  <2> QED BY <1>8, <1>9, SetInduction
<1>11. Power \in [Nat -> Nat \ {0}]
  BY <1>6, <1>10
<1> QED BY <1>7, <1>11

Digit == 0..(Base - 1)

\* The digits of a number are what their recursive definition says.
LEMMA ItoaDef ==
  /\ Itoa \in [Nat -> Seq(Digit)]
  /\ \A n \in Nat : Itoa[n] =
       IF n < Base THEN <<n>> ELSE Append(Itoa[n \div Base], n % Base)
<1>1. Base \in Nat \ {0, 1}
  BY BaseAssumption
<1>2. ASSUME NEW n \in Nat, ~(n < Base)
      PROVE  n \div Base \in 0..(n - 1) /\ n % Base \in Digit
  <2>1. n \div Base \in Nat /\ n % Base \in Digit
        /\ n = Base * (n \div Base) + (n % Base)
    BY <1>1, Division DEF Digit
  <2>2. n \div Base < n
    <3> DEFINE q == n \div Base
               r == n % Base
    <3> HIDE DEF q, r
    <3>1. q \in Nat /\ r \in Nat /\ n = Base * q + r
      BY <2>1 DEF Digit, q, r
    <3>2. q < n
      BY <1>1, <1>2, <3>1, QuotientSmaller
    <3> QED BY <3>2 DEF q
  <2> QED BY <2>1, <2>2
<1> DEFINE Value(n, f) ==
             IF n < Base THEN <<n>> ELSE Append(f[n \div Base], n % Base)
           rule == [n \in Nat |-> [b \in [0..(n - 1) -> Seq(Digit)] |-> Value(n, b)]]
<1>3. ASSUME NEW n \in Nat, NEW b, \A k \in 0..(n - 1) : b[k] \in Seq(Digit)
      PROVE  Value(n, b) \in Seq(Digit)
  <2>1. CASE n < Base
    BY <1>1, <2>1 DEF Digit
  <2>2. CASE ~(n < Base)
    BY <1>2, <1>3, <2>2
  <2> QED BY <2>1, <2>2
<1>4. IsRule(rule, Seq(Digit))
  <2> HIDE DEF Value
  <2> QED BY <1>3 DEF IsRule
<1>5. PICK f \in [Nat -> Seq(Digit)] : \A n \in Nat : f[n] = rule[n][Before(n, f)]
  <2> HIDE DEF rule
  <2> QED BY <1>4, CourseOfValues
<1>6. ASSUME NEW n \in Nat PROVE f[n] = Value(n, f)
  <2>1. Before(n, f) \in [0..(n - 1) -> Seq(Digit)]
    BY BeforeOf
  <2>2. f[n] = Value(n, Before(n, f))
    <3> HIDE DEF Value
    <3> QED BY <1>5, <2>1
  <2>3. ~(n < Base) => Before(n, f)[n \div Base] = f[n \div Base]
    BY <1>2, BeforeOf
  <2> QED BY <2>2, <2>3
<1>7. f = [n \in Nat |-> Value(n, f)]
  <2> HIDE DEF Value
  <2> QED BY <1>6
<1>8. Itoa = [n \in Nat |-> Value(n, Itoa)]
  BY <1>7 DEF Itoa
<1> DEFINE Typed == {n \in Nat : Itoa[n] \in Seq(Digit)}
<1>9. ASSUME NEW n \in Nat, 0..(n - 1) \subseteq Typed PROVE n \in Typed
  <2>1. Itoa[n] = Value(n, Itoa)
    BY <1>8
  <2>2. \A k \in 0..(n - 1) : Itoa[k] \in Seq(Digit)
    BY <1>9
  <2> HIDE DEF Value
  <2> QED BY <1>3, <2>1, <2>2
<1>10. Nat \subseteq Typed
  <2> HIDE DEF Typed
  <2> QED BY <1>9, StrongInduction
<1>11. Itoa \in [Nat -> Seq(Digit)]
  <2> HIDE DEF Value
  <2> QED BY <1>8, <1>10
<1> QED BY <1>8, <1>11

LEMMA PowerPlus ==
  ASSUME NEW k \in Nat, NEW m \in Nat
  PROVE  Power[m + k] = Power[m] * Power[k]
<1> DEFINE Good == {n \in Nat : Power[m + n] = Power[m] * Power[n]}
<1>1. Base \in Nat /\ Power[m] \in Nat
  BY BaseAssumption, PowerDef
<1>2. 0 \in Good
  <2>1. Power[0] = 1 /\ m + 0 = m
    BY PowerDef
  <2> QED BY <1>1, <2>1
<1>3. ASSUME NEW n \in Nat, n \in Good PROVE n + 1 \in Good
  <2> DEFINE a == Power[m]
             b == Power[n]
  <2>1. Power[(m + n) + 1] = Base * Power[m + n] /\ Power[n + 1] = Base * b
    BY PowerDef
  <2>2. m + (n + 1) = (m + n) + 1 /\ a \in Nat /\ b \in Nat
    BY PowerDef
  <2>3. Power[m + n] = a * b
    BY <1>3
  <2> HIDE DEF a, b
  <2>4. Base * (a * b) = a * (Base * b)
    BY <1>1, <2>2
  <2>5. Power[m + (n + 1)] = a * Power[n + 1]
    BY <2>1, <2>2, <2>3, <2>4
  <2> QED BY <2>5 DEF a
<1>4. Nat \subseteq Good
  <2> HIDE DEF Good
  <2> QED BY <1>2, <1>3, SetInduction
<1> QED BY <1>4

LEMMA PowerGrows ==
  ASSUME NEW k \in Nat, NEW n \in Nat, k <= n
  PROVE  Power[k] <= Power[n]
<1> DEFINE a == Power[k]
           b == Power[n - k]
<1>1. n - k \in Nat /\ k + (n - k) = n
  OBVIOUS
<1>2. Power[n] = a * b
  BY <1>1, PowerPlus
<1>3. a \in Nat \ {0} /\ b \in Nat \ {0}
  BY <1>1, PowerDef
<1> HIDE DEF a, b
<1>4. a <= a * b
  BY <1>3
<1> QED BY <1>2, <1>4 DEF a

\* Dividing by the base first and by a power of it then.
LEMMA DivideTwice ==
  ASSUME NEW m \in Nat, NEW k \in Nat
  PROVE  (m \div Base) \div Power[k] = m \div Power[k + 1]
<1> DEFINE p == Power[k]
           q == m \div Base
           r == m % Base
           s == q \div p
           t == q % p
<1>1. Base \in Nat \ {0, 1} /\ p \in Nat \ {0} /\ Power[k + 1] = Base * p
  BY BaseAssumption, PowerDef
<1>2. q \in Nat /\ r \in 0..(Base - 1) /\ m = Base * q + r
  BY <1>1, Division
<1> HIDE DEF p, q, r
<1>3. s \in Nat /\ t \in 0..(p - 1) /\ q = p * s + t
  BY <1>1, <1>2, Division
<1> HIDE DEF s, t
<1> DEFINE w == Base * t + r
<1>4. w \in 0..(Base * p - 1)
  <2>1. Base * t <= Base * (p - 1)
    BY <1>1, <1>3
  <2>2. Base * (p - 1) = Base * p - Base
    BY <1>1
  <2>3. Base * t \in Nat /\ Base * p \in Nat
    BY <1>1, <1>3
  <2> QED BY <1>1, <1>2, <2>1, <2>2, <2>3
<1>5. m = (Base * p) * s + w
  <2>1. Base * (p * s + t) = Base * (p * s) + Base * t
    BY <1>1, <1>3
  <2>2. Base * (p * s) = (Base * p) * s
    BY <1>1, <1>3
  <2>3. Base * q = (Base * p) * s + Base * t
    BY <1>3, <2>1, <2>2
  <2>4. Base * q \in Int /\ (Base * p) * s \in Int /\ Base * t \in Int
    BY <1>1, <1>2, <1>3
  <2> QED BY <1>2, <2>3, <2>4
<1>6. Base * p \in Nat \ {0}
  BY <1>1
<1> HIDE DEF w
<1>7. m \div (Base * p) = s
  BY <1>3, <1>4, <1>5, <1>6, DivisionUnique
<1> QED BY <1>1, <1>7 DEF s, p, q

\* The digits of a number are its remainders, and there are no more of them
\* than it takes.
DigitsRight(m) ==
  LET s == Itoa[m]
  IN  /\ Len(s) \in Nat \ {0}
      /\ m < Power[Len(s)]
      /\ Len(s) > 1 => Power[Len(s) - 1] <= m
      /\ \A i \in 1..Len(s) : s[i] = (m \div Power[Len(s) - i]) % Base

LEMMA ItoaDigits == \A m \in Nat : DigitsRight(m)
<1>1. Base \in Nat \ {0, 1}
  BY BaseAssumption
<1> DEFINE Good == {m \in Nat : DigitsRight(m)}
<1>2. ASSUME NEW m \in Nat, 0..(m - 1) \subseteq Good PROVE m \in Good
  <2>1. CASE m < Base
    <3>1. Itoa[m] = <<m>> /\ Len(<<m>>) = 1 /\ <<m>>[1] = m
      BY <2>1, ItoaDef
    <3>2. Power[0] = 1 /\ Power[1] = Base
      <4>1. Power[0 + 1] = Base * Power[0] /\ Power[0] = 1
        BY PowerDef
      <4> QED BY <1>1, <4>1
    <3>3. m \div 1 = m /\ m % Base = m
      <4>1. m = Base * 0 + m /\ m \in 0..(Base - 1) /\ m = 1 * m + 0 /\ 0 \in 0..(1 - 1)
        BY <1>1, <2>1
      <4> QED BY <1>1, <4>1, DivisionUnique
    <3>4. \A i \in 1..1 : Itoa[m][i] = (m \div Power[1 - i]) % Base
      <4>1. Itoa[m][1] = m /\ (m \div Power[0]) % Base = m
        BY <3>1, <3>2, <3>3
      <4>2. \A i \in 1..1 : i = 1 /\ 1 - i = 0
        OBVIOUS
      <4> QED BY <4>1, <4>2
    <3>5. Len(Itoa[m]) = 1
      BY <3>1
    <3>6. m < Power[Len(Itoa[m])] /\ Len(Itoa[m]) \in Nat \ {0}
          /\ ~(Len(Itoa[m]) > 1)
      BY <2>1, <3>2, <3>5
    <3>7. \A i \in 1..Len(Itoa[m]) :
            Itoa[m][i] = (m \div Power[Len(Itoa[m]) - i]) % Base
      BY <3>4, <3>5
    <3> QED BY <3>6, <3>7 DEF DigitsRight
  <2>2. CASE ~(m < Base)
    <3> DEFINE q == m \div Base
               r == m % Base
               t == Itoa[q]
               n == Len(t)
    <3>1. Itoa[m] = Append(t, r) /\ t \in Seq(Digit)
      BY <2>2, <1>1, Division, ItoaDef
    <3>2. q \in Nat /\ r \in 0..(Base - 1) /\ m = Base * q + r
      BY <1>1, Division
    <3> HIDE DEF q, r
    <3>3. q < m
      BY <1>1, <2>2, <3>2, QuotientSmaller
    <3>4. DigitsRight(q)
      BY <1>2, <3>2, <3>3
    <3>5. /\ n \in Nat \ {0} /\ q < Power[n]
          /\ n > 1 => Power[n - 1] <= q
          /\ \A i \in 1..n : t[i] = (q \div Power[n - i]) % Base
      BY <3>4 DEF DigitsRight
    <3>6. Len(Itoa[m]) = n + 1 /\ Itoa[m][n + 1] = r
          /\ \A i \in 1..n : Itoa[m][i] = t[i]
      BY <3>1, <3>5
    <3> HIDE DEF n, t
    <3>7. m < Power[n + 1]
      <4> DEFINE p == Power[n]
      <4>1. p \in Nat /\ Power[n + 1] = Base * p /\ q + 1 <= p
        BY <3>2, <3>5, PowerDef
      <4> HIDE DEF p
      <4>2. Base * (q + 1) <= Base * p /\ Base * (q + 1) = Base * q + Base
        BY <1>1, <3>2, <4>1
      <4>3. Base * q \in Int /\ Base * p \in Int
        BY <1>1, <3>2, <4>1
      <4> QED BY <1>1, <3>2, <4>1, <4>2, <4>3
    <3>8. Power[n] <= m
      <4>1. CASE n = 1
        <5>1. Power[0 + 1] = Base * Power[0] /\ Power[0] = 1
          BY PowerDef
        <5> QED BY <1>1, <2>2, <4>1, <5>1
      <4>2. CASE n > 1
        <5> DEFINE p == Power[n - 1]
        <5>1. n - 1 \in Nat /\ (n - 1) + 1 = n /\ p \in Nat /\ p <= q
          BY <3>5, <4>2, PowerDef
        <5>2. Power[n] = Base * p
          BY <5>1, PowerDef
        <5> HIDE DEF p
        <5>3. Base * p <= Base * q /\ Base * q \in Int /\ Base * p \in Int
          BY <1>1, <3>2, <5>1
        <5> QED BY <3>2, <5>2, <5>3
      <4> QED BY <3>5, <4>1, <4>2
    <3>9. ASSUME NEW i \in 1..(n + 1)
          PROVE  Itoa[m][i] = (m \div Power[(n + 1) - i]) % Base
      <4>1. CASE i = n + 1
        <5>1. (n + 1) - i = 0 /\ Power[0] = 1
          BY <3>5, <4>1, PowerDef
        <5>2. m \div 1 = m
          BY DivisionUnique
        <5> QED BY <3>6, <4>1, <5>1, <5>2 DEF r
      <4>2. CASE i \in 1..n
        <5>1. n - i \in Nat /\ (n - i) + 1 = (n + 1) - i
          BY <3>5, <4>2
        <5>2. (m \div Base) \div Power[n - i] = m \div Power[(n - i) + 1]
          BY <5>1, DivideTwice
        <5> QED BY <3>5, <3>6, <4>2, <5>1, <5>2 DEF q
      <4> QED BY <3>5, <4>1, <4>2
    <3>10. (n + 1) - 1 = n /\ n + 1 \in Nat \ {0}
      BY <3>5
    <3> QED BY <3>6, <3>7, <3>8, <3>9, <3>10 DEF DigitsRight
  <2> QED BY <1>1, <2>1, <2>2
<1>3. Nat \subseteq Good
  <2> HIDE DEF Good
  <2> QED BY <1>2, StrongInduction
<1> QED BY <1>3

\* The last n digits are those of the remainder.
LEMMA LastDigits ==
  ASSUME NEW d \in Nat, NEW n \in Nat, NEW k \in 0..(n - 1)
  PROVE  (d \div Power[k]) % Base = ((d % Power[n]) \div Power[k]) % Base
<1> DEFINE p == Power[k]
           h == Power[n - k - 1]
           q == d \div Power[n]
           m == d % Power[n]
           a == m \div p
           r == m % p
           u == a \div Base
           v == a % Base
<1>1. /\ Base \in Nat \ {0, 1} /\ p \in Nat \ {0} /\ h \in Nat \ {0}
      /\ Power[n] \in Nat \ {0} /\ k \in Nat /\ n - k - 1 \in Nat
  BY BaseAssumption, PowerDef
<1>2. Power[n] = p * (Base * h)
  <2>1. k + ((n - k - 1) + 1) = n
    OBVIOUS
  <2>2. Power[(n - k - 1) + 1] = Base * h
    BY <1>1, PowerDef
  <2>3. Power[k + ((n - k - 1) + 1)] = Power[k] * Power[(n - k - 1) + 1]
    BY <1>1, PowerPlus
  <2> QED BY <2>1, <2>2, <2>3
<1>3. q \in Nat /\ m \in Nat /\ d = Power[n] * q + m
  <2> DEFINE w == Power[n]
  <2>1. w \in Nat \ {0}
    BY <1>1
  <2> HIDE DEF w
  <2>2. d \div w \in Nat /\ d % w \in Nat /\ d = w * (d \div w) + (d % w)
    BY <2>1, Division
  <2> QED BY <2>2 DEF w
<1> HIDE DEF p, h, q, m
<1>4. a \in Nat /\ r \in 0..(p - 1) /\ m = p * a + r
  BY <1>1, <1>3, Division
<1> HIDE DEF a, r
<1>5. u \in Nat /\ v \in 0..(Base - 1) /\ a = Base * u + v
  BY <1>1, <1>4, Division
<1> HIDE DEF u, v
<1> DEFINE hq == h * q
           c == Base * hq + a
<1>6. hq \in Nat /\ c \in Nat
  BY <1>1, <1>3, <1>4
<1>7. d = p * c + r
  <2>1. (p * (Base * h)) * q = p * (Base * (h * q))
    BY <1>1, <1>3
  <2>2. p * (Base * hq + a) = p * (Base * hq) + p * a
    BY <1>1, <1>4, <1>6
  <2>3. d = p * (Base * hq) + m
    BY <1>2, <1>3, <2>1
  <2>4. p * (Base * hq) \in Int /\ p * a \in Int
    BY <1>1, <1>4, <1>6
  <2> QED BY <1>4, <2>2, <2>3, <2>4
<1> HIDE DEF hq
<1>8. d \div p = c
  <2> HIDE DEF c
  <2> QED BY <1>1, <1>4, <1>6, <1>7, DivisionUnique
<1>9. c = Base * (hq + u) + v
  <2>1. Base * (hq + u) = Base * hq + Base * u
    BY <1>1, <1>5, <1>6
  <2>2. Base * hq \in Int /\ Base * u \in Int
    BY <1>1, <1>5, <1>6
  <2> QED BY <1>5, <2>1, <2>2
<1>10. c % Base = v
  <2>1. hq + u \in Nat
    BY <1>5, <1>6
  <2> HIDE DEF c
  <2> QED BY <1>1, <1>5, <1>6, <1>9, <2>1, DivisionUnique
<1>11. d \div p = c /\ c % Base = a % Base
  BY <1>8, <1>10 DEF v
<1> QED BY <1>11 DEF a, p, m

\* Zeros in front, for a sequence that is too short.
LEMMA PaddedShape ==
  ASSUME NEW s \in Seq(Digit), NEW n \in Nat, Len(s) < n
  PROVE  /\ Len(Padded(s, n)) = n
         /\ \A i \in 1..(n - Len(s)) : Padded(s, n)[i] = 0
         /\ \A i \in (n - Len(s) + 1)..n : Padded(s, n)[i] = s[i - (n - Len(s))]
<1> DEFINE zeros == [i \in 1..n |-> 0]
           padded == zeros \o s
           l == Len(s)
<1>1. l \in Nat /\ 0 \in Digit
  BY BaseAssumption DEF Digit
<1>2. zeros \in Seq(Digit) /\ Len(zeros) = n /\ \A i \in 1..n : zeros[i] = 0
  <2>1. zeros \in [1..n -> Digit]
    BY <1>1
  <2> QED BY <2>1
<1> HIDE DEF zeros
<1>3. /\ padded \in Seq(Digit) /\ Len(padded) = n + l
      /\ \A i \in 1..(n + l) : padded[i] = IF i <= n THEN zeros[i] ELSE s[i - n]
  BY <1>1, <1>2, ConcatProperties
<1> HIDE DEF padded
<1>4. Padded(s, n) = SubSeq(padded, l + 1, n + l)
  <2>1. (n + l) - n + 1 = l + 1
    BY <1>1
  <2> QED BY <1>3, <2>1 DEF Padded, padded, zeros
<1>5. /\ Len(SubSeq(padded, l + 1, n + l)) = n
      /\ \A i \in 1..n : SubSeq(padded, l + 1, n + l)[i] = padded[l + i]
  BY <1>1, <1>3
<1>6. ASSUME NEW i \in 1..(n - l) PROVE padded[l + i] = 0
  <2>1. l + i \in 1..(n + l) /\ l + i <= n /\ l + i \in 1..n
    BY <1>1
  <2> QED BY <1>2, <1>3, <2>1
<1>7. ASSUME NEW i \in (n - l + 1)..n PROVE padded[l + i] = s[i - (n - l)]
  <2>1. l + i \in 1..(n + l) /\ ~(l + i <= n) /\ (l + i) - n = i - (n - l)
    BY <1>1
  <2> QED BY <1>3, <2>1
<1>8. 1..(n - l) \subseteq 1..n /\ (n - l + 1)..n \subseteq 1..n
  BY <1>1
<1> QED BY <1>4, <1>5, <1>6, <1>7, <1>8

\* The remainder by a number that is no larger than the power has no more than
\* n digits.
LEMMA PaddedLength ==
  ASSUME NEW m \in Nat, NEW n \in Nat \ {0}, m < Power[n]
  PROVE  /\ Itoa[m] \in Seq(Digit) /\ Len(Itoa[m]) \in 1..n
         /\ Len(Padded(Itoa[m], n)) = n
<1> DEFINE s == Itoa[m]
           l == Len(s)
<1>1. /\ s \in Seq(Digit) /\ l \in Nat \ {0}
      /\ l > 1 => Power[l - 1] <= m
  BY ItoaDef, ItoaDigits DEF DigitsRight
<1> HIDE DEF s
<1>2. l <= n
  <2>1. SUFFICES ASSUME l > n PROVE FALSE
    BY <1>1
  <2>2. l > 1 /\ l - 1 \in Nat /\ n <= l - 1
    BY <1>1, <2>1
  <2>3. Power[n] <= Power[l - 1] /\ Power[l - 1] \in Nat /\ Power[n] \in Nat
    BY <2>2, PowerGrows, PowerDef
  <2> QED BY <1>1, <2>2, <2>3
<1>3. Len(Padded(s, n)) = n
  <2>1. CASE l = n
    BY <1>1, <2>1 DEF Padded
  <2>2. CASE l < n
    BY <1>1, <2>2, PaddedShape
  <2> QED BY <1>1, <1>2, <2>1, <2>2
<1> QED BY <1>1, <1>2, <1>3 DEF s

LEMMA PaddedDigits ==
  ASSUME NEW d \in Nat, NEW n \in Nat \ {0}
  PROVE  LET code == Padded(Itoa[d % Power[n]], n)
         IN  /\ Len(code) = n
             /\ \A i \in 1..n : code[i] = (d \div Power[n - i]) % Base
<1> DEFINE m == d % Power[n]
           s == Itoa[m]
           l == Len(s)
<1>1. m \in Nat /\ m < Power[n] /\ Power[n] \in Nat /\ Base \in Nat \ {0, 1}
  <2> DEFINE w == Power[n]
  <2>1. w \in Nat \ {0}
    BY PowerDef
  <2> HIDE DEF w
  <2>2. d % w \in 0..(w - 1)
    BY <2>1, Division
  <2>3. d % w \in Nat /\ d % w < w
    BY <2>1, <2>2
  <2> QED BY <2>1, <2>3, BaseAssumption DEF w
<1>2. ASSUME NEW i \in 1..n
      PROVE  (d \div Power[n - i]) % Base = (m \div Power[n - i]) % Base
  <2>1. n - i \in 0..(n - 1)
    OBVIOUS
  <2> QED BY <2>1, LastDigits
<1> HIDE DEF m
<1>3. /\ s \in Seq(Digit) /\ l \in Nat \ {0} /\ m < Power[l]
      /\ l > 1 => Power[l - 1] <= m
      /\ \A i \in 1..l : s[i] = (m \div Power[l - i]) % Base
  BY <1>1, ItoaDef, ItoaDigits DEF DigitsRight
<1> HIDE DEF s, l
<1>4. l <= n
  BY <1>1, PaddedLength DEF s, l
<1>5. CASE l = n
  <2>1. Padded(s, n) = s
    BY <1>3, <1>5 DEF Padded, l
  <2> QED BY <1>2, <1>3, <1>5, <2>1 DEF m, s, l
<1>6. CASE l < n
  <2>1. /\ Len(Padded(s, n)) = n
        /\ \A i \in 1..(n - l) : Padded(s, n)[i] = 0
        /\ \A i \in (n - l + 1)..n : Padded(s, n)[i] = s[i - (n - l)]
    BY <1>3, <1>6, PaddedShape DEF l
  <2>2. ASSUME NEW i \in 1..n
        PROVE  Padded(s, n)[i] = (m \div Power[n - i]) % Base
    <3>1. CASE i \in 1..(n - l)
      <4> DEFINE w == Power[n - i]
      <4>1. n - i \in Nat /\ l <= n - i
        BY <1>3, <3>1
      <4>2. w \in Nat \ {0} /\ m < w
        <5>1. Power[l] <= w /\ w \in Nat \ {0} /\ Power[l] \in Nat
          BY <1>3, <4>1, PowerGrows, PowerDef
        <5> HIDE DEF w
        <5> QED BY <1>1, <1>3, <5>1
      <4> HIDE DEF w
      <4>3. m \div w = 0
        <5>1. m = w * 0 + m /\ m \in 0..(w - 1) /\ 0 \in Nat
          BY <1>1, <4>2
        <5> QED BY <1>1, <4>2, <5>1, DivisionUnique
      <4>4. 0 % Base = 0
        BY <1>1
      <4> QED BY <2>1, <3>1, <4>3, <4>4 DEF w
    <3>2. CASE i \in (n - l + 1)..n
      <4>1. i - (n - l) \in 1..l /\ l - (i - (n - l)) = n - i
        BY <1>3, <1>6, <3>2
      <4> QED BY <1>3, <2>1, <3>2, <4>1
    <3> QED BY <1>3, <3>1, <3>2
  <2> QED BY <1>2, <2>1, <2>2 DEF m, s
<1> QED BY <1>3, <1>4, <1>5, <1>6

LEMMA EffectiveDigitsNonzero ==
  ASSUME NEW digits \in Digits
  PROVE  EffectiveDigits(digits) \in Int \ {0}
BY ArgumentAssumption DEF EffectiveDigits, Or

\* What is taken as the power: there is a divisor but for negative digits, and
\* none is larger than the power.
LEMMA ModuliAre ==
  ASSUME NEW n \in Int \ {0}
  PROVE  /\ n < 0 => Moduli(n) = {0}
         /\ n > 0 => /\ \E m \in Moduli(n) : m # 0
                     /\ \A m \in Moduli(n) \ {0} :
                          m \in Nat \ {0} /\ m <= Power[n]
         /\ n > 0 /\ Power[n] < WordSize => Moduli(n) = {Power[n]}
<1>1. CASE n < 0
  BY <1>1 DEF Moduli
<1>2. CASE n > 0
  <2>1. n \in Nat /\ Power[n] \in Nat \ {0} /\ WordSize \in Nat \ {0, 1}
    BY <1>2, PowerDef, BaseAssumption
  <2> DEFINE w == Power[n]
  <2>2. Moduli(n) = IF w < WordSize THEN {w} ELSE 0..(WordSize - 1)
    BY <1>2 DEF Moduli
  <2> HIDE DEF w
  <2>3. w \in Nat \ {0}
    BY <2>1 DEF w
  <2>4. CASE w < WordSize
    BY <1>2, <2>2, <2>3, <2>4 DEF w
  <2>5. CASE ~(w < WordSize)
    <3>1. Moduli(n) = 0..(WordSize - 1) /\ 1 \in 0..(WordSize - 1)
      BY <2>1, <2>2, <2>5
    <3>2. \A m \in 0..(WordSize - 1) : m <= w
      BY <2>1, <2>3, <2>5
    <3> QED BY <1>2, <2>5, <3>1, <3>2 DEF w
  <2> QED BY <2>4, <2>5
<1> QED BY <1>1, <1>2

\* A code has the digits asked for, the last ones of the number where their
\* power fits into a word, and there is none for negative digits (generateOTP).
THEOREM CodesAreLastDigits == Spec => []CodeIsLastDigits
<1>1. call \in Call => CodeIsLastDigits
  <2> SUFFICES ASSUME call \in Call, Calls("generateOTP")
               PROVE  CodeIsLastDigits
    BY DEF CodeIsLastDigits
  <2> DEFINE d == call.decimal
             n == EffectiveDigits(call.digits)
  <2>1. call.decimal \in Nat /\ call.digits \in Digits
    BY ArgumentAssumption DEF Call, Calls
  <2>2. n \in Int \ {0} /\ d \in Nat
    BY <2>1, EffectiveDigitsNonzero
  <2>3. Codes(d, call.digits) = {Padded(Itoa[d % m], n) : m \in Moduli(n) \ {0}}
    BY DEF Codes
  <2> HIDE DEF d, n
  <2>4. CASE n < 0
    BY <2>3, <2>4, <2>2, ModuliAre DEF CodeIsLastDigits, d, n
  <2>5. CASE n > 0
    <3>1. n \in Nat \ {0} /\ Power[n] \in Nat
      BY <2>2, <2>5, PowerDef
    <3>2. Codes(d, call.digits) # {}
      BY <2>2, <2>3, <2>5, ModuliAre
    <3>3. ASSUME NEW m \in Moduli(n) \ {0}
          PROVE  Len(Padded(Itoa[d % m], n)) = n
      <4>1. m \in Nat \ {0} /\ m <= Power[n]
        BY <2>2, <2>5, ModuliAre
      <4>2. d % m \in 0..(m - 1)
        BY <2>2, <4>1, Division
      <4>3. d % m \in Nat /\ d % m < Power[n]
        BY <3>1, <4>1, <4>2
      <4> QED BY <3>1, <4>3, PaddedLength
    <3>4. ASSUME Power[n] < WordSize
          PROVE  \A code \in Codes(d, call.digits), i \in 1..n :
                   code[i] = (d \div Power[n - i]) % Base
      <4>1. Codes(d, call.digits) \subseteq {Padded(Itoa[d % Power[n]], n)}
        BY <2>2, <2>3, <2>5, <3>4, ModuliAre
      <4> QED BY <2>2, <3>1, <4>1, PaddedDigits
    <3>5. ~(n < 0)
      BY <2>5, <3>1
    <3> QED BY <2>3, <3>2, <3>3, <3>4, <3>5 DEF CodeIsLastDigits, d, n
  <2> QED BY <2>2, <2>4, <2>5
<1> QED BY <1>1, CallsTyped, PTL

-----------------------------------------------------------------------------
(* Padding                                                                  *)

\* The padding: at least one byte and at most a block, up to a whole block.
LEMMA PadShape ==
  ASSUME NEW data \in Seq(Byte)
  PROVE  \E n \in 1..BlockSize :
           /\ pkcs7Pad(data) \in Seq(Byte)
           /\ Len(pkcs7Pad(data)) = Len(data) + n
           /\ Len(pkcs7Pad(data)) % BlockSize = 0
           /\ \A i \in 1..Len(data) : pkcs7Pad(data)[i] = data[i]
           /\ \A i \in (Len(data) + 1)..(Len(data) + n) : pkcs7Pad(data)[i] = n
<1> DEFINE r == Len(data) % BlockSize
           q == Len(data) \div BlockSize
           n == BlockSize - r
           tail == [i \in 1..n |-> n]
<1>1. BlockSize \in Nat \ {0} /\ BlockSize <= 255 /\ Len(data) \in Nat
  BY BlockSizeAssumption
<1>2. q \in Nat /\ r \in 0..(BlockSize - 1) /\ Len(data) = BlockSize * q + r
  BY <1>1, Division
<1> HIDE DEF r, q
<1>3. n \in 1..BlockSize
  BY <1>1, <1>2
<1>5. pkcs7Pad(data) = data \o tail
  BY DEF pkcs7Pad, r
<1> HIDE DEF n
<1>4. tail \in Seq(Byte) /\ Len(tail) = n
  <2>1. n \in Nat /\ n \in Byte
    BY <1>1, <1>3 DEF Byte
  <2>2. tail \in [1..n -> Byte]
    BY <2>1
  <2> QED BY <2>1, <2>2
<1>6. Len(data) + n = BlockSize * (q + 1) + 0
  <2>1. BlockSize * (q + 1) = BlockSize * q + BlockSize
    BY <1>1, <1>2
  <2> QED BY <1>1, <1>2, <2>1 DEF n
<1>7. (Len(data) + n) % BlockSize = 0
  <2>1. Len(data) + n \in Nat /\ q + 1 \in Nat /\ 0 \in 0..(BlockSize - 1)
    BY <1>1, <1>2, <1>3
  <2> HIDE DEF tail
  <2> QED BY <1>1, <1>6, <2>1, DivisionUnique
<1>8. ASSUME NEW i \in 1..n PROVE tail[i] = n
  OBVIOUS
<1> HIDE DEF tail
<1>9. /\ data \o tail \in Seq(Byte) /\ Len(data \o tail) = Len(data) + n
      /\ \A i \in 1..(Len(data) + n) :
           (data \o tail)[i] = IF i <= Len(data) THEN data[i] ELSE tail[i - Len(data)]
  BY <1>1, <1>3, <1>4
<1>10. \A i \in 1..Len(data) : (data \o tail)[i] = data[i]
  BY <1>1, <1>3, <1>9
<1>11. ASSUME NEW i \in (Len(data) + 1)..(Len(data) + n)
       PROVE  (data \o tail)[i] = n
  <2>1. i \in 1..(Len(data) + n) /\ ~(i <= Len(data)) /\ i - Len(data) \in 1..n
    BY <1>1, <1>3
  <2> QED BY <1>8, <1>9, <2>1
<1> QED BY <1>3, <1>5, <1>7, <1>9, <1>10, <1>11

\* Padding is undone, whatever the data ends in.
LEMMA UnpadPad ==
  ASSUME NEW data \in Seq(Byte)
  PROVE  pkcs7Unpad(pkcs7Pad(data)) = data
<1> DEFINE padded == pkcs7Pad(data)
<1>1. PICK n \in 1..BlockSize :
        /\ padded \in Seq(Byte) /\ Len(padded) = Len(data) + n
        /\ Len(padded) % BlockSize = 0
        /\ \A i \in 1..Len(data) : padded[i] = data[i]
        /\ \A i \in (Len(data) + 1)..(Len(data) + n) : padded[i] = n
  BY PadShape
<1> HIDE DEF padded
<1>2. n \in Nat /\ n >= 1 /\ Len(data) \in Nat
  BY BlockSizeAssumption
<1>3. padded[Len(padded)] = n
  BY <1>1, <1>2
<1>4. WellPadded(padded)
  BY <1>1, <1>2, <1>3 DEF WellPadded
<1>5. SubSeq(padded, 1, Len(data)) = data
  BY <1>1, <1>2
<1>6. pkcs7Unpad(padded) = SubSeq(padded, 1, Len(padded) - padded[Len(padded)])
  BY <1>4 DEF pkcs7Unpad
<1>7. Len(padded) - padded[Len(padded)] = Len(data)
  BY <1>1, <1>2, <1>3
<1> QED BY <1>5, <1>6, <1>7 DEF padded

\* Only a whole padding is taken off.
LEMMA PadUnpad ==
  ASSUME NEW data \in Seq(Byte)
  PROVE  pkcs7Unpad(data) = data \/ pkcs7Pad(pkcs7Unpad(data)) = data
<1> SUFFICES ASSUME WellPadded(data)
             PROVE  pkcs7Pad(pkcs7Unpad(data)) = data
  BY DEF pkcs7Unpad
<1> DEFINE n == data[Len(data)]
           m == Len(data) - n
           short == SubSeq(data, 1, m)
           q == Len(data) \div BlockSize
<1>1. BlockSize \in Nat \ {0} /\ Len(data) \in Nat /\ Len(data) # 0
  BY BlockSizeAssumption DEF WellPadded
<1>2. n \in 1..BlockSize /\ Len(data) % BlockSize = 0
  BY DEF WellPadded
<1>3. q \in Nat /\ Len(data) = BlockSize * q
  BY <1>1, <1>2, Division
<1>4. q # 0 /\ q - 1 \in Nat
  BY <1>1, <1>3
<1> HIDE DEF q
<1>5. Len(data) = BlockSize * (q - 1) + BlockSize
  <2>1. BlockSize * q = BlockSize * (q - 1) + BlockSize
    BY <1>1, <1>3
  <2> QED BY <1>3, <2>1
<1>6. BlockSize * (q - 1) \in Nat
  BY <1>1, <1>4
<1>7. m \in Nat /\ m = BlockSize * (q - 1) + (BlockSize - n)
  BY <1>1, <1>2, <1>5, <1>6
<1>8. short \in Seq(Byte) /\ Len(short) = m /\ \A i \in 1..m : short[i] = data[i]
  BY <1>1, <1>2, <1>7
<1>9. \A i \in (m + 1)..Len(data) : data[i] = n
  BY DEF WellPadded
<1>11. BlockSize - (m % BlockSize) = n
  <2> DEFINE r == m % BlockSize
  <2>1. r \in 0..(BlockSize - 1)
    BY <1>1, <1>7, Division
  <2>2. CASE n = BlockSize
    <3>1. m = BlockSize * (q - 1) + 0 /\ 0 \in 0..(BlockSize - 1)
      BY <1>1, <1>6, <1>7, <2>2
    <3> HIDE DEF m
    <3> QED BY <1>1, <1>4, <1>7, <2>2, <3>1, DivisionUnique
  <2>3. CASE n # BlockSize
    <3>1. BlockSize - n \in 0..(BlockSize - 1)
      BY <1>1, <1>2, <2>3
    <3> HIDE DEF m, n
    <3> QED BY <1>1, <1>2, <1>4, <1>7, <3>1, DivisionUnique
  <2>4. BlockSize - r = n
    BY <1>1, <1>2, <2>1, <2>2, <2>3
  <2> QED BY <2>4
<1>12. pkcs7Pad(short) = short \o [i \in 1..n |-> n]
  BY <1>8, <1>11 DEF pkcs7Pad
<1>13. Len(data) = m + n /\ n \in Nat /\ m \in Nat /\ n \in Byte
  <2> HIDE DEF n
  <2> QED BY <1>1, <1>2, <1>7, BlockSizeAssumption DEF Byte, m
<1> HIDE DEF m, n, short
<1>14. short \o [i \in 1..n |-> n] = data
  <2> DEFINE pad == [i \in 1..n |-> n]
  <2>1. pad \in Seq(Byte) /\ Len(pad) = n
    <3>1. pad \in [1..n -> Byte]
      BY <1>13
    <3> QED BY <1>13, <3>1
  <2>3. \A i \in 1..n : pad[i] = n
    OBVIOUS
  <2> HIDE DEF pad
  <2>4. short \o pad \in Seq(Byte) /\ Len(short \o pad) = Len(data)
    BY <1>8, <1>13, <2>1
  <2>5. ASSUME NEW i \in 1..Len(data) PROVE (short \o pad)[i] = data[i]
    <3>1. CASE i \in 1..m
      BY <1>8, <1>13, <2>1, <3>1
    <3>2. CASE i \notin 1..m
      <4>1. i - m \in 1..n /\ i \in (m + 1)..Len(data) /\ i \in 1..(m + n)
        BY <1>13, <3>2
      <4>2. (short \o pad)[i] = pad[i - m]
        <5>1. \A j \in 1..(m + n) : (short \o pad)[j] =
                IF j <= m THEN short[j] ELSE pad[j - m]
          BY <1>8, <2>1, ConcatProperties, Zenon
        <5>2. i \in 1..(m + n) /\ ~(i <= m)
          BY <1>13, <3>2, <4>1
        <5> QED BY <5>1, <5>2, Zenon
      <4> QED BY <1>9, <2>3, <4>1, <4>2
    <3> QED BY <3>1, <3>2
  <2> QED BY <2>4, <2>5, SeqEqual DEF pad
<1> QED BY <1>12, <1>14 DEF pkcs7Unpad, short, m, n

\* What was encrypted is what is decrypted (EncryptAesCbc, DecryptAesCbc).
THEOREM PaddingUndone == Spec => []RoundTrip
<1>1. call \in Call => RoundTrip
  BY UnpadPad, ArgumentAssumption
     DEF RoundTrip, Call, Calls, EncryptAesCbc, DecryptAesCbc
<1> QED BY <1>1, CallsTyped, PTL

\* Under a wrong key only a whole padding is taken off (pkcs7Unpad).
THEOREM NoiseKept == Spec => []OnlyPaddingRemoved
<1>1. call \in Call => OnlyPaddingRemoved
  BY PadUnpad, ArgumentAssumption
     DEF OnlyPaddingRemoved, Call, Calls, EncryptAesCbc, DecryptAesCbc
<1> QED BY <1>1, CallsTyped, PTL

-----------------------------------------------------------------------------
(* Passwords                                                                *)

LEMMA CountsTyped ==
  ASSUME NEW counts \in [Category -> Count], NEW length \in Length
  PROVE  /\ \A c \in Given(counts) : counts[c] \in Int
         /\ \A c \in Category : BaseCount(counts, c) \in Nat
         /\ SumCategories(counts) \in Nat
         /\ MinLength(length) \in Nat \ {0}
         /\ ExtraCount(counts, length) \in Nat
<1>1. \A c \in Given(counts) : counts[c] \in Int
  BY ArgumentAssumption DEF Given
<1>2. \A c \in Category : BaseCount(counts, c) \in Nat
  BY <1>1 DEF BaseCount, Abs
<1>3. SumCategories(counts) \in Nat
  BY <1>2 DEF SumCategories, Total, Category
<1>4. MinLength(length) \in Nat \ {0}
  BY ArgumentAssumption, LengthAssumption DEF MinLength
<1> QED BY <1>1, <1>2, <1>3, <1>4 DEF ExtraCount

\* The sum of the counts and the shares is the sum of the sums.
LEMMA TotalPlus ==
  ASSUME NEW f \in [Category -> Nat], NEW g \in [Category -> Nat]
  PROVE  Total([c \in Category |-> f[c] + g[c]]) = Total(f) + Total(g)
BY DEF Total, Category

\* A sum of zeros, and the parts of a sum.
LEMMA TotalZero ==
  ASSUME NEW f \in [Category -> Nat]
  PROVE  Total(f) = 0 <=> \A c \in Category : f[c] = 0
BY DEF Total, Category

\* All of the extra characters may come from one category.
LEMMA TotalOne ==
  ASSUME NEW d \in Category, NEW n \in Nat
  PROVE  Total([c \in Category |-> IF c = d THEN n ELSE 0]) = n
<1>1. \/ d = "lowercase" \/ d = "uppercase" \/ d = "digits"
      \/ d = "specialCharacters"
  BY DEF Category
<1> QED BY <1>1 DEF Total, Category

\* Categories are left open by all four being exact and zero only.
LEMMA NoneOpen ==
  ASSUME NEW counts \in [Category -> Count], NEW length \in Length
  PROVE  LET open == {c \in Category :
                        \/ c \notin Given(counts)
                        \/ counts[c] > 0
                        \/ counts[c] < 0 /\ Converted(counts, length)}
         IN  open = {} => /\ Given(counts) = Category
                          /\ \A c \in Category : counts[c] <= 0
                          /\ Converted(counts, length) => SumCategories(counts) = 0
<1> SUFFICES ASSUME {c \in Category :
                        \/ c \notin Given(counts)
                        \/ counts[c] > 0
                        \/ counts[c] < 0 /\ Converted(counts, length)} = {}
             PROVE  /\ Given(counts) = Category
                    /\ \A c \in Category : counts[c] <= 0
                    /\ Converted(counts, length) => SumCategories(counts) = 0
  OBVIOUS
<1>1. \A c \in Category : counts[c] \in Int /\ counts[c] <= 0 /\ c \in Given(counts)
  BY CountsTyped
<1>2. Given(counts) = Category
  BY <1>1 DEF Given
<1>3. ASSUME Converted(counts, length) PROVE SumCategories(counts) = 0
  <2>1. \A c \in Category : counts[c] = 0
    BY <1>1, <1>3
  <2>2. \A c \in Category : BaseCount(counts, c) = 0
    BY <2>1, <1>1 DEF BaseCount, Abs
  <2> QED BY <2>2, TotalZero DEF SumCategories
<1> QED BY <1>1, <1>2, <1>3

\* One password of the right numbers, at least, can be made.
LEMMA SomePassword ==
  ASSUME NEW counts \in [Category -> Count], NEW length \in Length
  PROVE  Generated(counts, length) # {}
<1> DEFINE extra == ExtraCount(counts, length)
           open == ExtraChars(counts, length)
<1>1. extra \in Nat
  BY CountsTyped
<1>2. PICK d \in Category : d \in open
  BY DEF ExtraChars, Category
<1> DEFINE share == [c \in Category |-> IF c = d THEN extra ELSE 0]
<1>3. /\ share \in [Category -> 0..extra]
      /\ Total(share) = extra
      /\ \A c \in Category \ open : share[c] = 0
  BY <1>1, <1>2, TotalOne
<1> HIDE DEF share
<1> QED BY <1>3 DEF Generated

LEMMA EveryPassword ==
  ASSUME NEW counts \in [Category -> Count], NEW length \in Length,
         NEW password \in Generated(counts, length)
  PROVE  LET sum == SumCategories(counts)
             min == MinLength(length)
             minimums == Given(counts) = Category /\ sum < min
                           /\ \A c \in Category : counts[c] <= 0
         IN  /\ Total(password) = IF sum < min THEN min ELSE sum
             /\ \A c \in Category \ Given(counts) : password[c] > 0 => sum < min
             /\ \A c \in Given(counts) :
                  IF counts[c] > 0 \/ minimums
                    THEN /\ password[c] >= Abs(counts[c])
                         /\ counts[c] = 0 /\ password[c] > 0 => sum = 0
                    ELSE password[c] = Abs(counts[c])
<1> DEFINE sum == SumCategories(counts)
           min == MinLength(length)
           minimums == Given(counts) = Category /\ sum < min
                         /\ \A c \in Category : counts[c] <= 0
           extra == ExtraCount(counts, length)
           base == [c \in Category |-> BaseCount(counts, c)]
<1>1. PICK share \in [Category -> 0..extra] :
        /\ Total(share) = extra
        /\ \A c \in Category \ ExtraChars(counts, length) : share[c] = 0
        /\ password = [c \in Category |-> BaseCount(counts, c) + share[c]]
  BY DEF Generated
<1>2. /\ sum \in Nat /\ min \in Nat /\ extra \in Nat
      /\ base \in [Category -> Nat] /\ share \in [Category -> Nat]
      /\ \A c \in Given(counts) : counts[c] \in Int
      /\ extra = IF min > sum THEN min - sum ELSE 0
  BY CountsTyped DEF ExtraCount
<1>3. sum = Total(base)
  BY DEF SumCategories
<1>4. password = [c \in Category |-> base[c] + share[c]]
  BY <1>1
<1>5. Converted(counts, length) <=> minimums
  BY DEF Converted, Exact, Given
<1> HIDE DEF sum, min, extra
<1>6. Total(password) = IF sum < min THEN min ELSE sum
  BY <1>1, <1>2, <1>3, <1>4, TotalPlus
<1>7. ASSUME NEW c \in Category, share[c] > 0
      PROVE  /\ sum < min /\ c \in ExtraChars(counts, length)
  BY <1>1, <1>2, <1>7
<1>8. ASSUME NEW c \in Category \ Given(counts), password[c] > 0 PROVE sum < min
  <2>1. base[c] = 0
    BY DEF BaseCount
  <2>2. share[c] > 0
    BY <1>2, <1>4, <1>8, <2>1
  <2> QED BY <1>7, <2>2
<1>9. ASSUME NEW c \in Given(counts)
      PROVE  IF counts[c] > 0 \/ minimums
               THEN /\ password[c] >= Abs(counts[c])
                    /\ counts[c] = 0 /\ password[c] > 0 => sum = 0
               ELSE password[c] = Abs(counts[c])
  <2>1. c \in Category /\ counts[c] \in Int
    BY <1>2 DEF Given
  <2>2. base[c] = Abs(counts[c]) /\ share[c] \in Nat /\ base[c] \in Nat
        /\ password[c] = base[c] + share[c]
    BY <1>2, <1>4, <2>1 DEF BaseCount
  <2>3. ASSUME share[c] > 0
        PROVE  /\ counts[c] > 0 \/ minimums
               /\ counts[c] = 0 => sum = 0
    <3>1. sum < min /\ c \in ExtraChars(counts, length)
      BY <1>7, <2>1, <2>3
    <3> DEFINE open == {d \in Category :
                          \/ d \notin Given(counts)
                          \/ counts[d] > 0
                          \/ counts[d] < 0 /\ Converted(counts, length)}
    <3>2. CASE open # {}
      BY <1>5, <2>1, <3>1, <3>2 DEF ExtraChars
    <3>3. CASE open = {}
      <4>1. /\ Given(counts) = Category
            /\ \A d \in Category : counts[d] <= 0
            /\ Converted(counts, length) => SumCategories(counts) = 0
        BY <3>3, NoneOpen
      <4> QED BY <1>5, <3>1, <4>1 DEF sum
    <3> QED BY <3>2, <3>3
  <2>4. CASE share[c] = 0
    BY <2>1, <2>2, <2>4 DEF Abs
  <2>5. CASE share[c] > 0
    BY <2>1, <2>2, <2>3, <2>5 DEF Abs
  <2> QED BY <2>2, <2>4, <2>5
<1> QED BY <1>6, <1>8, <1>9 DEF sum, min

\* A password is as long as was asked and has of each category what was asked,
\* whatever the counts are (GeneratePassword).
THEOREM PasswordsAsAsked == Spec => []PasswordAsAsked
<1>1. call \in Call => PasswordAsAsked
  <2> SUFFICES ASSUME call \in Call, Calls("GeneratePassword")
               PROVE  PasswordAsAsked
    BY DEF PasswordAsAsked
  <2>1. call.counts \in [Category -> Count] /\ call.length \in Length
    BY DEF Call, Calls
  <2>2. MinLength(call.length) =
          IF call.length > 0 THEN call.length ELSE DefaultLength
    <3>1. call.length \in Int
      BY <2>1, ArgumentAssumption
    <3> QED BY <3>1 DEF MinLength
  <2> QED BY <2>1, <2>2, SomePassword, EveryPassword DEF PasswordAsAsked
<1> QED BY <1>1, CallsTyped, PTL

=============================================================================
