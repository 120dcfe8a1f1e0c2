---------------------------- MODULE NotationProofs ----------------------------
(***************************************************************************)
(* GetNotation and GetNotationResults find the record they were asked for, *)
(* for any records, titles, uids and notations, with and without a cache,  *)
(* whatever the service changes between their two queries.  The notation   *)
(* they parse has the parts that were written, whatever delimiters are in  *)
(* them, and the two functions take the same value.                        *)
(*                                                                         *)
(* The parser is a function defined by recursion from the end of the       *)
(* notation: UpToIs gives its value at every place from the two next ones  *)
(* (by CourseOfValues), EscapedIs the same for the escaped text, and       *)
(* ScanText, by induction on the text, that a scan over an escaped text    *)
(* gives the text back.                                                    *)
(***************************************************************************)
EXTENDS Notation, Recursion, SequenceTheorems, FiniteSetTheorems, TLAPS

\* Answers are finite, the one in the cache too.
Finite ==
  /\ IsFiniteSet(shared)
  /\ cached # None => IsFiniteSet(cached)

\* The record is asked for by uid only if the token looks like one.
Asking == phase = "uid" => LooksLikeUid(Token)

IInv == TypeOK /\ Finite /\ Asking /\ FoundIsAsked

-----------------------------------------------------------------------------

LEMMA AnswerTyped ==
  ASSUME TypeOK, Finite, NEW filter
  PROVE  Answer(filter) \subseteq shared /\ IsFiniteSet(Answer(filter))
BY FS_Subset DEF Answer, Finite

\* What a query gives are records, finitely many, and nothing else changes.
LEMMA GetsStep ==
  ASSUME TypeOK, Finite, NEW filter, NEW records, Gets(filter, records), UNCHANGED shared
  PROVE  /\ records \subseteq Record /\ IsFiniteSet(records)
         /\ Finite' /\ (cached' = None \/ cached' \subseteq Record) /\ stale' \in BOOLEAN
         /\ \/ records = Answer(filter) /\ stale' = FALSE
            \/ records = cached /\ cached' = cached /\ stale' = TRUE
<1>1. Answer(filter) \subseteq Record /\ IsFiniteSet(Answer(filter))
  BY AnswerTyped DEF TypeOK
<1> QED BY <1>1 DEF Gets, Finite, TypeOK

\* The only record of a finite set is the only one.
LEMMA OnlyStep ==
  ASSUME NEW records, records \subseteq Record, IsFiniteSet(records),
         NEW otherwise \in {"title", "failed"}, OnlyOf(records, otherwise)
  PROVE  /\ found' \in Record \cup {None}
         /\ phase' \in {"title", "found", "failed"}
         /\ phase' = "title" => otherwise = "title"
         /\ phase' = "found" <=> found' # None
         /\ found' # None => records = {found'}
<1>1. ASSUME Cardinality(records) = 1
      PROVE  \A r \in records : records = {r}
  BY <1>1, FS_Singleton
<1> QED BY <1>1, ServicesAssumption DEF OnlyOf

LEMMA ByUid ==
  ASSUME IInv, FindByUid
  PROVE  IInv'
<1>1. PICK records \in {Answer({Token}), cached} :
        Gets({Token}, records) /\ OnlyOf(records, "title")
  BY DEF FindByUid
<1>2. phase = "uid" /\ UNCHANGED <<shared, asked, legacy, parsed>>
  BY DEF FindByUid
<1>3. /\ records \subseteq Record /\ IsFiniteSet(records)
      /\ Finite' /\ (cached' = None \/ cached' \subseteq Record) /\ stale' \in BOOLEAN
      /\ \/ records = Answer({Token}) /\ stale' = FALSE
         \/ records = cached /\ cached' = cached /\ stale' = TRUE
  BY <1>1, <1>2, GetsStep DEF IInv
<1>4. /\ found' \in Record \cup {None}
      /\ phase' \in {"title", "found", "failed"}
      /\ phase' = "found" <=> found' # None
      /\ found' # None => records = {found'}
  BY <1>1, <1>3, OnlyStep
<1>5. TypeOK'
  BY <1>2, <1>3, <1>4 DEF IInv, TypeOK
<1>6. LooksLikeUid(Token) /\ LooksLikeUid(Token)' /\ Token' = Token
  BY <1>2 DEF IInv, Asking, Token, LooksLikeUid
<1>7. Asking'
  BY <1>4, <1>6 DEF Asking
<1>8. FoundIsAsked'
  <2>1. SUFFICES ASSUME found' # None, ~stale'
                 PROVE  <<found'.uid>> = Token
    BY <1>6 DEF FoundIsAsked
  <2>2. found' \in Answer({Token})
    BY <1>3, <1>4, <2>1
  <2> QED BY <2>2 DEF Answer
<1> QED BY <1>3, <1>5, <1>7, <1>8 DEF IInv

LEMMA ByTitle ==
  ASSUME IInv, FindByTitle
  PROVE  IInv'
<1>1. PICK records \in {Answer({}), cached} :
        Gets({}, records) /\ OnlyOf(WithTitle(records), "failed")
  BY DEF FindByTitle
<1>2. phase = "title" /\ UNCHANGED <<shared, asked, legacy, parsed>>
  BY DEF FindByTitle
<1>3. /\ records \subseteq Record /\ IsFiniteSet(records)
      /\ Finite' /\ (cached' = None \/ cached' \subseteq Record) /\ stale' \in BOOLEAN
      /\ \/ records = Answer({}) /\ stale' = FALSE
         \/ records = cached /\ cached' = cached /\ stale' = TRUE
  BY <1>1, <1>2, GetsStep DEF IInv
<1>4. WithTitle(records) \subseteq records /\ IsFiniteSet(WithTitle(records))
  BY <1>3, FS_Subset DEF WithTitle
<1>5. /\ found' \in Record \cup {None}
      /\ phase' \in {"found", "failed"}
      /\ phase' = "found" <=> found' # None
      /\ found' # None => WithTitle(records) = {found'}
  BY <1>1, <1>3, <1>4, OnlyStep
<1>6. TypeOK'
  BY <1>2, <1>3, <1>5 DEF IInv, TypeOK
<1>7. Asking'
  BY <1>5 DEF Asking
<1>8. Token' = Token /\ (LooksLikeUid(Token)' <=> LooksLikeUid(Token))
  BY <1>2 DEF Token, LooksLikeUid
<1>9. FoundIsAsked'
  <2>1. SUFFICES ASSUME found' # None
                 PROVE  /\ found'.title = Token
                        /\ \A r \in (IF stale' THEN cached' ELSE shared) :
                             r # found' => r.title # Token
    BY <1>2, <1>8 DEF FoundIsAsked
  <2>2. records = IF stale' THEN cached' ELSE shared
    BY <1>3 DEF Answer
  <2> QED BY <1>5, <2>1, <2>2 DEF WithTitle
<1> QED BY <1>3, <1>6, <1>7, <1>9 DEF IInv

\* Everything before a record is found.
LEMMA BeforeFound ==
  ASSUME IInv,
         \/ \E filter \in {{}} \cup {{<<u>>} : u \in Uid} : GetSecrets(filter)
         \/ ServiceChanges
         \/ \E ask \in Ask : Parse(ask)
         \/ GetFails
  PROVE  IInv'
<1>1. ASSUME NEW filter, GetSecrets(filter)
      PROVE  IInv'
  <2>1. Answer(filter) \subseteq Record /\ IsFiniteSet(Answer(filter))
    BY AnswerTyped DEF IInv, TypeOK
  <2> QED BY <1>1, <2>1 DEF GetSecrets, IInv, TypeOK, Finite, Asking, FoundIsAsked
<1>2. CASE ServiceChanges
  <2>1. found = None /\ UNCHANGED <<cached, asked, legacy, parsed, phase, stale, found>>
    BY <1>2 DEF ServiceChanges, IInv, TypeOK
  <2>2. shared' \subseteq Record /\ IsFiniteSet(shared')
    BY <1>2, ServicesAssumption DEF ServiceChanges
  <2> QED BY <2>1, <2>2 DEF IInv, TypeOK, Finite, Asking, FoundIsAsked, Token, LooksLikeUid
<1>3. ASSUME NEW ask \in Ask, Parse(ask)
      PROVE  IInv'
  <2>1. /\ phase = "before" /\ found = None
        /\ asked' = ask /\ UNCHANGED <<shared, cached, legacy, stale, found>>
        /\ phase' \in {"uid", "title", "failed"}
        /\ phase' = "uid" => LooksLikeUid(Token')
    BY <1>3 DEF Parse, IInv, TypeOK, Asking, Token
  <2>2. LooksLikeUid(Token)' <=> LooksLikeUid(Token')
    BY DEF LooksLikeUid
  <2> QED BY <1>3, <2>1, <2>2 DEF IInv, TypeOK, Finite, Asking, FoundIsAsked
<1>4. CASE GetFails
  BY <1>4 DEF GetFails, IInv, TypeOK, Finite, Asking, FoundIsAsked
<1> QED BY <1>1, <1>2, <1>3, <1>4

-----------------------------------------------------------------------------
(* The theorems *)

LEMMA Inductive == Spec => []IInv
<1>1. Init => IInv
  BY ServicesAssumption DEF Init, IInv, TypeOK, Finite, Asking, FoundIsAsked
<1>2. IInv /\ [Next]_vars => IInv'
  <2>1. IInv /\ UNCHANGED vars => IInv'
    BY DEF vars, IInv, TypeOK, Finite, Asking, FoundIsAsked, Token, LooksLikeUid
  <2> QED BY <2>1, BeforeFound, ByUid, ByTitle DEF Next
<1> QED BY <1>1, <1>2, PTL DEF Spec

\* Every variable keeps its type, and a record is found exactly at the end.
THEOREM TypeCorrect == Spec => []TypeOK
<1>1. IInv => TypeOK
  BY DEF IInv
<1> QED BY <1>1, Inductive, PTL

\* A record that was found in an answer, or by its title in the cache, is the
\* one asked for, and the only one of its title.
THEOREM RecordAskedFor == Spec => []FoundIsAsked
<1>1. IInv => FoundIsAsked
  BY DEF IInv
<1> QED BY <1>1, Inductive, PTL

-----------------------------------------------------------------------------
(* The scan of the parser                                                   *)

\* What a scan may give: a text that has not begun with the delimiter.
Scanned(S, d) ==
  {Nil} \cup {x \in [text : Seq(S), raw : Seq(S), nil : {FALSE}] :
                x.raw # <<>> /\ x.raw[1] = d => x.text = <<>>}

LEMMA TupleScanned ==
  ASSUME NEW S, NEW d, NEW text \in Seq(S), NEW raw \in Seq(S),
         raw # <<>> /\ raw[1] = d => text = <<>>
  PROVE  ParserTuple(text, raw) \in Scanned(S, d)
BY DEF ParserTuple, Scanned

LEMMA ScannedIs ==
  ASSUME NEW S, NEW d, NEW x \in Scanned(S, d)
  PROVE  \/ x = Nil
         \/ /\ ~x.nil /\ x.text \in Seq(S) /\ x.raw \in Seq(S)
            /\ x = ParserTuple(x.text, x.raw)
            /\ x.raw # <<>> /\ x.raw[1] = d => x.text = <<>>
BY DEF Scanned, ParserTuple

\* Symbols before it.
LEMMA WithScanned ==
  ASSUME NEW S, NEW d, NEW x \in Scanned(S, d),
         NEW text \in Seq(S), NEW raw \in Seq(S), raw # <<>>, raw[1] # d
  PROVE  With(text, raw, x) \in Scanned(S, d)
<1>1. CASE x.nil
  BY <1>1 DEF With, Scanned
<1>2. CASE ~x.nil
  <2>1. x.text \in Seq(S) /\ x.raw \in Seq(S)
    BY <1>2, ScannedIs DEF Nil
  <2>2. text \o x.text \in Seq(S) /\ raw \o x.raw \in Seq(S)
    BY <2>1
  <2>3. (raw \o x.raw)[1] = raw[1]
    <3>1. Len(raw) \in Nat /\ Len(raw) # 0
      OBVIOUS
    <3>2. 1 \in 1..Len(raw) /\ 1 \in 1..(Len(raw) + Len(x.raw)) /\ Len(x.raw) \in Nat
      BY <2>1, <3>1
    <3> QED BY <2>1, <3>2, ConcatProperties
  <2>4. ParserTuple(text \o x.text, raw \o x.raw) \in Scanned(S, d)
    BY <2>2, <2>3, TupleScanned
  <2> QED BY <1>2, <2>4 DEF With
<1> QED BY <1>1, <1>2

\* A scan at a place, from the scans at the next one and the one after it.
ScanAt(n, d, forbidden, escaped, p, one, two) ==
  IF p > Len(n) THEN ParserTuple(<<>>, <<>>)
  ELSE IF escaped /\ n[p] = EscapeChar
    THEN IF p < Len(n) /\ n[p + 1] \in EscapeChars
           THEN With(<<n[p + 1]>>, <<EscapeChar, n[p + 1]>>, two)
           ELSE Nil
  ELSE IF n[p] = d THEN ParserTuple(<<>>, <<d>>)
  ELSE IF n[p] \in forbidden THEN Nil
  ELSE With(<<n[p]>>, <<n[p]>>, one)

LEMMA ScanTyped ==
  ASSUME NEW S, NEW n \in Seq(S), NEW d, d # EscapeChar, NEW forbidden, NEW escaped,
         NEW p \in Nat \ {0}, NEW one, NEW two,
         p <= Len(n) => one \in Scanned(S, d) /\ two \in Scanned(S, d)
  PROVE  ScanAt(n, d, forbidden, escaped, p, one, two) \in Scanned(S, d)
<1> DEFINE x == ScanAt(n, d, forbidden, escaped, p, one, two)
<1>1. CASE p > Len(n)
  <2>1. <<>> \in Seq(S)
    OBVIOUS
  <2>2. x = ParserTuple(<<>>, <<>>)
    BY <1>1 DEF ScanAt
  <2> QED BY <2>1, <2>2, TupleScanned
<1>2. CASE ~(p > Len(n))
  <2>1. p \in 1..Len(n) /\ n[p] \in S /\ Len(n) \in Nat
    BY <1>2
  <2>2. one \in Scanned(S, d) /\ two \in Scanned(S, d)
    BY <2>1
  <2>3. Nil \in Scanned(S, d)
    BY DEF Scanned
  <2>4. CASE escaped /\ n[p] = EscapeChar
    <3>1. CASE p < Len(n) /\ n[p + 1] \in EscapeChars
      <4>1. n[p + 1] \in S /\ EscapeChar \in S
        BY <2>1, <2>4, <3>1
      <4> DEFINE t == <<n[p + 1]>>
                 r == <<EscapeChar, n[p + 1]>>
      <4>2. t \in Seq(S) /\ r \in Seq(S) /\ r # <<>> /\ r[1] # d
        BY <4>1
      <4>3. x = With(t, r, two)
        BY <1>2, <2>4, <3>1 DEF ScanAt
      <4> HIDE DEF t, r
      <4> QED BY <2>2, <4>2, <4>3, WithScanned
    <3>2. CASE ~(p < Len(n) /\ n[p + 1] \in EscapeChars)
      BY <1>2, <2>3, <2>4, <3>2 DEF ScanAt
    <3> QED BY <3>1, <3>2
  <2>5. CASE ~(escaped /\ n[p] = EscapeChar) /\ n[p] = d
    <3>1. x = ParserTuple(<<>>, <<d>>)
      BY <1>2, <2>5 DEF ScanAt
    <3>2. <<>> \in Seq(S) /\ <<d>> \in Seq(S)
      BY <2>1, <2>5
    <3> QED BY <3>1, <3>2, TupleScanned
  <2>6. CASE ~(escaped /\ n[p] = EscapeChar) /\ n[p] # d
    <3> DEFINE c == <<n[p]>>
    <3>1. x = Nil \/ x = With(c, c, one)
      BY <1>2, <2>6 DEF ScanAt
    <3>2. c \in Seq(S) /\ c # <<>> /\ c[1] # d
      BY <2>1, <2>6
    <3> HIDE DEF c
    <3> QED BY <2>2, <2>3, <3>1, <3>2, WithScanned
  <2> QED BY <2>4, <2>5, <2>6
<1> QED BY <1>1, <1>2

\* What a scan is at every place of the notation.
ScanOf(S, n, d, forbidden, escaped, scan) ==
  \A p \in 1..(Len(n) + 2) :
    /\ scan[p] = ScanAt(n, d, forbidden, escaped, p, scan[p + 1], scan[p + 2])
    /\ scan[p] \in Scanned(S, d)

\* UpTo is defined from the end of the notation to its start.
LEMMA UpToIs ==
  ASSUME NEW S, NEW n \in Seq(S), NEW d, d # EscapeChar, NEW forbidden, NEW escaped
  PROVE  ScanOf(S, n, d, forbidden, escaped, UpTo(n, d, forbidden, escaped))
<1> DEFINE l == Len(n)
           V == Scanned(S, d)
           At(m, one, two) == ScanAt(n, d, forbidden, escaped, m, one, two)
           Rule(k, g) == IF k > l + 1 THEN Nil ELSE At(l + 2 - k, g[k - 1], g[k - 2])
           rule == [k \in Nat |-> [g \in [0..(k - 1) -> V] |-> Rule(k, g)]]
<1>1. l \in Nat
  OBVIOUS
<1>2. ASSUME NEW m \in 1..(l + 2), NEW one, NEW two,
             m <= l => one \in V /\ two \in V
      PROVE  At(m, one, two) \in V
  <2>1. m \in Nat \ {0}
    BY <1>1
  <2> QED BY <1>2, <2>1, ScanTyped
<1>3. \A m \in 1..(l + 2) : m > l => \A a, b, c, e : At(m, a, b) = At(m, c, e)
  BY DEF ScanAt
<1>4. Nil \in V
  BY DEF Scanned
<1> HIDE DEF V, At, l
<1>5. ASSUME NEW k \in Nat, NEW g \in [0..(k - 1) -> V] PROVE Rule(k, g) \in V
  <2>1. CASE k > l + 1
    BY <1>4, <2>1
  <2>2. CASE ~(k > l + 1)
    <3>1. l + 2 - k \in 1..(l + 2)
      BY <1>1, <2>2
    <3>2. l + 2 - k <= l => k - 1 \in 0..(k - 1) /\ k - 2 \in 0..(k - 1)
      BY <1>1, <2>2
    <3>3. l + 2 - k <= l => g[k - 1] \in V /\ g[k - 2] \in V
      BY <3>2
    <3> QED BY <1>2, <2>2, <3>1, <3>3
  <2> QED BY <2>1, <2>2
<1>6. IsRule(rule, V)
  <2> HIDE DEF Rule
  <2> QED BY <1>5 DEF IsRule
<1>7. ASSUME NEW k \in Nat, NEW g \in [0..(k - 1) -> V] PROVE rule[k][g] = Rule(k, g)
  <2> HIDE DEF Rule
  <2> QED OBVIOUS
<1> HIDE DEF rule
<1>8. PICK f \in [Nat -> V] : \A k \in Nat : f[k] = rule[k][Before(k, f)]
  BY <1>6, CourseOfValues
<1> DEFINE again == [m \in 1..(l + 2) |-> f[l + 2 - m]]
<1>9. \A m \in 1..(l + 2) : again[m] = f[l + 2 - m] /\ l + 2 - m \in Nat
  BY <1>1
<1>10. ASSUME NEW m \in 1..(l + 2) PROVE again[m] = At(m, again[m + 1], again[m + 2])
  <2> DEFINE k == l + 2 - m
             b == Before(k, f)
  <2>1. k \in Nat /\ ~(k > l + 1) /\ l + 2 - k = m /\ again[m] = f[k]
    BY <1>1, <1>9
  <2>2. b \in [0..(k - 1) -> V] /\ \A j \in 0..(k - 1) : b[j] = f[j]
    BY <2>1, BeforeOf
  <2>3. f[k] = Rule(k, b)
    BY <1>7, <1>8, <2>1, <2>2
  <2>4. f[k] = At(m, b[k - 1], b[k - 2])
    BY <2>1, <2>3
  <2>5. CASE m > l
    BY <1>3, <2>1, <2>4, <2>5
  <2>6. CASE ~(m > l)
    <3>1. /\ k - 1 \in 0..(k - 1) /\ k - 2 \in 0..(k - 1)
          /\ m + 1 \in 1..(l + 2) /\ m + 2 \in 1..(l + 2)
          /\ l + 2 - (m + 1) = k - 1 /\ l + 2 - (m + 2) = k - 2
      BY <1>1, <2>6
    <3>2. b[k - 1] = again[m + 1] /\ b[k - 2] = again[m + 2]
      BY <1>9, <2>2, <3>1
    <3> QED BY <2>1, <2>4, <3>2
  <2> QED BY <2>5, <2>6
<1> DEFINE scan == UpTo(n, d, forbidden, escaped)
<1>11. scan = CHOOSE s : s = [m \in 1..(l + 2) |-> At(m, s[m + 1], s[m + 2])]
  BY DEF UpTo, At, ScanAt, l
<1>12. again = [m \in 1..(l + 2) |-> At(m, again[m + 1], again[m + 2])]
  BY <1>10
<1> HIDE DEF scan, again
<1>13. scan = [m \in 1..(l + 2) |-> At(m, scan[m + 1], scan[m + 2])]
  BY <1>11, <1>12
<1>14. \A m \in 1..(l + 2) : scan[m] = At(m, scan[m + 1], scan[m + 2])
  BY <1>13
<1> DEFINE T == {k \in Nat : k <= l + 1 => scan[l + 2 - k] \in V}
<1>15. ASSUME NEW k \in Nat, 0..(k - 1) \subseteq T PROVE k \in T
  <2> SUFFICES ASSUME k <= l + 1 PROVE scan[l + 2 - k] \in V
    OBVIOUS
  <2> DEFINE m == l + 2 - k
  <2>1. m \in 1..(l + 2)
    BY <1>1
  <2>2. m <= l => scan[m + 1] \in V /\ scan[m + 2] \in V
    <3>1. m <= l => /\ k - 1 \in 0..(k - 1) /\ k - 2 \in 0..(k - 1)
                    /\ k - 1 <= l + 1 /\ k - 2 <= l + 1
                    /\ l + 2 - (k - 1) = m + 1 /\ l + 2 - (k - 2) = m + 2
      BY <1>1
    <3> QED BY <1>15, <3>1
  <2> HIDE DEF m
  <2>3. scan[m] \in V
    BY <1>2, <1>14, <2>1, <2>2
  <2> QED BY <2>3 DEF m
<1>16. Nat \subseteq T
  <2> HIDE DEF T
  <2> QED BY <1>15, StrongInduction
<1>17. ASSUME NEW p \in 1..(l + 2) PROVE scan[p] \in V
  <2>1. l + 2 - p \in Nat /\ l + 2 - p <= l + 1 /\ l + 2 - (l + 2 - p) = p
    BY <1>1
  <2> QED BY <1>16, <2>1
<1>18. ScanOf(S, n, d, forbidden, escaped, scan)
  BY <1>14, <1>17 DEF ScanOf, V, At, l
<1> QED BY <1>18 DEF scan


\* The cases of the scan.
LEMMA ScanEnds ==
  ASSUME NEW S, NEW n \in Seq(S), NEW d, NEW forbidden, NEW escaped, NEW scan,
         ScanOf(S, n, d, forbidden, escaped, scan)
  PROVE  scan[Len(n) + 1] = ParserTuple(<<>>, <<>>)
<1>1. Len(n) + 1 \in 1..(Len(n) + 2) /\ Len(n) + 1 > Len(n)
  OBVIOUS
<1> QED BY <1>1 DEF ScanOf, ScanAt

LEMMA ScanStops ==
  ASSUME NEW S, NEW n \in Seq(S), NEW d, d # EscapeChar, NEW forbidden, NEW escaped,
         NEW scan, ScanOf(S, n, d, forbidden, escaped, scan),
         NEW p \in 1..Len(n), n[p] = d
  PROVE  scan[p] = ParserTuple(<<>>, <<d>>)
<1>1. p \in 1..(Len(n) + 2) /\ ~(p > Len(n))
  OBVIOUS
<1> QED BY <1>1 DEF ScanOf, ScanAt

LEMMA ScanTakes ==
  ASSUME NEW S, NEW n \in Seq(S), NEW d, NEW forbidden, NEW escaped,
         NEW scan, ScanOf(S, n, d, forbidden, escaped, scan),
         NEW p \in 1..Len(n), NEW c, n[p] = c,
         c # d, ~(escaped /\ c = EscapeChar), c \notin forbidden
  PROVE  scan[p] = With(<<c>>, <<c>>, scan[p + 1])
<1>1. p \in 1..(Len(n) + 2) /\ ~(p > Len(n))
  OBVIOUS
<1> QED BY <1>1 DEF ScanOf, ScanAt

\* The scan of a text in which delimiters are escaped.
TextScan(S, n, d, forbidden, scan) ==
  /\ d \in EscapeChars /\ d # EscapeChar /\ forbidden \subseteq EscapeChars
  /\ ScanOf(S, n, d, forbidden, TRUE, scan)

LEMMA ScanUnescapes ==
  ASSUME NEW S, NEW n \in Seq(S), NEW d, NEW forbidden,
         NEW scan, TextScan(S, n, d, forbidden, scan),
         NEW p \in 1..Len(n), p + 1 <= Len(n),
         NEW c \in EscapeChars, n[p] = EscapeChar, n[p + 1] = c
  PROVE  scan[p] = With(<<c>>, <<EscapeChar, c>>, scan[p + 2])
<1>1. p \in 1..(Len(n) + 2) /\ ~(p > Len(n)) /\ p < Len(n)
  OBVIOUS
<1> QED BY <1>1 DEF TextScan, ScanOf, ScanAt

LEMMA TextScanTakes ==
  ASSUME NEW S, NEW n \in Seq(S), NEW d, NEW forbidden,
         NEW scan, TextScan(S, n, d, forbidden, scan),
         NEW p \in 1..Len(n), NEW c, n[p] = c,
         c # d, c # EscapeChar, c \notin forbidden
  PROVE  scan[p] = With(<<c>>, <<c>>, scan[p + 1])
<1>1. p \in 1..(Len(n) + 2) /\ ~(p > Len(n))
  OBVIOUS
<1> QED BY <1>1 DEF TextScan, ScanOf, ScanAt

-----------------------------------------------------------------------------
(* Texts with their delimiters escaped                                      *)

Piece(c) == IF c \in EscapeChars THEN <<EscapeChar, c>> ELSE <<c>>

LEMMA PieceTyped ==
  ASSUME NEW S, EscapeChar \in S, NEW c \in S
  PROVE  /\ Piece(c) \in Seq(S) /\ Piece(c) # <<>> /\ Last(Piece(c)) = c
         /\ Len(Piece(c)) = (IF c \in EscapeChars THEN 2 ELSE 1)
         /\ c \in EscapeChars => Piece(c)[1] = EscapeChar /\ Piece(c)[2] = c
         /\ c \notin EscapeChars => Piece(c)[1] = c
<1>1. CASE c \in EscapeChars
  <2>1. Piece(c) = <<EscapeChar, c>>
    BY <1>1 DEF Piece
  <2>2. <<EscapeChar, c>> \in Seq(S)
    OBVIOUS
  <2> QED BY <1>1, <2>1, <2>2 DEF Last
<1>2. CASE c \notin EscapeChars
  <2>1. Piece(c) = <<c>>
    BY <1>2 DEF Piece
  <2>2. <<c>> \in Seq(S)
    OBVIOUS
  <2> QED BY <1>2, <2>1, <2>2 DEF Last
<1> QED BY <1>1, <1>2

\* The pieces of a text one after the other.
Pieces(text, e) ==
  e[0] = <<>> /\ \A k \in 1..Len(text) : e[k] = e[k - 1] \o Piece(text[k])

LEMMA EscapedIs ==
  ASSUME NEW S, EscapeChar \in S, NEW text \in Seq(S)
  PROVE  \E e \in [Nat -> Seq(S)] : Pieces(text, e) /\ Escaped(text) = e[Len(text)]
<1> DEFINE l == Len(text)
           V == Seq(S)
           Rule(k, g) == IF k = 0 \/ k > l THEN <<>> ELSE g[k - 1] \o Piece(text[k])
           rule == [k \in Nat |-> [g \in [0..(k - 1) -> V] |-> Rule(k, g)]]
<1>1. l \in Nat /\ \A k \in 1..l : text[k] \in S
  OBVIOUS
<1>2. \A k \in 1..l : Piece(text[k]) \in V
  BY <1>1, PieceTyped
<1>3. <<>> \in V /\ \A u, v \in V : u \o v \in V
  OBVIOUS
<1>4. \A v \in V : <<>> \o v = v
  BY ConcatEmptySeq
<1> HIDE DEF V, l
<1>5. ASSUME NEW k \in Nat, NEW g \in [0..(k - 1) -> V] PROVE Rule(k, g) \in V
  <2>1. CASE k = 0 \/ k > l
    BY <1>3, <2>1
  <2>2. CASE ~(k = 0 \/ k > l)
    <3>1. k - 1 \in 0..(k - 1) /\ k \in 1..l
      BY <1>1, <2>2
    <3> QED BY <1>2, <1>3, <2>2, <3>1
  <2> QED BY <2>1, <2>2
<1>6. IsRule(rule, V)
  <2> HIDE DEF Rule
  <2> QED BY <1>5 DEF IsRule
<1>7. ASSUME NEW k \in Nat, NEW g \in [0..(k - 1) -> V] PROVE rule[k][g] = Rule(k, g)
  <2> HIDE DEF Rule
  <2> QED OBVIOUS
<1> HIDE DEF rule
<1>8. PICK e \in [Nat -> V] : \A k \in Nat : e[k] = rule[k][Before(k, e)]
  <2> HIDE DEF Rule
  <2> QED BY <1>6, CourseOfValues
<1>9. \A k \in Nat : e[k] = Rule(k, Before(k, e))
  <2>1. \A k \in Nat : Before(k, e) \in [0..(k - 1) -> V]
    BY BeforeOf
  <2> HIDE DEF Rule
  <2> QED BY <1>7, <1>8, <2>1
<1>10. e[0] = <<>>
  BY <1>9
<1>11. ASSUME NEW k \in 1..l PROVE e[k] = e[k - 1] \o Piece(text[k])
  <2>1. k \in Nat /\ ~(k = 0 \/ k > l) /\ k - 1 \in 0..(k - 1)
    BY <1>1
  <2>2. Before(k, e)[k - 1] = e[k - 1]
    BY <2>1, BeforeOf
  <2> QED BY <1>9, <2>1, <2>2
<1>12. Pieces(text, e)
  BY <1>10, <1>11 DEF Pieces, l
<1>13. Escaped(text) = e[l]
  <2> DEFINE pieces == [i \in DOMAIN text |->
               IF text[i] \in EscapeChars THEN <<EscapeChar, text[i]>> ELSE <<text[i]>>]
             flat == CHOOSE f : f = [i \in 1..Len(pieces) |->
                       IF i = 1 THEN pieces[i] ELSE f[i - 1] \o pieces[i]]
  <2>1. DOMAIN text = 1..l /\ \A i \in 1..l : pieces[i] = Piece(text[i])
    BY DEF Piece, l
  <2>2. pieces \in Seq(V) /\ Len(pieces) = l
    <3>1. pieces = [i \in 1..l |-> Piece(text[i])]
      BY <2>1 DEF Piece
    <3>2. pieces \in [1..l -> V]
      BY <1>2, <3>1
    <3> QED BY <1>1, <3>1, <3>2
  <2>3. Escaped(text) = IF Len(pieces) = 0 THEN pieces ELSE flat[Len(pieces)]
    BY DEF Escaped, FlattenSeq
  <2> HIDE DEF pieces
  <2>4. CASE l = 0
    <3>1. pieces = <<>>
      BY <2>2, <2>4
    <3> QED BY <1>10, <2>2, <2>3, <2>4, <3>1
  <2>5. CASE l # 0
    <3> DEFINE again == [i \in 1..l |-> e[i]]
    <3>1. again = [i \in 1..l |->
                    IF i = 1 THEN pieces[i] ELSE again[i - 1] \o pieces[i]]
      <4>1. ASSUME NEW i \in 1..l
            PROVE  e[i] = IF i = 1 THEN pieces[i] ELSE again[i - 1] \o pieces[i]
        <5>1. e[i] = e[i - 1] \o pieces[i]
          BY <1>11, <2>1
        <5>2. CASE i = 1
          <6>1. e[i - 1] = <<>> /\ pieces[i] \in V
            BY <1>2, <1>10, <2>1, <5>2
          <6> QED BY <1>4, <5>1, <5>2, <6>1
        <5>3. CASE i # 1
          <6>1. i - 1 \in 1..l
            BY <1>1, <5>3
          <6> QED BY <5>1, <5>3, <6>1
        <5> QED BY <5>2, <5>3
      <4> QED BY <4>1
    <3> HIDE DEF again
    <3>2. flat = [i \in 1..l |-> IF i = 1 THEN pieces[i] ELSE flat[i - 1] \o pieces[i]]
      BY <2>2, <3>1
    <3> HIDE DEF flat
    <3> DEFINE T == {k \in Nat : k + 1 <= l => flat[k + 1] = e[k + 1]}
    <3>3. 0 \in T
      <4>1. 1 \in 1..l
        BY <1>1, <2>5
      <4>2. flat[1] = pieces[1] /\ e[1] = e[1 - 1] \o pieces[1]
        BY <1>11, <2>1, <3>2, <4>1
      <4>3. e[1 - 1] = <<>> /\ pieces[1] \in V
        BY <1>2, <1>10, <2>1, <4>1
      <4>4. e[1] = pieces[1]
        BY <1>4, <4>2, <4>3
      <4> QED BY <4>2, <4>4
    <3>4. ASSUME NEW k \in Nat, k \in T PROVE k + 1 \in T
      <4> SUFFICES ASSUME (k + 1) + 1 <= l PROVE flat[(k + 1) + 1] = e[(k + 1) + 1]
        OBVIOUS
      <4> DEFINE i == (k + 1) + 1
      <4>1. i \in 1..l /\ i # 1 /\ i - 1 = k + 1 /\ k + 1 <= l
        BY <1>1
      <4>2. flat[k + 1] = e[k + 1]
        BY <3>4, <4>1
      <4> HIDE DEF i
      <4>3. flat[i] = flat[i - 1] \o pieces[i]
        BY <3>2, <4>1
      <4>4. e[i] = e[i - 1] \o pieces[i]
        BY <1>11, <2>1, <4>1
      <4>5. flat[i] = e[i]
        BY <4>1, <4>2, <4>3, <4>4
      <4> QED BY <4>5 DEF i
    <3>5. Nat \subseteq T
      <4> HIDE DEF T
      <4> QED BY <3>3, <3>4, SetInduction
    <3>6. l - 1 \in Nat /\ (l - 1) + 1 = l
      BY <1>1, <2>5
    <3>7. flat[l] = e[l]
      BY <1>1, <3>5, <3>6
    <3> QED BY <2>2, <2>3, <2>5, <3>7
  <2> QED BY <2>4, <2>5
<1> QED BY <1>12, <1>13 DEF V, l


LEMMA EscapedTyped ==
  ASSUME NEW S, EscapeChar \in S, NEW text \in Seq(S)
  PROVE  Escaped(text) \in Seq(S)
<1>1. PICK e \in [Nat -> Seq(S)] : Escaped(text) = e[Len(text)]
  BY EscapedIs
<1>2. Len(text) \in Nat
  OBVIOUS
<1> QED BY <1>1, <1>2

\* What is at the end of a sequence is at the end of one that ends with it.
LEMMA ConcatEnds ==
  ASSUME NEW S, NEW u \in Seq(S), NEW w \in Seq(S), w # <<>>
  PROVE  /\ u \o w \in Seq(S) /\ u \o w # <<>> /\ Len(u \o w) = Len(u) + Len(w)
         /\ Last(u \o w) = Last(w)
         /\ Len(w) > 1 => /\ Len(u \o w) > 1
                          /\ (u \o w)[Len(u \o w) - 1] = w[Len(w) - 1]
<1> DEFINE x == u \o w
           a == Len(u)
           b == Len(w)
<1>1. /\ x \in Seq(S) /\ Len(x) = a + b
      /\ \A i \in 1..(a + b) : x[i] = IF i <= a THEN u[i] ELSE w[i - a]
  BY ConcatProperties
<1>2. a \in Nat /\ b \in Nat /\ b # 0
  BY EmptySeq
<1>3. x # <<>> <=> Len(x) # 0
  BY <1>1, EmptySeq
<1> HIDE DEF x, a, b
<1>4. x # <<>>
  BY <1>1, <1>2, <1>3
<1>5. x[a + b] = w[b]
  <2>1. a + b \in 1..(a + b) /\ ~(a + b <= a) /\ (a + b) - a = b
    BY <1>2
  <2> QED BY <1>1, <2>1
<1>6. ASSUME b > 1 PROVE a + b > 1 /\ x[a + b - 1] = w[b - 1]
  <2>1. a + b > 1 /\ a + b - 1 \in 1..(a + b) /\ ~(a + b - 1 <= a) /\ (a + b - 1) - a = b - 1
    BY <1>2, <1>6
  <2> QED BY <1>1, <2>1
<1>7. Last(x) = x[Len(x)] /\ Last(w) = w[b]
  BY DEF Last, b
<1>8. x[Len(x)] = w[b]
  BY <1>1, <1>5
<1>10. ASSUME b > 1 PROVE Len(x) > 1 /\ x[Len(x) - 1] = w[b - 1]
  BY <1>1, <1>2, <1>6, <1>10
<1>9. u \o w = x /\ Len(u) = a /\ Len(w) = b
  BY DEF x, a, b
<1> QED BY <1>1, <1>4, <1>7, <1>8, <1>9, <1>10

\* An escaped text ends as the text does, and what is escaped shows.
LEMMA EscapedEnds ==
  ASSUME NEW S, EscapeChar \in S, NEW text \in Seq(S), text # <<>>
  PROVE  /\ Escaped(text) \in Seq(S) /\ Escaped(text) # <<>>
         /\ Last(Escaped(text)) = Last(text)
         /\ Last(text) \in EscapeChars =>
              /\ Len(Escaped(text)) > 1
              /\ Escaped(text)[Len(Escaped(text)) - 1] = EscapeChar
<1> DEFINE l == Len(text)
           c == Last(text)
           piece == Piece(c)
<1>1. l \in Nat /\ l # 0 /\ l - 1 \in Nat /\ l \in 1..l /\ text[l] = c /\ c \in S
  BY DEF Last
<1>2. PICK e \in [Nat -> Seq(S)] : Pieces(text, e) /\ Escaped(text) = e[l]
  BY EscapedIs
<1> DEFINE u == e[l - 1]
<1>3. Escaped(text) = u \o piece /\ u \in Seq(S)
  BY <1>1, <1>2 DEF Pieces
<1>4. c \in S
  BY <1>1
<1> HIDE DEF l, c, u
<1>5. /\ piece \in Seq(S) /\ piece # <<>> /\ Last(piece) = c
      /\ Len(piece) = (IF c \in EscapeChars THEN 2 ELSE 1)
      /\ c \in EscapeChars => piece[1] = EscapeChar
  BY <1>4, PieceTyped
<1> HIDE DEF piece
<1>6. c \in EscapeChars => Len(piece) > 1 /\ piece[Len(piece) - 1] = EscapeChar
  BY <1>5
<1>7. /\ u \o piece \in Seq(S) /\ u \o piece # <<>> /\ Last(u \o piece) = c
      /\ Len(piece) > 1 => /\ Len(u \o piece) > 1
                           /\ (u \o piece)[Len(u \o piece) - 1] = piece[Len(piece) - 1]
  BY <1>3, <1>5, ConcatEnds
<1> QED BY <1>3, <1>6, <1>7 DEF c

\* w stands at the place p.
Occurs(n, p, w) ==
  /\ p \in Nat \ {0} /\ p + Len(w) <= Len(n) + 1
  /\ \A j \in 1..Len(w) : n[(p - 1) + j] = w[j]

LEMMA OccursConcat ==
  ASSUME NEW S, NEW n \in Seq(S), NEW u \in Seq(S), NEW v \in Seq(S), NEW p,
         Occurs(n, p, u \o v)
  PROVE  Occurs(n, p, u) /\ Occurs(n, p + Len(u), v)
<1>1. /\ Len(n) \in Nat /\ Len(u) \in Nat /\ Len(v) \in Nat
      /\ Len(u \o v) = Len(u) + Len(v)
      /\ \A i \in 1..(Len(u) + Len(v)) :
           (u \o v)[i] = IF i <= Len(u) THEN u[i] ELSE v[i - Len(u)]
  BY ConcatProperties
<1>2. /\ p \in Nat \ {0} /\ p + (Len(u) + Len(v)) <= Len(n) + 1
      /\ \A j \in 1..(Len(u) + Len(v)) : n[(p - 1) + j] = (u \o v)[j]
  BY <1>1 DEF Occurs
<1>3. ASSUME NEW j \in 1..Len(u) PROVE n[(p - 1) + j] = u[j]
  <2>1. j \in 1..(Len(u) + Len(v)) /\ j <= Len(u)
    BY <1>1
  <2> QED BY <1>1, <1>2, <2>1
<1>4. ASSUME NEW j \in 1..Len(v) PROVE n[(p + Len(u) - 1) + j] = v[j]
  <2>1. /\ Len(u) + j \in 1..(Len(u) + Len(v)) /\ ~(Len(u) + j <= Len(u))
        /\ (Len(u) + j) - Len(u) = j
        /\ (p + Len(u) - 1) + j = (p - 1) + (Len(u) + j)
    BY <1>1, <1>2
  <2> QED BY <1>1, <1>2, <2>1
<1>5. p + Len(u) <= Len(n) + 1 /\ p + Len(u) + Len(v) <= Len(n) + 1
      /\ p + Len(u) \in Nat \ {0}
  BY <1>1, <1>2
<1> QED BY <1>2, <1>3, <1>4, <1>5 DEF Occurs

LEMMA WithNothing ==
  ASSUME NEW S, NEW d, NEW x \in Scanned(S, d)
  PROVE  With(<<>>, <<>>, x) = x
<1>1. CASE x = Nil
  BY <1>1 DEF With, Nil
<1>2. CASE x # Nil
  <2>1. ~x.nil /\ x.text \in Seq(S) /\ x.raw \in Seq(S) /\ x = ParserTuple(x.text, x.raw)
    BY <1>2, ScannedIs
  <2>2. <<>> \o x.text = x.text /\ <<>> \o x.raw = x.raw
    BY <2>1, ConcatEmptySeq
  <2> QED BY <2>1, <2>2 DEF With
<1> QED BY <1>1, <1>2

LEMMA Reassociated ==
  ASSUME NEW S, NEW u \in Seq(S), NEW v \in Seq(S), NEW w \in Seq(S)
  PROVE  u \o (v \o w) = (u \o v) \o w
BY ConcatAssociative

LEMMA WithTuple ==
  ASSUME NEW t, NEW r, NEW u, NEW q
  PROVE  With(t, r, ParserTuple(u, q)) = ParserTuple(t \o u, r \o q)
BY DEF With, ParserTuple

LEMMA WithWith ==
  ASSUME NEW S, NEW d, NEW x \in Scanned(S, d),
         NEW t \in Seq(S), NEW r \in Seq(S), NEW u \in Seq(S), NEW q \in Seq(S)
  PROVE  With(t, r, With(u, q, x)) = With(t \o u, r \o q, x)
<1>1. CASE x = Nil
  BY <1>1 DEF With, Nil
<1>2. CASE x # Nil
  <2>1. PICK xt \in Seq(S), xr \in Seq(S) : x = ParserTuple(xt, xr)
    BY <1>2, ScannedIs
  <2>2. t \o (u \o xt) = (t \o u) \o xt
    BY Reassociated
  <2>3. r \o (q \o xr) = (r \o q) \o xr
    BY Reassociated
  <2>4. With(u, q, x) = ParserTuple(u \o xt, q \o xr)
    BY <2>1, WithTuple
  <2>5. With(t, r, With(u, q, x)) = ParserTuple(t \o (u \o xt), r \o (q \o xr))
    BY <2>4, WithTuple
  <2>6. With(t \o u, r \o q, x) = ParserTuple((t \o u) \o xt, (r \o q) \o xr)
    BY <2>1, WithTuple
  <2> QED BY <2>2, <2>3, <2>5, <2>6
<1> QED BY <1>1, <1>2

\* The scan reads a text that was escaped, and goes on behind it.
LEMMA ScanPiece ==
  ASSUME NEW S, EscapeChar \in S, NEW n \in Seq(S), NEW c \in S,
         NEW d, NEW forbidden,
         NEW scan, TextScan(S, n, d, forbidden, scan),
         NEW p, Occurs(n, p, Piece(c))
  PROVE  scan[p] = With(<<c>>, Piece(c), scan[p + Len(Piece(c))])
<1>1. /\ p \in Nat \ {0} /\ p + Len(Piece(c)) <= Len(n) + 1 /\ Len(n) \in Nat
      /\ \A j \in 1..Len(Piece(c)) : n[(p - 1) + j] = Piece(c)[j]
  BY DEF Occurs
<1>2. CASE c \in EscapeChars
  <2>1. Piece(c) = <<EscapeChar, c>> /\ Len(Piece(c)) = 2
        /\ Piece(c)[1] = EscapeChar /\ Piece(c)[2] = c
    BY <1>2, PieceTyped DEF Piece
  <2>2. p \in 1..Len(n) /\ p + 1 <= Len(n) /\ (p - 1) + 1 = p /\ (p - 1) + 2 = p + 1
        /\ 1 \in 1..2 /\ 2 \in 1..2
    BY <1>1, <2>1
  <2>3. n[p] = EscapeChar /\ n[p + 1] = c
    BY <1>1, <2>1, <2>2
  <2>4. scan[p] = With(<<c>>, <<EscapeChar, c>>, scan[p + 2])
    BY <1>2, <2>2, <2>3, ScanUnescapes
  <2> QED BY <2>1, <2>4
<1>3. CASE c \notin EscapeChars
  <2>1. Piece(c) = <<c>> /\ Len(Piece(c)) = 1 /\ Piece(c)[1] = c
    BY <1>3, PieceTyped DEF Piece
  <2>2. p \in 1..Len(n) /\ (p - 1) + 1 = p /\ 1 \in 1..1
    BY <1>1, <2>1
  <2>3. n[p] = c
    BY <1>1, <2>1, <2>2
  <2>4. c # d /\ c # EscapeChar /\ c \notin forbidden
    <3>1. EscapeChar \in EscapeChars
      BY DEF EscapeChars
    <3> QED BY <1>3, <3>1 DEF TextScan
  <2>5. scan[p] = With(<<c>>, <<c>>, scan[p + 1])
    BY <2>2, <2>3, <2>4, TextScanTakes
  <2> QED BY <2>1, <2>5
<1> QED BY <1>2, <1>3

LEMMA ScanText ==
  ASSUME NEW S, EscapeChar \in S, NEW n \in Seq(S), NEW text \in Seq(S),
         NEW d, NEW forbidden,
         NEW scan, TextScan(S, n, d, forbidden, scan),
         NEW p, Occurs(n, p, Escaped(text))
  PROVE  scan[p] = With(text, Escaped(text), scan[p + Len(Escaped(text))])
<1> DEFINE l == Len(text)
<1>6. ASSUME NEW q, NEW c \in S, Occurs(n, q, Piece(c))
      PROVE  scan[q] = With(<<c>>, Piece(c), scan[q + Len(Piece(c))])
  BY <1>6, ScanPiece
<1>1. PICK e \in [Nat -> Seq(S)] : Pieces(text, e) /\ Escaped(text) = e[l]
  BY EscapedIs
<1>2. l \in Nat /\ \A k \in 1..l : text[k] \in S
  OBVIOUS
<1> DEFINE Step(k) == e[k] = e[k - 1] \o Piece(text[k])
<1>3. e[0] = <<>> /\ \A k \in 1..l : Step(k)
  BY <1>1 DEF Pieces
<1> HIDE DEF Step
<1>4. \A k \in 1..l : Piece(text[k]) \in Seq(S)
  BY <1>2, PieceTyped
<1>5. \A q \in 1..(Len(n) + 1) : scan[q] \in Scanned(S, d)
  <2>1. \A q \in 1..(Len(n) + 1) : q \in 1..(Len(n) + 2)
    OBVIOUS
  <2> QED BY <2>1 DEF TextScan, ScanOf
<1>7. ASSUME NEW k \in 1..l, Occurs(n, p, e[k])
      PROVE  Occurs(n, p, e[k - 1]) /\ Occurs(n, p + Len(e[k - 1]), Piece(text[k]))
  <2> DEFINE piece == Piece(text[k])
             u == e[k - 1]
  <2>1. e[k] = u \o piece
    BY <1>3 DEF Step
  <2>2. k - 1 \in Nat
    BY <1>2
  <2>3. u \in Seq(S) /\ piece \in Seq(S)
    BY <1>4, <2>2
  <2> HIDE DEF piece, u
  <2>4. Occurs(n, p, u) /\ Occurs(n, p + Len(u), piece)
    BY <1>7, <2>1, <2>3, OccursConcat
  <2> QED BY <2>4 DEF piece, u
<1>8. \A k \in 0..l : Occurs(n, p, e[k])
  <2> HIDE DEF l
  <2> DEFINE T == {k \in Nat : k <= l => Occurs(n, p, e[l - k])}
  <2>1. 0 \in T
    <3>1. l - 0 = l
      BY <1>2
    <3> QED BY <1>1, <3>1
  <2>2. ASSUME NEW k \in Nat, k \in T PROVE k + 1 \in T
    <3> SUFFICES ASSUME k + 1 <= l PROVE Occurs(n, p, e[l - (k + 1)])
      OBVIOUS
    <3>1. l - k \in 1..l /\ k <= l /\ (l - k) - 1 = l - (k + 1)
      BY <1>2
    <3>2. Occurs(n, p, e[l - k])
      BY <2>2, <3>1
    <3>3. Occurs(n, p, e[(l - k) - 1])
      BY <1>7, <3>1, <3>2
    <3> QED BY <3>1, <3>3
  <2>3. Nat \subseteq T
    <3> HIDE DEF T
    <3> QED BY <2>1, <2>2, SetInduction
  <2>4. ASSUME NEW k \in 0..l PROVE Occurs(n, p, e[k])
    <3>1. l - k \in Nat /\ l - k <= l /\ l - (l - k) = k
      BY <1>2
    <3> QED BY <2>3, <3>1
  <2> QED BY <2>4
<1> DEFINE begun(k) == SubSeq(text, 1, k)
           Q == {k \in Nat : k <= l => scan[p] = With(begun(k), e[k], scan[p + Len(e[k])])}
<1>9. \A k \in 0..l : /\ p + Len(e[k]) \in 1..(Len(n) + 1)
                      /\ scan[p + Len(e[k])] \in Scanned(S, d)
  <2>1. ASSUME NEW k \in 0..l PROVE p + Len(e[k]) \in 1..(Len(n) + 1)
    <3>1. e[k] \in Seq(S)
      BY <1>2
    <3>2. Occurs(n, p, e[k])
      BY <1>8
    <3> DEFINE v == e[k]
    <3> HIDE DEF v
    <3>3. Len(v) \in Nat /\ Len(n) \in Nat
      BY <3>1 DEF v
    <3>4. p \in Nat \ {0} /\ p + Len(v) <= Len(n) + 1
      BY <3>2 DEF Occurs, v
    <3>5. p + Len(v) \in 1..(Len(n) + 1)
      BY <3>3, <3>4
    <3> QED BY <3>5 DEF v
  <2> QED BY <1>5, <2>1
<1>10. \A k \in 0..l : begun(k) \in Seq(S)
  OBVIOUS
<1>11. 0 \in Q
  <2>1. 0 \in 0..l /\ begun(0) = <<>>
    BY <1>2
  <2>2. Len(e[0]) = 0 /\ p + 0 = p
    BY <1>3, <1>9, <2>1 DEF Occurs
  <2>3. scan[p] \in Scanned(S, d)
    BY <1>9, <2>1, <2>2
  <2>4. With(<<>>, <<>>, scan[p]) = scan[p]
    BY <2>3, WithNothing
  <2> QED BY <1>3, <2>1, <2>2, <2>4
<1>12. ASSUME NEW k \in Nat, k \in Q PROVE k + 1 \in Q
  <2> SUFFICES ASSUME k + 1 <= l
               PROVE  scan[p] = With(begun(k + 1), e[k + 1], scan[p + Len(e[k + 1])])
    OBVIOUS
  <2> DEFINE c == text[k + 1]
             q == p + Len(e[k])
             x == scan[p + Len(e[k + 1])]
             one == <<c>>
             piece == Piece(c)
  <2>1. k \in 0..l /\ k + 1 \in 1..l /\ k + 1 \in 0..l /\ (k + 1) - 1 = k /\ k <= l
    BY <1>2
  <2>2. c \in S /\ piece \in Seq(S) /\ one \in Seq(S) /\ e[k + 1] = e[k] \o piece
        /\ e[k] \in Seq(S)
    <3>1. Step(k + 1) /\ k \in Nat /\ k + 1 \in Nat
      BY <1>3, <2>1
    <3>2. c \in S /\ piece \in Seq(S)
      BY <1>2, <1>4, <2>1
    <3>3. one \in Seq(S)
      BY <3>2
    <3>4. e[k + 1] = e[k] \o piece
      BY <2>1, <3>1 DEF Step
    <3>5. e[k] \in Seq(S)
      BY <3>1
    <3> QED BY <3>2, <3>3, <3>4, <3>5
  <2>3. scan[p] = With(begun(k), e[k], scan[q])
    BY <1>12, <2>1
  <2>4. Occurs(n, q, piece)
    <3>1. Occurs(n, p, e[k + 1])
      BY <1>8, <2>1
    <3> QED BY <1>7, <2>1, <3>1
  <2>5. scan[q] = With(one, piece, scan[q + Len(piece)])
    BY <1>6, <2>2, <2>4
  <2>6. q + Len(piece) = p + Len(e[k + 1])
    <3> DEFINE v == e[k]
    <3>1. v \in Seq(S) /\ piece \in Seq(S) /\ e[k + 1] = v \o piece
      BY <2>2
    <3>2. p \in Nat
      BY <1>8, <2>1 DEF Occurs
    <3> HIDE DEF v, piece
    <3>3. Len(v) \in Nat /\ Len(piece) \in Nat
      BY <3>1, LenProperties
    <3>5. Len(v \o piece) = Len(v) + Len(piece)
      BY <3>1, ConcatProperties
    <3>4. (p + Len(v)) + Len(piece) = p + Len(e[k + 1])
      BY <3>1, <3>2, <3>3, <3>5
    <3> QED BY <3>4 DEF v
  <2>7. x \in Scanned(S, d)
    BY <1>9, <2>1
  <2>8. begun(k + 1) = begun(k) \o one
    <3>1. k + 1 \in 1..Len(text) /\ 1 \in 1..Len(text) /\ k + 1 \in 1..Len(text)
      BY <2>1
    <3>2. SubSeq(text, 1, k + 1) = SubSeq(text, 1, (k + 1) - 1) \o <<text[k + 1]>>
      BY <3>1, SubSeqRecursiveSecond
    <3> QED BY <2>1, <3>2
  <2> HIDE DEF begun, one, piece, x, q
  <2>9. scan[p] = With(begun(k), e[k], With(one, piece, x))
    BY <2>3, <2>5, <2>6 DEF x
  <2>10. With(begun(k), e[k], With(one, piece, x)) =
           With(begun(k) \o one, e[k] \o piece, x)
    BY <1>10, <2>1, <2>2, <2>7, WithWith
  <2> QED BY <2>2, <2>8, <2>9, <2>10 DEF x
<1>13. Nat \subseteq Q
  <2> HIDE DEF Q
  <2> QED BY <1>11, <1>12, SetInduction
<1>14. scan[p] = With(begun(l), e[l], scan[p + Len(e[l])])
  BY <1>2, <1>13
<1>15. begun(l) = text
  BY SubSeqFull
<1> QED BY <1>1, <1>14, <1>15


-----------------------------------------------------------------------------
(* The parts of a notation                                                  *)

\* All symbols of a notation.
Sym == Symbols \cup Selectors \cup {Prefix}

LEMMA EscapeCharsAre ==
  /\ EscapeChars \subseteq Sym /\ EscapeChars \subseteq Symbols
  /\ Slash \in EscapeChars /\ Open \in EscapeChars /\ Close \in EscapeChars
  /\ EscapeChar \in EscapeChars
  /\ Slash # EscapeChar /\ Open # EscapeChar /\ Close # EscapeChar /\ Open # Close
BY DEF Sym, Symbols, EscapeChars, Slash, Open, Close, EscapeChar

LEMMA WithEmpty ==
  ASSUME NEW S, NEW t \in Seq(S), NEW r \in Seq(S)
  PROVE  With(t, r, ParserTuple(<<>>, <<>>)) = ParserTuple(t, r)
<1> DEFINE nothing == <<>>
<1>1. t \o nothing = t /\ r \o nothing = r
  BY ConcatEmptySeq
<1> HIDE DEF nothing
<1>2. With(t, r, ParserTuple(nothing, nothing)) = ParserTuple(t \o nothing, r \o nothing)
  BY WithTuple
<1>3. With(t, r, ParserTuple(nothing, nothing)) = ParserTuple(t, r)
  BY <1>1, <1>2
<1> QED BY <1>3 DEF nothing

LEMMA WithDelimiter ==
  ASSUME NEW S, NEW t \in Seq(S), NEW r, NEW w
  PROVE  With(t, r, ParserTuple(<<>>, w)) = ParserTuple(t, r \o w)
<1> DEFINE nothing == <<>>
<1>1. t \o nothing = t
  BY ConcatEmptySeq
<1> HIDE DEF nothing
<1>2. With(t, r, ParserTuple(nothing, w)) = ParserTuple(t \o nothing, r \o w)
  BY WithTuple
<1>3. With(t, r, ParserTuple(nothing, w)) = ParserTuple(t, r \o w)
  BY <1>1, <1>2
<1> QED BY <1>3 DEF nothing

\* A text is read up to the delimiter behind it, or to the end.
LEMMA DelimitedText ==
  ASSUME NEW n \in Seq(Sym), NEW text \in Seq(Sym), NEW d \in EscapeChars, d # EscapeChar,
         NEW p, Occurs(n, p, Escaped(text)), p <= Len(n)
  PROVE  LET r == p + Len(Escaped(text))
         IN  /\ r <= Len(n) /\ n[r] = d =>
                  Delimited(n, p, d, TRUE) = ParserTuple(text, Escaped(text) \o <<d>>)
             /\ r = Len(n) + 1 =>
                  Delimited(n, p, d, TRUE) = ParserTuple(text, Escaped(text))
<1> DEFINE scan == UpTo(n, d, {}, TRUE)
           e == Escaped(text)
           r == p + Len(e)
<1>1. EscapeChar \in Sym /\ d \in Sym
  BY EscapeCharsAre
<1>2. e \in Seq(Sym)
  BY <1>1, EscapedTyped
<1>3. ScanOf(Sym, n, d, {}, TRUE, scan)
  BY UpToIs
<1>4. Delimited(n, p, d, TRUE) = scan[p]
  <2>1. ~(p > Len(n))
    BY DEF Occurs
  <2> QED BY <2>1 DEF Delimited
<1>5. Occurs(n, p, e)
  OBVIOUS
<1> HIDE DEF scan
<1>6. TextScan(Sym, n, d, {}, scan)
  BY <1>3 DEF TextScan
<1> DEFINE escaped == TRUE
<1>11. ScanOf(Sym, n, d, {}, escaped, scan)
  BY <1>3
<1> HIDE DEF escaped
<1>7. scan[p] = With(text, e, scan[r])
  BY <1>1, <1>6, ScanText
<1> HIDE DEF e
<1>8. r \in Nat \ {0} /\ Len(n) \in Nat
  BY <1>2, <1>5, LenProperties DEF Occurs
<1> HIDE DEF r
<1>9. ASSUME r <= Len(n), n[r] = d
      PROVE  Delimited(n, p, d, TRUE) = ParserTuple(text, e \o <<d>>)
  <2>1. r \in 1..Len(n)
    BY <1>8, <1>9
  <2>2. scan[r] = ParserTuple(<<>>, <<d>>)
    BY <1>9, <1>11, <2>1, ScanStops
  <2> QED BY <1>4, <1>7, <2>2, WithDelimiter
<1>10. ASSUME r = Len(n) + 1
       PROVE  Delimited(n, p, d, TRUE) = ParserTuple(text, e)
  <2>1. scan[r] = ParserTuple(<<>>, <<>>)
    BY <1>10, <1>11, ScanEnds
  <2> QED BY <1>2, <1>4, <1>7, <2>1, WithEmpty
<1> QED BY <1>9, <1>10 DEF r, e

\* The end of the label does not depend on what is escaped in it.
LEMMA LabelEnds ==
  ASSUME NEW name \in Seq(Sym), name # <<>>
  PROVE  /\ LabelLength(ParserTuple(name, Escaped(name))) = Len(Escaped(name))
         /\ Last(name) # EscapeChar =>
              LabelLength(ParserTuple(name, Escaped(name) \o <<Open>>)) = Len(Escaped(name))
<1> DEFINE e == Escaped(name)
           raw == e \o <<Open>>
<1>1. EscapeChar \in Sym /\ Open \in Sym /\ Open \in EscapeChars
  BY EscapeCharsAre
<1>2. /\ e \in Seq(Sym) /\ e # <<>> /\ Last(e) = Last(name)
      /\ Last(name) \in EscapeChars => Len(e) > 1 /\ e[Len(e) - 1] = EscapeChar
  BY <1>1, EscapedEnds
<1>3. /\ ParserTuple(name, e).raw = e
      /\ ParserTuple(name, raw).raw = raw
  BY DEF ParserTuple
<1> HIDE DEF e
<1>4. LabelLength(ParserTuple(name, e)) = Len(e)
  BY <1>1, <1>2, <1>3 DEF LabelLength
<1>5. ASSUME Last(name) # EscapeChar
      PROVE  LabelLength(ParserTuple(name, raw)) = Len(e)
  <2> DEFINE a == Len(e)
  <2>1. a \in Nat /\ a # 0 /\ Last(e) = e[a]
    BY <1>2, EmptySeq DEF Last
  <2>2. /\ Len(raw) = a + 1 /\ raw # <<>>
        /\ \A i \in 1..(a + 1) : raw[i] = IF i <= a THEN e[i] ELSE <<Open>>[i - a]
    <3> DEFINE o == <<Open>>
    <3>1. o \in Seq(Sym) /\ Len(o) = 1 /\ o # <<>>
      BY <1>1
    <3> HIDE DEF o
    <3>2. /\ Len(e \o o) = a + Len(o) /\ e \o o # <<>>
          /\ \A i \in 1..(a + Len(o)) : (e \o o)[i] = IF i <= a THEN e[i] ELSE o[i - a]
      BY <1>2, <3>1, ConcatProperties, ConcatEnds
    <3> QED BY <3>1, <3>2 DEF o
  <2> HIDE DEF raw, a
  <2>3. a + 1 \in 1..(a + 1) /\ ~(a + 1 <= a) /\ (a + 1) - a = 1
        /\ a \in 1..(a + 1) /\ a <= a
    BY <2>1
  <2>4. raw[a + 1] = Open /\ raw[a] = e[a]
    BY <2>2, <2>3
  <2>5. Last(raw) = Open /\ raw[Len(raw) - 1] # EscapeChar /\ Len(raw) - 1 = a
    <3>1. (a + 1) - 1 = a
      BY <2>1
    <3> QED BY <1>2, <1>5, <2>1, <2>2, <2>4, <3>1 DEF Last
  <2> QED BY <1>3, <2>2, <2>5 DEF LabelLength, a
<1> QED BY <1>4, <1>5 DEF e



\* The second tuple of a sequence of three, and so on, for the sequences below.
LEMMA OccursAt ==
  ASSUME NEW n, NEW p, NEW w, Occurs(n, p, w), NEW j \in 1..Len(w)
  PROVE  n[(p - 1) + j] = w[j]
BY DEF Occurs

LEMMA Pair ==
  ASSUME NEW S, NEW a \in S, NEW b \in S
  PROVE  <<a>> \o <<b>> = <<a, b>>
<1> DEFINE x == <<a>>
           y == <<b>>
           z == <<a, b>>
<1>1. /\ x \in Seq(S) /\ y \in Seq(S) /\ z \in Seq(S)
      /\ Len(x) = 1 /\ Len(y) = 1 /\ Len(z) = 2
      /\ x[1] = a /\ y[1] = b /\ z[1] = a /\ z[2] = b
  OBVIOUS
<1> HIDE DEF x, y, z
<1>2. /\ x \o y \in Seq(S) /\ Len(x \o y) = 1 + 1
      /\ \A i \in 1..(1 + 1) : (x \o y)[i] = IF i <= 1 THEN x[i] ELSE y[i - 1]
  BY <1>1, ConcatProperties
<1>3. (x \o y)[1] = a /\ (x \o y)[2] = b
  BY <1>1, <1>2
<1>4. \A i \in 1..Len(x \o y) : (x \o y)[i] = z[i]
  BY <1>1, <1>2, <1>3
<1>5. x \o y = z
  BY <1>1, <1>2, <1>4, SeqEqual
<1> QED BY <1>5 DEF x, y, z

LEMMA Triple ==
  ASSUME NEW S, NEW a \in S, NEW b \in S, NEW c \in S
  PROVE  <<a>> \o <<b, c>> = <<a, b, c>>
<1> DEFINE x == <<a>>
           y == <<b, c>>
           z == <<a, b, c>>
<1>1. /\ x \in Seq(S) /\ y \in Seq(S) /\ z \in Seq(S)
      /\ Len(x) = 1 /\ Len(y) = 2 /\ Len(z) = 3
      /\ x[1] = a /\ y[1] = b /\ y[2] = c /\ z[1] = a /\ z[2] = b /\ z[3] = c
  OBVIOUS
<1> HIDE DEF x, y, z
<1>2. /\ x \o y \in Seq(S) /\ Len(x \o y) = 1 + 2
      /\ \A i \in 1..(1 + 2) : (x \o y)[i] = IF i <= 1 THEN x[i] ELSE y[i - 1]
  <2>1. /\ x \o y \in Seq(S) /\ Len(x \o y) = Len(x) + Len(y)
        /\ \A i \in 1..(Len(x) + Len(y)) :
             (x \o y)[i] = IF i <= Len(x) THEN x[i] ELSE y[i - Len(x)]
    BY <1>1, ConcatProperties
  <2>2. Len(x) = 1 /\ Len(y) = 2
    BY <1>1
  <2> QED BY <2>1, <2>2
<1>3. (x \o y)[1] = a /\ (x \o y)[2] = b /\ (x \o y)[3] = c
  BY <1>1, <1>2
<1>4. \A i \in 1..Len(x \o y) : (x \o y)[i] = z[i]
  BY <1>1, <1>2, <1>3
<1>5. x \o y = z
  BY <1>1, <1>2, <1>4, SeqEqual
<1> QED BY <1>5 DEF x, y, z

\* What Bracketed does with what is inside.
LEMMA BracketedIs ==
  ASSUME NEW n, NEW p, NEW text, NEW inside, NEW raw,
         UpTo(n, Close, {Open}, TRUE)[p + 1] = ParserTuple(text, inside),
         p <= Len(n), n[p] = Open, raw = <<Open>> \o inside,
         Len(raw) > 1, Last(raw) = Close, raw[Len(raw) - 1] # EscapeChar
  PROVE  Bracketed(n, p) = ParserTuple(text, raw)
<1> DEFINE x == ParserTuple(text, inside)
<1>1. x.text = text /\ x.raw = inside /\ ~x.nil
  BY DEF ParserTuple
<1> HIDE DEF x
<1>2. UpTo(n, Close, {Open}, TRUE)[p + 1] = x
  BY DEF x
<1> QED BY <1>1, <1>2 DEF Bracketed

\* An index or a property in brackets is read as it stands.
IsBracket(b) == b = Full \/ \E w \in Word : b = <<Open, w, Close>>

LEMMA WordIs ==
  ASSUME NEW w \in Word
  PROVE  w \in Sym /\ w \notin EscapeChars /\ w # Open /\ w # Close /\ w # EscapeChar
BY WordAssumption, EscapeCharsAre DEF Sym, Symbols

LEMMA ReadFull ==
  ASSUME NEW n \in Seq(Sym), NEW p, Occurs(n, p, Full)
  PROVE  Bracketed(n, p) = ParserTuple(<<>>, Full)
<1> DEFINE scan == UpTo(n, Close, {Open}, TRUE)
<1>1. Len(Full) = 2 /\ Full[1] = Open /\ Full[2] = Close
  BY DEF Full
<1>2. p \in Nat \ {0} /\ p + 2 <= Len(n) + 1 /\ Len(n) \in Nat
  BY <1>1, LenProperties DEF Occurs
<1>3. /\ p \in 1..Len(n) /\ p + 1 \in 1..Len(n)
      /\ (p - 1) + 1 = p /\ (p - 1) + 2 = p + 1 /\ 1 \in 1..2 /\ 2 \in 1..2
  BY <1>2
<1>4. n[p] = Open /\ n[p + 1] = Close
  <2>1. 1 \in 1..Len(Full) /\ 2 \in 1..Len(Full)
    BY <1>1
  <2>2. n[(p - 1) + 1] = Full[1] /\ n[(p - 1) + 2] = Full[2]
    BY <2>1, OccursAt
  <2> QED BY <1>1, <1>3, <2>2
<1> DEFINE escaped == TRUE
<1>5. ScanOf(Sym, n, Close, {Open}, escaped, scan)
  BY EscapeCharsAre, UpToIs
<1> HIDE DEF escaped, scan
<1>6. scan[p + 1] = ParserTuple(<<>>, <<Close>>)
  BY <1>3, <1>4, <1>5, EscapeCharsAre, ScanStops
<1>7. Full = <<Open>> \o <<Close>>
  BY EscapeCharsAre, Pair DEF Full
<1>8. Last(Full) = Close /\ Len(Full) > 1 /\ Full[Len(Full) - 1] = Open
  BY <1>1 DEF Last
<1>9. p <= Len(n)
  BY <1>3
<1>10. Full[Len(Full) - 1] # EscapeChar
  BY <1>8, EscapeCharsAre
<1> QED BY <1>4, <1>6, <1>7, <1>8, <1>9, <1>10, BracketedIs DEF scan

LEMMA ReadWord ==
  ASSUME NEW n \in Seq(Sym), NEW w \in Word, NEW p, Occurs(n, p, <<Open, w, Close>>)
  PROVE  Bracketed(n, p) = ParserTuple(<<w>>, <<Open, w, Close>>)
<1> DEFINE scan == UpTo(n, Close, {Open}, TRUE)
           b == <<Open, w, Close>>
<1>1. Len(b) = 3 /\ b[1] = Open /\ b[2] = w /\ b[3] = Close
  OBVIOUS
<1>2. p \in Nat \ {0} /\ p + 3 <= Len(n) + 1 /\ Len(n) \in Nat
  BY <1>1, LenProperties DEF Occurs
<1>3. /\ p \in 1..Len(n) /\ p + 1 \in 1..Len(n) /\ p + 2 \in 1..Len(n)
      /\ (p - 1) + 1 = p /\ (p - 1) + 2 = p + 1 /\ (p - 1) + 3 = p + 2
      /\ 1 \in 1..3 /\ 2 \in 1..3 /\ 3 \in 1..3 /\ (p + 1) + 1 = p + 2
  BY <1>2
<1>4. Occurs(n, p, b)
  OBVIOUS
<1> HIDE DEF b
<1>5. n[p] = Open /\ n[p + 1] = w /\ n[p + 2] = Close
  <2>1. 1 \in 1..Len(b) /\ 2 \in 1..Len(b) /\ 3 \in 1..Len(b)
    BY <1>1
  <2>2. n[(p - 1) + 1] = b[1] /\ n[(p - 1) + 2] = b[2] /\ n[(p - 1) + 3] = b[3]
    BY <1>4, <2>1, OccursAt
  <2> QED BY <1>1, <1>3, <2>2
<1> DEFINE escaped == TRUE
<1>6. ScanOf(Sym, n, Close, {Open}, escaped, scan)
  BY EscapeCharsAre, UpToIs
<1>7. TextScan(Sym, n, Close, {Open}, scan)
  BY <1>6, EscapeCharsAre DEF TextScan
<1> HIDE DEF escaped, scan
<1>8. scan[p + 2] = ParserTuple(<<>>, <<Close>>)
  BY <1>3, <1>5, <1>6, EscapeCharsAre, ScanStops
<1>9. scan[p + 1] = With(<<w>>, <<w>>, scan[p + 2])
  <2>1. w # Close /\ w # EscapeChar /\ w \notin {Open}
    BY WordIs
  <2>2. scan[p + 1] = With(<<w>>, <<w>>, scan[(p + 1) + 1])
    BY <1>3, <1>5, <1>7, <2>1, TextScanTakes
  <2> QED BY <1>3, <2>2
<1>10. scan[p + 1] = ParserTuple(<<w>>, <<w, Close>>)
  <2>1. <<w>> \in Seq(Word) /\ <<w>> \o <<Close>> = <<w, Close>>
    BY WordIs, EscapeCharsAre, Pair
  <2>2. With(<<w>>, <<w>>, ParserTuple(<<>>, <<Close>>)) = ParserTuple(<<w>>, <<w>> \o <<Close>>)
    BY <2>1, WithDelimiter
  <2> QED BY <1>8, <1>9, <2>1, <2>2
<1>11. b = <<Open>> \o <<w, Close>>
  BY WordIs, EscapeCharsAre, Triple DEF b
<1>12. Last(b) = Close /\ Len(b) > 1 /\ b[Len(b) - 1] = w
  BY <1>1 DEF Last
<1>13. p <= Len(n) /\ w # EscapeChar
  BY <1>3, WordIs
<1> DEFINE t == <<w>>
           i == <<w, Close>>
<1>14. UpTo(n, Close, {Open}, TRUE)[p + 1] = ParserTuple(t, i) /\ b = <<Open>> \o i
  BY <1>10, <1>11 DEF scan
<1> HIDE DEF t, i
<1>15. b[Len(b) - 1] # EscapeChar
  BY <1>12, <1>13
<1>16. Bracketed(n, p) = ParserTuple(t, b)
  BY <1>5, <1>12, <1>13, <1>14, <1>15, BracketedIs
<1> QED BY <1>16 DEF t, b

LEMMA ReadNothing ==
  ASSUME NEW n \in Seq(Sym)
  PROVE  Bracketed(n, Len(n) + 1) = Nil
<1>1. ~(Len(n) + 1 <= Len(n))
  BY LenProperties
<1> QED BY <1>1 DEF Bracketed

\* The record of a notation.
LEMMA ReadRecord ==
  ASSUME NEW n \in Seq(Sym), NEW text \in Seq(Sym), NEW p,
         Occurs(n, p, Escaped(text)),
         p + Len(Escaped(text)) <= Len(n), n[p + Len(Escaped(text))] = Slash
  PROVE  /\ RecordSection(n, p).record = ParserTuple(text, Escaped(text) \o <<Slash>>)
         /\ RecordSection(n, p).next = p + Len(Escaped(text)) + 1
         /\ p <= Len(n)
<1> DEFINE e == Escaped(text)
           l == Len(e)
           raw == e \o <<Slash>>
<1>1. e \in Seq(Sym) /\ <<Slash>> \in Seq(Sym)
  BY EscapeCharsAre, EscapedTyped
<1>2. l \in Nat /\ Len(raw) = l + 1
  <2> DEFINE s == <<Slash>>
  <2>1. s \in Seq(Sym) /\ Len(s) = 1
    BY <1>1
  <2> HIDE DEF s, e
  <2>2. Len(e \o s) = Len(e) + Len(s) /\ Len(e) \in Nat
    BY <1>1, <2>1, ConcatProperties, LenProperties
  <2> QED BY <2>1, <2>2 DEF s
<1>3. p \in Nat \ {0}
  BY DEF Occurs
<1>4. p <= Len(n)
  <2>1. p + l <= Len(n) /\ Len(n) \in Nat
    BY LenProperties
  <2> HIDE DEF l
  <2> QED BY <1>2, <1>3, <2>1
<1>5. Delimited(n, p, Slash, TRUE) = ParserTuple(text, raw)
  <2>1. Slash \in EscapeChars /\ Slash # EscapeChar
    BY EscapeCharsAre
  <2> QED BY <1>4, <2>1, DelimitedText
<1> HIDE DEF raw, l
<1>6. p + (l + 1) = p + l + 1
  BY <1>2, <1>3
<1>7. RecordSection(n, p) = [record |-> ParserTuple(text, raw), next |-> p + Len(raw)]
  <2> DEFINE x == ParserTuple(text, raw)
  <2>1. ~x.nil /\ x.raw = raw
    BY DEF ParserTuple
  <2>2. Delimited(n, p, Slash, TRUE) = x
    BY <1>5
  <2> HIDE DEF x
  <2>3. RecordSection(n, p) = [record |-> x, next |-> p + Len(raw)]
    BY <2>1, <2>2 DEF RecordSection
  <2> QED BY <2>3 DEF x
<1> QED BY <1>2, <1>4, <1>6, <1>7 DEF raw, l


-----------------------------------------------------------------------------
(* What the program writes, place by place                                  *)

\* w is the end of n, from the place p on.
Ends(n, p, w) == Occurs(n, p, w) /\ p + Len(w) = Len(n) + 1

LEMMA EndsConcat ==
  ASSUME NEW S, NEW n \in Seq(S), NEW u \in Seq(S), NEW v \in Seq(S), NEW p,
         Ends(n, p, u \o v)
  PROVE  Occurs(n, p, u) /\ Ends(n, p + Len(u), v)
<1>1. Occurs(n, p, u) /\ Occurs(n, p + Len(u), v)
  BY OccursConcat DEF Ends
<1>2. Len(u \o v) = Len(u) + Len(v) /\ p + Len(u \o v) = Len(n) + 1
  BY ConcatProperties DEF Ends
<1>3. Len(u) \in Nat /\ Len(v) \in Nat
  BY LenProperties
<1>4. p \in Nat
  BY <1>1 DEF Occurs
<1>5. (p + Len(u)) + Len(v) = Len(n) + 1
  BY <1>2, <1>3, <1>4
<1> QED BY <1>1, <1>5 DEF Ends

LEMMA EndsWith ==
  ASSUME NEW S, NEW u \in Seq(S), NEW w \in Seq(S)
  PROVE  Ends(u \o w, Len(u) + 1, w)
<1> DEFINE n == u \o w
           a == Len(u)
           b == Len(w)
<1>1. Len(n) = a + b /\ \A i \in 1..(a + b) : n[i] = IF i <= a THEN u[i] ELSE w[i - a]
  BY ConcatProperties
<1>2. a \in Nat /\ b \in Nat
  BY LenProperties
<1> HIDE DEF n, a, b
<1>3. ASSUME NEW j \in 1..b PROVE n[((a + 1) - 1) + j] = w[j]
  <2>1. a + j \in 1..(a + b) /\ ~(a + j <= a) /\ (a + j) - a = j /\ ((a + 1) - 1) + j = a + j
    BY <1>2
  <2> QED BY <1>1, <2>1
<1>4. a + 1 \in Nat \ {0} /\ (a + 1) + b <= Len(n) + 1 /\ (a + 1) + b = Len(n) + 1
  BY <1>1, <1>2
<1>5. Ends(n, a + 1, w)
  BY <1>3, <1>4 DEF Ends, Occurs, b
<1> QED BY <1>5 DEF n, a

\* The parts of what is asked for, by their types.
Plain == Symbols \cup Selectors

LEMMA PlainIs == Plain \subseteq Sym /\ Symbols \subseteq Plain /\ Prefix \notin Plain
<1>1. Prefix \notin Uid /\ Prefix \notin Word
  BY AskAssumption, WordAssumption
<1>2. Prefix \notin EscapeChars \cup Selectors
  BY DEF Prefix, EscapeChars, Slash, Open, Close, EscapeChar, Selectors, ShortSelectors,
         FullSelectors
<1> QED BY <1>1, <1>2 DEF Plain, Sym, Symbols

LEMMA AskTyped ==
  ASSUME NEW ask \in Ask
  PROVE  /\ ask.record \in Seq(Symbols) /\ ask.name \in Seq(Symbols) /\ ask.name # <<>>
         /\ Escaped(ask.record) \in Seq(Plain) /\ Escaped(ask.name) \in Seq(Plain)
         /\ Escaped(ask.name) # <<>>
         /\ ask.selector \in Selectors /\ ask.selector \in Plain
         /\ ask.index \in Seq(Plain) /\ ask.property \in Seq(Plain)
         /\ ask.index = <<>> \/ IsBracket(ask.index)
         /\ ask.property = <<>> \/ IsBracket(ask.property)
<1>1. /\ ask.record \in Seq(Symbols) /\ ask.name \in Seq(Symbols) /\ ask.name # <<>>
      /\ ask.selector \in Selectors
      /\ ask.index = <<>> \/ ask.index = Full \/ \E d \in Digits : ask.index = <<Open, d, Close>>
      /\ ask.property = <<>> \/ ask.property = Full
           \/ \E w \in Word : ask.property = <<Open, w, Close>>
  BY AskAssumption
<1>2. Symbols \subseteq Plain /\ Word \subseteq Plain /\ Open \in Plain /\ Close \in Plain
      /\ EscapeChar \in Symbols /\ EscapeChar \in Plain /\ Digits \subseteq Word
  BY EscapeCharsAre, PlainIs, WordAssumption DEF Plain, Symbols
<1>3. Escaped(ask.record) \in Seq(Symbols) /\ Escaped(ask.name) \in Seq(Symbols)
      /\ Escaped(ask.name) # <<>>
  BY <1>1, <1>2, EscapedTyped, EscapedEnds
<1>4. Escaped(ask.record) \in Seq(Plain) /\ Escaped(ask.name) \in Seq(Plain)
  BY <1>2, <1>3, SeqMonotonic
<1>5. /\ ask.index = <<>> \/ IsBracket(ask.index)
      /\ ask.property = <<>> \/ IsBracket(ask.property)
  BY <1>1, <1>2 DEF IsBracket
<1>6. ASSUME NEW b, b = <<>> \/ IsBracket(b) PROVE b \in Seq(Plain)
  <2>1. <<>> \in Seq(Plain) /\ \A w \in Word : <<Open, w, Close>> \in Seq(Plain)
    BY <1>2
  <2>2. Full \in Seq(Plain)
    BY <1>2 DEF Full
  <2> QED BY <1>6, <2>1, <2>2 DEF IsBracket
<1> QED BY <1>1, <1>3, <1>4, <1>5, <1>6 DEF Plain

\* Where the parts of a notation stand.
Places(n, p, ask) ==
  LET r == p + Len(Escaped(ask.record))
      t == (r + 3) + Len(Escaped(ask.name))
  IN  /\ Occurs(n, p, Escaped(ask.record)) /\ p \in Nat \ {0} /\ r \in Nat \ {0}
      /\ r + 1 <= Len(n) /\ n[r] = Slash /\ n[r + 1] = ask.selector
      /\ ask.selector \in ShortSelectors => Len(n) = r + 1
      /\ ask.selector \notin ShortSelectors =>
           /\ n[r + 2] = Slash /\ Occurs(n, r + 3, Escaped(ask.name)) /\ t \in Nat \ {0}
           /\ Occurs(n, t, ask.index) /\ Ends(n, t + Len(ask.index), ask.property)

LEMMA ShortPlaces ==
  ASSUME NEW ask \in Ask, NEW n \in Seq(Sym), NEW p, Ends(n, p, Format(ask)),
         ask.selector \in ShortSelectors
  PROVE  Places(n, p, ask)
<1> DEFINE e == Escaped(ask.record)
           s == <<Slash, ask.selector>>
           r == p + Len(e)
<1>1. e \in Seq(Sym) /\ s \in Seq(Sym) /\ e \o s \in Seq(Sym)
  <2>1. e \in Seq(Sym)
    BY AskTyped, PlainIs, SeqMonotonic
  <2>2. Slash \in Sym /\ ask.selector \in Sym
    BY AskTyped, PlainIs, EscapeCharsAre
  <2> QED BY <2>1, <2>2, ConcatProperties
<1>2. Format(ask) = (e \o s) \o <<>>
  BY DEF Format
<1>3. Format(ask) = e \o s
  BY <1>1, <1>2, ConcatEmptySeq
<1>4. Len(s) = 2 /\ s[1] = Slash /\ s[2] = ask.selector
  OBVIOUS
<1>5. Occurs(n, p, e) /\ Ends(n, r, s)
  <2> HIDE DEF e, s
  <2> QED BY <1>1, <1>3, EndsConcat
<1> HIDE DEF r, s
<1>6. r \in Nat \ {0} /\ r + 2 = Len(n) + 1 /\ Len(n) \in Nat /\ p \in Nat \ {0}
      /\ n[(r - 1) + 1] = Slash /\ n[(r - 1) + 2] = ask.selector
  BY <1>4, <1>5, LenProperties DEF Ends, Occurs
<1>7. r + 1 <= Len(n) /\ Len(n) = r + 1 /\ (r - 1) + 1 = r /\ (r - 1) + 2 = r + 1
  BY <1>6
<1> QED BY <1>5, <1>6, <1>7 DEF Places, r

LEMMA LongPlaces ==
  ASSUME NEW ask \in Ask, NEW n \in Seq(Sym), NEW p, Ends(n, p, Format(ask)),
         ask.selector \notin ShortSelectors
  PROVE  Places(n, p, ask)
<1> DEFINE e == Escaped(ask.record)
           s == <<Slash, ask.selector>>
           r == p + Len(e)
           o == <<Slash>>
           m == Escaped(ask.name)
           i == ask.index
           q == ask.property
<1>1. /\ e \in Seq(Sym) /\ s \in Seq(Sym) /\ o \in Seq(Sym) /\ m \in Seq(Sym)
      /\ i \in Seq(Sym) /\ q \in Seq(Sym)
  <2>1. e \in Seq(Sym) /\ m \in Seq(Sym) /\ i \in Seq(Sym) /\ q \in Seq(Sym)
    BY AskTyped, PlainIs, SeqMonotonic
  <2>2. Slash \in Sym /\ ask.selector \in Sym
    BY AskTyped, PlainIs, EscapeCharsAre
  <2> QED BY <2>1, <2>2
<1>2. Format(ask) = (e \o s) \o (((o \o m) \o i) \o q)
  BY DEF Format
<1>3. Len(s) = 2 /\ s[1] = Slash /\ s[2] = ask.selector /\ Len(o) = 1 /\ o[1] = Slash
  OBVIOUS
<1>4. (e \o s) \in Seq(Sym) /\ (o \o m) \in Seq(Sym) /\ ((o \o m) \o i) \in Seq(Sym)
      /\ (((o \o m) \o i) \o q) \in Seq(Sym)
  <2> HIDE DEF e, s, o, m, i, q
  <2>1. (e \o s) \in Seq(Sym) /\ (o \o m) \in Seq(Sym)
    BY <1>1, ConcatProperties
  <2>2. ((o \o m) \o i) \in Seq(Sym)
    BY <1>1, <2>1, ConcatProperties
  <2>3. (((o \o m) \o i) \o q) \in Seq(Sym)
    BY <1>1, <2>2, ConcatProperties
  <2> QED BY <2>1, <2>2, <2>3
<1> HIDE DEF e, s, o, m, i, q
<1> DEFINE x == e \o s
           y == ((o \o m) \o i) \o q
<1>5. Occurs(n, p, x) /\ Ends(n, p + Len(x), y)
  <2>1. x \in Seq(Sym) /\ y \in Seq(Sym) /\ Ends(n, p, x \o y)
    BY <1>2, <1>4
  <2> HIDE DEF x, y
  <2> QED BY <2>1, EndsConcat
<1>6. Occurs(n, p, e) /\ Occurs(n, r, s)
  BY <1>1, <1>5, OccursConcat
<1>7. Len(x) = Len(e) + 2 /\ Len(e) \in Nat /\ Len(m) \in Nat /\ Len(i) \in Nat /\ p \in Nat \ {0}
  <2>1. Len(e \o s) = Len(e) + Len(s)
    BY <1>1, ConcatProperties
  <2>2. Len(e) \in Nat /\ Len(m) \in Nat /\ Len(i) \in Nat
    BY <1>1, LenProperties
  <2>3. p \in Nat \ {0}
    BY <1>5 DEF Occurs
  <2> QED BY <1>3, <2>1, <2>2, <2>3
<1>8. p + Len(x) = r + 2
  BY <1>7
<1> HIDE DEF x
<1> DEFINE z == (o \o m) \o i
<1>9. Occurs(n, r + 2, z) /\ Ends(n, (r + 2) + Len(z), q)
  <2>1. z \in Seq(Sym) /\ Ends(n, r + 2, z \o q)
    BY <1>4, <1>5, <1>8
  <2> HIDE DEF z
  <2> QED BY <1>1, <2>1, EndsConcat
<1> DEFINE w == o \o m
<1>10. Occurs(n, r + 2, w) /\ Occurs(n, (r + 2) + Len(w), i)
  <2>1. w \in Seq(Sym) /\ Occurs(n, r + 2, w \o i)
    BY <1>4, <1>9
  <2> HIDE DEF w
  <2> QED BY <1>1, <2>1, OccursConcat
<1>11. Occurs(n, r + 2, o) /\ Occurs(n, (r + 2) + Len(o), m)
  BY <1>1, <1>10, OccursConcat
<1>12. Len(w) = 1 + Len(m) /\ Len(z) = (1 + Len(m)) + Len(i)
  <2>1. Len(o \o m) = Len(o) + Len(m)
    BY <1>1, ConcatProperties
  <2>2. Len((o \o m) \o i) = Len(o \o m) + Len(i)
    BY <1>1, <1>4, ConcatProperties
  <2> QED BY <1>3, <2>1, <2>2
<1> HIDE DEF w, z
<1> DEFINE t == (r + 3) + Len(m)
<1>13. /\ (r + 2) + Len(w) = t /\ (r + 2) + Len(z) = t + Len(i) /\ (r + 2) + Len(o) = r + 3
       /\ r \in Nat \ {0} /\ t \in Nat \ {0}
  BY <1>3, <1>7, <1>12
<1>14. Occurs(n, r + 3, m) /\ Occurs(n, t, i) /\ Ends(n, t + Len(i), q)
  BY <1>9, <1>10, <1>11, <1>13
<1> HIDE DEF r
<1>15. n[(r - 1) + 1] = Slash /\ n[(r - 1) + 2] = ask.selector /\ r + 2 <= Len(n) + 1
  BY <1>3, <1>6 DEF Occurs
<1>16. n[((r + 2) - 1) + 1] = Slash
  BY <1>3, <1>11 DEF Occurs
<1>17. Len(n) \in Nat
  BY LenProperties
<1>18. r + 1 <= Len(n) /\ (r - 1) + 1 = r /\ (r - 1) + 2 = r + 1 /\ ((r + 2) - 1) + 1 = r + 2
  BY <1>13, <1>15, <1>17
<1> QED BY <1>6, <1>7, <1>13, <1>14, <1>15, <1>16, <1>18 DEF Places, r, e, m, i, q

\* With and without the prefix, the notation begins behind it.
LEMMA WrittenPlaces ==
  ASSUME NEW ask \in Ask, NEW prefix \in {<<>>, <<Prefix>>}, NEW n, n = prefix \o Format(ask)
  PROVE  n \in Seq(Sym) /\ Places(n, PrefixEnd(n), ask)
<1> DEFINE f == Format(ask)
<1>1. f \in Seq(Plain) /\ f # <<>>
  <2> DEFINE e == Escaped(ask.record)
             s == <<Slash, ask.selector>>
             rest == IF ask.selector \in ShortSelectors THEN <<>>
                     ELSE ((<<Slash>> \o Escaped(ask.name)) \o ask.index) \o ask.property
  <2>1. e \in Seq(Plain) /\ s \in Seq(Plain) /\ s # <<>> /\ <<Slash>> \in Seq(Plain)
    BY AskTyped, EscapeCharsAre DEF Plain
  <2>2. rest \in Seq(Plain)
    <3> DEFINE o == <<Slash>>
               m == Escaped(ask.name)
               i == ask.index
               q == ask.property
    <3>1. o \in Seq(Plain) /\ m \in Seq(Plain) /\ i \in Seq(Plain) /\ q \in Seq(Plain)
          /\ <<>> \in Seq(Plain)
      BY <2>1, AskTyped
    <3>2. ((o \o m) \o i) \o q \in Seq(Plain)
      <4> HIDE DEF o, m, i, q
      <4> QED BY <3>1
    <3> HIDE DEF o, m, i, q
    <3> QED BY <3>1, <3>2 DEF o, m, i, q
  <2>3. f = (e \o s) \o rest
    BY DEF Format
  <2> HIDE DEF e, s, rest, f
  <2>4. e \o s \in Seq(Plain) /\ e \o s # <<>>
    BY <2>1, ConcatEnds
  <2>5. (e \o s) \o rest \in Seq(Plain) /\ (e \o s) \o rest # <<>>
    BY <2>2, <2>4, ConcatProperties, ConcatEqualIffEmpty
  <2> QED BY <2>3, <2>5
<1>2. f \in Seq(Sym)
  BY <1>1, PlainIs, SeqMonotonic
<1>3. prefix \in Seq(Sym)
  <2>1. Prefix \in Sym
    BY DEF Sym
  <2>2. <<>> \in Seq(Sym) /\ <<Prefix>> \in Seq(Sym)
    BY <2>1
  <2> QED BY <2>2
<1> HIDE DEF f
<1>4. n = prefix \o f
  BY DEF f
<1>5. n \in Seq(Sym) /\ Ends(n, Len(prefix) + 1, f)
  BY <1>2, <1>3, <1>4, ConcatProperties, EndsWith
<1>6. PrefixEnd(n) = Len(prefix) + 1
  <2>1. CASE prefix = <<>>
    <3>1. n = f
      BY <1>1, <1>4, <2>1, ConcatEmptySeq
    <3>2. 1 \in 1..Len(f)
      BY <1>1, EmptySeq
    <3>3. f[1] \in Plain
      BY <1>1, <3>2, ElementOfSeq
    <3>4. n[1] # Prefix
      BY <3>1, <3>3, PlainIs
    <3>5. Len(prefix) = 0
      BY <2>1
    <3> QED BY <3>4, <3>5 DEF PrefixEnd
  <2>2. CASE prefix = <<Prefix>>
    <3>1. Len(prefix) = 1 /\ prefix[1] = Prefix
      BY <2>2
    <3>2. Len(n) = 1 + Len(f) /\ Len(f) \in Nat
          /\ \A j \in 1..(1 + Len(f)) : n[j] = IF j <= 1 THEN prefix[j] ELSE f[j - 1]
      <4>1. Len(f) \in Nat
        BY <1>2, LenProperties
      <4>2. /\ Len(prefix \o f) = Len(prefix) + Len(f)
            /\ \A j \in 1..(Len(prefix) + Len(f)) :
                 (prefix \o f)[j] = IF j <= Len(prefix) THEN prefix[j] ELSE f[j - Len(prefix)]
        BY <1>2, <1>3, ConcatProperties
      <4> QED BY <1>4, <3>1, <4>1, <4>2
    <3>3. n[1] = Prefix /\ Len(n) # 0
      BY <3>1, <3>2
    <3>4. n # <<>>
      BY <1>5, <3>3, EmptySeq
    <3> QED BY <3>1, <3>3, <3>4 DEF PrefixEnd
  <2> QED BY <2>1, <2>2
<1>7. Ends(n, PrefixEnd(n), Format(ask))
  BY <1>5, <1>6 DEF f
<1> QED BY <1>5, <1>7, ShortPlaces, LongPlaces


-----------------------------------------------------------------------------
(* What is read                                                             *)

\* A selector is read up to the slash behind it, or to the end.
LEMMA ReadSelector ==
  ASSUME NEW n \in Seq(Sym), NEW q \in 1..Len(n), NEW sel \in Selectors, n[q] = sel
  PROVE  /\ q = Len(n) => Delimited(n, q, Slash, FALSE) = ParserTuple(<<sel>>, <<sel>>)
         /\ q < Len(n) /\ n[q + 1] = Slash =>
              Delimited(n, q, Slash, FALSE) = ParserTuple(<<sel>>, <<sel, Slash>>)
<1> DEFINE escaped == FALSE
           scan == UpTo(n, Slash, {}, escaped)
           one == <<sel>>
<1>1. ScanOf(Sym, n, Slash, {}, escaped, scan)
  BY EscapeCharsAre, UpToIs
<1>2. sel # Slash /\ sel \notin {} /\ sel \in Sym
  BY DEF Slash, Selectors, ShortSelectors, FullSelectors, Sym
<1>3. ~(escaped /\ sel = EscapeChar)
  OBVIOUS
<1>4. Delimited(n, q, Slash, FALSE) = scan[q]
  <2>1. ~(q > Len(n))
    BY LenProperties
  <2> QED BY <2>1 DEF Delimited
<1> HIDE DEF escaped, scan
<1>5. scan[q] = With(one, one, scan[q + 1])
  BY <1>1, <1>2, <1>3, ScanTakes
<1>6. one \in Seq(Sym) /\ one \o <<Slash>> = <<sel, Slash>>
  BY <1>2, EscapeCharsAre, Pair
<1> HIDE DEF one
<1>7. ASSUME q = Len(n) PROVE Delimited(n, q, Slash, FALSE) = ParserTuple(one, one)
  <2>1. scan[q + 1] = ParserTuple(<<>>, <<>>)
    BY <1>1, <1>7, ScanEnds
  <2> QED BY <1>4, <1>5, <1>6, <2>1, WithEmpty
<1>8. ASSUME q < Len(n), n[q + 1] = Slash
      PROVE  Delimited(n, q, Slash, FALSE) = ParserTuple(one, <<sel, Slash>>)
  <2>1. q + 1 \in 1..Len(n)
    BY <1>8, LenProperties
  <2>2. scan[q + 1] = ParserTuple(<<>>, <<Slash>>)
    BY <1>1, <1>8, <2>1, EscapeCharsAre, ScanStops
  <2>3. scan[q] = ParserTuple(one, one \o <<Slash>>)
    BY <1>5, <1>6, <2>2, WithDelimiter
  <2> QED BY <1>4, <1>6, <2>3
<1> QED BY <1>7, <1>8 DEF one

\* The tuple of what may be left out.
Part(b) == IF b = <<>> THEN Nil
           ELSE ParserTuple(IF b = Full THEN <<>> ELSE <<b[2]>>, b)

LEMMA PartIs ==
  ASSUME NEW b, b = <<>> \/ IsBracket(b)
  PROVE  /\ Part(b).raw = b /\ (Part(b).nil <=> b = <<>>) /\ Len(b) \in Nat
         /\ b = <<>> => Part(b) = Nil /\ Len(b) = 0
         /\ b # <<>> => Len(b) # 0
<1>1. Full # <<>> /\ Len(Full) = 2 /\ \A w : <<Open, w, Close>> # <<>> /\ Len(<<Open, w, Close>>) = 3
  BY DEF Full
<1> QED BY <1>1 DEF Part, ParserTuple, Nil, IsBracket

LEMMA ReadBracket ==
  ASSUME NEW n \in Seq(Sym), NEW p, NEW b, IsBracket(b), Occurs(n, p, b)
  PROVE  Bracketed(n, p) = Part(b)
<1>1. CASE b = Full
  <2>1. Part(b) = ParserTuple(<<>>, Full)
    BY <1>1 DEF Part, Full
  <2> QED BY <1>1, <2>1, ReadFull
<1>2. CASE b # Full
  <2>1. PICK w \in Word : b = <<Open, w, Close>>
    BY <1>2 DEF IsBracket
  <2>2. b[2] = w /\ b # <<>>
    BY <2>1
  <2>3. Part(b) = ParserTuple(<<w>>, b)
    BY <1>2, <2>2 DEF Part
  <2> QED BY <2>1, <2>3, ReadWord
<1> QED BY <1>1, <1>2

\* The two of them, of which either may be missing: an index that is missing
\* leaves its place to the property.
LEMMA ReadParts ==
  ASSUME NEW n \in Seq(Sym), NEW p, NEW i, NEW b,
         i = <<>> \/ IsBracket(i), b = <<>> \/ IsBracket(b),
         Occurs(n, p, i), Ends(n, p + Len(i), b)
  PROVE  LET first  == IF i = <<>> THEN b ELSE i
             second == IF i = <<>> THEN <<>> ELSE b
             index1 == Bracketed(n, p)
         IN  /\ index1 = Part(first)
             /\ (IF index1.nil THEN Nil ELSE Bracketed(n, p + Len(index1.raw))) = Part(second)
             /\ (p + Len(first)) + Len(second) = Len(n) + 1
<1>1. Len(i) \in Nat /\ Len(b) \in Nat /\ p \in Nat /\ Len(n) \in Nat
      /\ (p + Len(i)) + Len(b) = Len(n) + 1
      /\ Occurs(n, p + Len(i), b) /\ Len(<<>>) = 0
  BY PartIs, LenProperties DEF Occurs, Ends
<1>2. CASE i = <<>> /\ b = <<>>
  <2>1. p = Len(n) + 1
    BY <1>1, <1>2
  <2>2. Bracketed(n, p) = Part(b) /\ Part(b) = Nil /\ Nil.nil
    BY <1>2, <2>1, ReadNothing, PartIs DEF Nil
  <2> QED BY <1>1, <1>2, <2>1, <2>2
<1>3. CASE i = <<>> /\ b # <<>>
  <2>1. p + Len(i) = p
    BY <1>1, <1>3
  <2>2. Bracketed(n, p) = Part(b)
    BY <1>1, <1>3, <2>1, ReadBracket
  <2>3. ~Part(b).nil /\ Part(b).raw = b
    BY <1>3, PartIs
  <2>4. p + Len(b) = Len(n) + 1
    BY <1>1, <2>1
  <2>5. Bracketed(n, p + Len(b)) = Nil
    BY <2>4, ReadNothing
  <2>6. Part(<<>>) = Nil
    BY PartIs
  <2>7. (p + Len(b)) + Len(<<>>) = Len(n) + 1
    BY <1>1, <2>4
  <2> QED BY <1>3, <2>2, <2>3, <2>5, <2>6, <2>7
<1>4. CASE i # <<>>
  <2>1. Bracketed(n, p) = Part(i) /\ ~Part(i).nil /\ Part(i).raw = i
    BY <1>4, ReadBracket, PartIs
  <2>2. Bracketed(n, p + Len(i)) = Part(b)
    <3>1. CASE b = <<>>
      <4>1. p + Len(i) = Len(n) + 1
        BY <1>1, <3>1
      <4> QED BY <3>1, <4>1, ReadNothing, PartIs
    <3>2. CASE b # <<>>
      BY <1>1, <3>2, ReadBracket
    <3> QED BY <3>1, <3>2
  <2> QED BY <1>1, <1>4, <2>1, <2>2
<1> QED BY <1>2, <1>3, <1>4


\* A selector that needs nothing else.
LEMMA ShortSection ==
  ASSUME NEW n \in Seq(Sym), NEW q \in 1..Len(n), NEW sel \in ShortSelectors, n[q] = sel,
         q = Len(n)
  PROVE  SelectorSection(n, q) =
           [selector |-> ParserTuple(<<sel>>, <<sel>>), parameter |-> Nil,
            index1 |-> Nil, index2 |-> Nil, next |-> q + 1]
<1> DEFINE x == ParserTuple(<<sel>>, <<sel>>)
<1>1. Delimited(n, q, Slash, FALSE) = x
  BY ReadSelector DEF Selectors
<1>2. Len(x.text) = 1 /\ x.text[1] = sel /\ Len(x.raw) = 1
  BY DEF ParserTuple
<1>3. sel \notin FullSelectors
  BY DEF ShortSelectors, FullSelectors
<1>4. Nil.nil /\ LabelLength(Nil) = 0 /\ Len(Nil.raw) = 0
  BY DEF Nil, LabelLength
<1>5. (((q + 1) + 0) + 0) + 0 = q + 1
  BY LenProperties
<1> HIDE DEF x
<1>6. SelectorSection(n, q) = [selector |-> x, parameter |-> Nil, index1 |-> Nil,
                               index2 |-> Nil, next |-> (((q + 1) + 0) + 0) + 0]
  BY <1>1, <1>2, <1>3, <1>4 DEF SelectorSection
<1> QED BY <1>5, <1>6 DEF x

\* One that needs a label, which may be followed by brackets.
FullAt(n, q, sel, name, i, b) ==
  /\ q \in 1..Len(n) /\ sel \in FullSelectors /\ n[q] = sel
  /\ q + 1 <= Len(n) /\ n[q + 1] = Slash
  /\ name \in Seq(Sym) /\ name # <<>> /\ Occurs(n, q + 2, Escaped(name))
  /\ i = <<>> \/ IsBracket(i)
  /\ b = <<>> \/ IsBracket(b)
  /\ Occurs(n, (q + 2) + Len(Escaped(name)), i)
  /\ Ends(n, ((q + 2) + Len(Escaped(name))) + Len(i), b)
  /\ (i = <<>> /\ b = <<>>) \/ Last(name) # EscapeChar

\* What is read there.
FullRead(n, sel, name, i, b, s) ==
  /\ s.selector = ParserTuple(<<sel>>, <<sel, Slash>>)
  /\ s.parameter.text = name /\ ~s.parameter.nil
  /\ s.index1 = Part(IF i = <<>> THEN b ELSE i)
  /\ s.index2 = Part(IF i = <<>> THEN <<>> ELSE b)
  /\ s.next = Len(n) + 1

LEMMA FullSection ==
  ASSUME NEW n \in Seq(Sym), NEW q, NEW sel, NEW name, NEW i, NEW b,
         FullAt(n, q, sel, name, i, b)
  PROVE  FullRead(n, sel, name, i, b, SelectorSection(n, q))
<1> USE DEF FullAt
<1> DEFINE x == ParserTuple(<<sel>>, <<sel, Slash>>)
           e == Escaped(name)
           t == (q + 2) + Len(e)
<1>1. Delimited(n, q, Slash, FALSE) = x
  <2>1. q < Len(n) /\ sel \in Selectors
    BY LenProperties DEF Selectors
  <2> QED BY <2>1, ReadSelector
<1>2. Len(x.text) = 1 /\ x.text[1] = sel /\ Len(x.raw) = 2
  BY DEF ParserTuple
<1>3. e # <<>> /\ e \in Seq(Sym) /\ Len(e) \in Nat /\ Len(e) # 0 /\ q \in Nat /\ Len(n) \in Nat
  BY EscapeCharsAre, EscapedEnds, EmptySeq, LenProperties
<1>4. q + 2 <= Len(n)
  BY <1>3 DEF Occurs
<1> DEFINE parameter == Delimited(n, q + 2, Open, TRUE)
<1>5. /\ parameter.text = name /\ ~parameter.nil
      /\ LabelLength(parameter) = Len(e)
  <2>1. /\ t <= Len(n) /\ n[t] = Open => parameter = ParserTuple(name, e \o <<Open>>)
        /\ t = Len(n) + 1 => parameter = ParserTuple(name, e)
    BY <1>4, EscapeCharsAre, DelimitedText
  <2>2. /\ LabelLength(ParserTuple(name, e)) = Len(e)
        /\ Last(name) # EscapeChar => LabelLength(ParserTuple(name, e \o <<Open>>)) = Len(e)
    BY LabelEnds
  <2>3. \A raw : ParserTuple(name, raw).text = name /\ ~ParserTuple(name, raw).nil
    BY DEF ParserTuple
  <2>4. Occurs(n, t, i) /\ Ends(n, t + Len(i), b)
    OBVIOUS
  <2> HIDE DEF e, parameter
  <2>5. t \in Nat
    BY <1>3
  <2> HIDE DEF t
  <2>6. CASE i = <<>> /\ b = <<>>
    <3>1. Len(i) = 0 /\ Len(b) = 0
      BY <2>6
    <3>2. t = Len(n) + 1
      BY <2>4, <2>5, <3>1 DEF Ends
    <3> QED BY <2>1, <2>2, <2>3, <3>2
  <2>7. CASE ~(i = <<>> /\ b = <<>>)
    <3>1. PICK c : IsBracket(c) /\ Occurs(n, t, c)
      <4>1. CASE i # <<>>
        BY <2>4, <4>1
      <4>2. CASE i = <<>>
        <5>1. t + Len(i) = t
          BY <2>5, <4>2
        <5> QED BY <2>4, <2>7, <4>2, <5>1 DEF Ends
      <4> QED BY <4>1, <4>2
    <3>2. c[1] = Open /\ Len(c) \in {2, 3}
      BY <3>1 DEF IsBracket, Full
    <3>3. t <= Len(n) /\ (t - 1) + 1 = t /\ 1 \in 1..Len(c)
      BY <1>3, <2>5, <3>1, <3>2 DEF Occurs
    <3>4. n[t] = Open
      <4>1. n[(t - 1) + 1] = c[1]
        BY <3>1, <3>3, OccursAt
      <4> QED BY <3>2, <3>3, <4>1
    <3> QED BY <2>1, <2>2, <2>3, <2>7, <3>3, <3>4
  <2> QED BY <2>6, <2>7
<1> DEFINE first  == IF i = <<>> THEN b ELSE i
           second == IF i = <<>> THEN <<>> ELSE b
           index1 == Bracketed(n, t)
           index2 == IF index1.nil THEN Nil ELSE Bracketed(n, t + Len(index1.raw))
<1>6. index1 = Part(first) /\ index2 = Part(second) /\ (t + Len(first)) + Len(second) = Len(n) + 1
  <2> HIDE DEF t
  <2>1. Occurs(n, t, i) /\ Ends(n, t + Len(i), b)
    BY DEF t
  <2> QED BY <2>1, ReadParts
<1>7. Part(first).raw = first /\ Part(second).raw = second
  BY PartIs
<1> DEFINE s == SelectorSection(n, q)
<1>8. /\ s.selector = x /\ s.parameter = parameter
      /\ s.index1 = index1 /\ s.index2 = index2
      /\ s.next = (t + Len(index1.raw)) + Len(index2.raw)
  <2> HIDE DEF x, e
  <2> DEFINE k == LabelLength(parameter)
  <2>1. (q + 2) + k = t
    BY <1>5
  <2> HIDE DEF k, t
  <2>2. Delimited(n, q + Len(x.raw), Open, TRUE) = parameter
    BY <1>2
  <2>3. ~parameter.nil
    BY <1>5
  <2> HIDE DEF parameter
  <2>4. s = [selector |-> x, parameter |-> parameter, index1 |-> index1, index2 |-> index2,
             next |-> (t + Len(index1.raw)) + Len(index2.raw)]
    BY <1>1, <1>2, <2>1, <2>2, <2>3 DEF SelectorSection, k
  <2> HIDE DEF s, index1, index2
  <2> QED BY <2>4
<1> HIDE DEF x, e, parameter, first, second, index1, index2, s, t
<1>9. s.next = Len(n) + 1
  BY <1>6, <1>7, <1>8
<1>10. s.parameter.text = name /\ ~s.parameter.nil
  BY <1>5, <1>8
<1>11. s.selector = x /\ s.index1 = Part(first) /\ s.index2 = Part(second)
  BY <1>6, <1>8
<1> QED BY <1>9, <1>10, <1>11 DEF FullRead, x, s, first, second


\* Whether the parts are accepted.
WellFormed(s, n, mode) ==
  /\ IsSelector(s.selector, Selectors)
  /\ IsSelector(s.selector, FullSelectors) => ~s.parameter.nil
  /\ IsSelector(s.selector, {"file"}) => s.index1.nil
  /\ ~s.index1.nil /\ ~Numeric(s.index1) => mode
  /\ s.next > Len(n)

LEMMA ParseIs ==
  ASSUME NEW n, NEW mode, NEW record, NEW q, NEW s,
         RecordSection(n, PrefixEnd(n)).record = record,
         RecordSection(n, PrefixEnd(n)).next = q, SelectorSection(n, q) = s,
         PrefixEnd(n) <= Len(n), q <= Len(n)
  PROVE  ParseNotation(n, mode) =
           IF ~WellFormed(s, n, mode) THEN Rejected
           ELSE IF ~s.index1.nil /\ ~Numeric(s.index1) /\ s.index2.nil
             THEN Accepted(record, s, ParserTuple(<<>>, <<Open, Close>>), s.index1)
             ELSE Accepted(record, s, s.index1, s.index2)
BY DEF ParseNotation, WellFormed

LEMMA SelectorIs ==
  ASSUME NEW sel, NEW raw, NEW set
  PROVE  /\ ParserTuple(<<sel>>, raw).text = <<sel>>
         /\ IsSelector(ParserTuple(<<sel>>, raw), set) <=> sel \in set
BY DEF ParserTuple, IsSelector

\* What was parsed is what the program asked for, as it wrote it.
Read ==
  /\ asked \in Ask
  /\ \E prefix \in {<<>>, <<Prefix>>} :
       parsed = ParseNotation(prefix \o Format(asked), legacy)

Written == asked = None \/ Read

LEMMA ReadBack ==
  ASSUME Written
  PROVE  WrittenIsRead
<1> SUFFICES ASSUME asked # None, ~EndsInEscape(asked)
             PROVE  IF Permitted(asked) THEN SameParts ELSE ~parsed.accepted
  BY DEF WrittenIsRead
<1>1. PICK prefix \in {<<>>, <<Prefix>>} : parsed = ParseNotation(prefix \o Format(asked), legacy)
  BY DEF Written, Read
<1>2. asked \in Ask
  BY DEF Written, Read
<1> DEFINE n == prefix \o Format(asked)
           p == PrefixEnd(n)
           rec == asked.record
           sel == asked.selector
           i == asked.index
           b == asked.property
           r == p + Len(Escaped(rec))
           s == SelectorSection(n, r + 1)
           record == ParserTuple(rec, Escaped(rec) \o <<Slash>>)
<1>3. n \in Seq(Sym) /\ Places(n, p, asked)
  BY <1>2, WrittenPlaces
<1>4. /\ rec \in Seq(Sym) /\ asked.name \in Seq(Sym) /\ asked.name # <<>>
      /\ sel \in Selectors
      /\ i = <<>> \/ IsBracket(i)
      /\ b = <<>> \/ IsBracket(b)
  <2>1. Symbols \subseteq Sym
    BY DEF Sym
  <2> QED BY <1>2, <2>1, AskTyped, SeqMonotonic
<1> HIDE DEF n
<1>5. /\ Occurs(n, p, Escaped(rec)) /\ r \in Nat \ {0}
      /\ r + 1 <= Len(n) /\ n[r] = Slash /\ n[r + 1] = sel
  BY <1>3 DEF Places
<1>6. r \in 1..Len(n) /\ r + 1 \in 1..Len(n) /\ r <= Len(n) /\ Len(n) \in Nat
  <2>1. Len(n) \in Nat
    BY <1>3, LenProperties
  <2> QED BY <1>5, <2>1
<1>7. RecordSection(n, p).record = record /\ RecordSection(n, p).next = r + 1 /\ p <= Len(n)
  BY <1>3, <1>4, <1>5, <1>6, ReadRecord
<1>8. parsed = IF ~WellFormed(s, n, legacy) THEN Rejected
               ELSE IF ~s.index1.nil /\ ~Numeric(s.index1) /\ s.index2.nil
                 THEN Accepted(record, s, ParserTuple(<<>>, <<Open, Close>>), s.index1)
                 ELSE Accepted(record, s, s.index1, s.index2)
  <2>1. parsed = ParseNotation(n, legacy)
    BY <1>1 DEF n
  <2>2. r + 1 <= Len(n)
    BY <1>5
  <2> HIDE DEF p, record, r
  <2>3. RecordSection(n, PrefixEnd(n)).record = record
        /\ RecordSection(n, PrefixEnd(n)).next = r + 1 /\ PrefixEnd(n) <= Len(n)
    BY <1>7 DEF p
  <2> DEFINE q == r + 1
  <2> HIDE DEF q
  <2>4. RecordSection(n, PrefixEnd(n)).next = q /\ q <= Len(n) /\ s = SelectorSection(n, q)
    BY <2>2, <2>3 DEF q
  <2> HIDE DEF s
  <2> QED BY <2>1, <2>3, <2>4, ParseIs
<1>9. record.text = rec /\ Rejected.accepted = FALSE
      /\ \A x, y : /\ Accepted(record, s, x, y).accepted = TRUE
                   /\ Accepted(record, s, x, y).record = record
                   /\ Accepted(record, s, x, y).selector = s.selector
                   /\ Accepted(record, s, x, y).parameter = s.parameter
                   /\ Accepted(record, s, x, y).index1 = x
                   /\ Accepted(record, s, x, y).index2 = y
  <2> HIDE DEF s
  <2>1. record.text = rec
    BY DEF ParserTuple
  <2> HIDE DEF record
  <2> QED BY <2>1 DEF Accepted, Rejected
<1> HIDE DEF record
<1>10. CASE sel \in ShortSelectors
  <2>1. Len(n) = r + 1
    BY <1>3, <1>10 DEF Places
  <2>2. s = [selector |-> ParserTuple(<<sel>>, <<sel>>), parameter |-> Nil,
             index1 |-> Nil, index2 |-> Nil, next |-> (r + 1) + 1]
    <3> DEFINE q == r + 1
    <3>1. q \in 1..Len(n) /\ n[q] = sel /\ q = Len(n)
      BY <1>5, <1>6, <2>1
    <3> HIDE DEF q, sel
    <3>2. SelectorSection(n, q) = [selector |-> ParserTuple(<<sel>>, <<sel>>),
            parameter |-> Nil, index1 |-> Nil, index2 |-> Nil, next |-> q + 1]
      BY <1>3, <1>10, <3>1, ShortSection
    <3> QED BY <3>2 DEF q, sel
  <2>3. s.selector.text = <<sel>> /\ IsSelector(s.selector, Selectors)
        /\ ~IsSelector(s.selector, FullSelectors) /\ ~IsSelector(s.selector, {"file"})
    <3>1. sel \notin FullSelectors /\ sel # "file" /\ sel \in Selectors
      BY <1>10 DEF ShortSelectors, FullSelectors, Selectors
    <3>2. s.selector = ParserTuple(<<sel>>, <<sel>>)
      BY <2>2
    <3> HIDE DEF s
    <3> QED BY <3>1, <3>2, SelectorIs
  <2>4. s.index1.nil /\ s.next > Len(n)
    <3>1. s.index1 = Nil /\ s.next = (r + 1) + 1
      BY <2>2
    <3> HIDE DEF s
    <3> QED BY <1>5, <1>6, <2>1, <3>1 DEF Nil
  <2> HIDE DEF s
  <2>5. WellFormed(s, n, legacy)
    BY <2>3, <2>4 DEF WellFormed
  <2>6. parsed = Accepted(record, s, s.index1, s.index2)
    BY <1>8, <2>4, <2>5
  <2>7. Permitted(asked) /\ asked.selector \notin FullSelectors
    BY <1>10 DEF Permitted, ShortSelectors, FullSelectors
  <2>8. SameParts
    BY <1>9, <2>3, <2>6, <2>7 DEF SameParts
  <2> QED BY <2>7, <2>8
<1>11. CASE sel \in FullSelectors
  <2>1. sel \notin ShortSelectors
    BY <1>11 DEF ShortSelectors, FullSelectors
  <2> DEFINE q == r + 1
             t == (q + 2) + Len(Escaped(asked.name))
  <2>2. /\ q + 1 = r + 2 /\ q + 2 = r + 3 /\ q \in 1..Len(n) /\ n[q] = sel
    BY <1>5, <1>6
  <2>3. /\ n[q + 1] = Slash /\ Occurs(n, q + 2, Escaped(asked.name))
        /\ Occurs(n, t, i) /\ Ends(n, t + Len(i), b)
    BY <1>3, <2>1, <2>2 DEF Places
  <2>4. q + 1 <= Len(n)
    <3>1. q + 2 <= Len(n) + 1
      <4>1. Escaped(asked.name) \in Seq(Sym)
        BY <1>4, EscapeCharsAre, EscapedTyped
      <4>2. Len(Escaped(asked.name)) \in Nat
        BY <4>1, LenProperties
      <4>3. q + 2 + Len(Escaped(asked.name)) <= Len(n) + 1
        BY <2>3 DEF Occurs
      <4> QED BY <1>6, <2>2, <4>2, <4>3
    <3> QED BY <1>6, <2>2, <3>1
  <2>5. (i = <<>> /\ b = <<>>) \/ Last(asked.name) # EscapeChar
    <3>1. i # <<>> \/ b # <<>> => i \o b # <<>>
      <4>1. i \in Seq(Plain) /\ b \in Seq(Plain)
        BY <1>2, AskTyped
      <4> QED BY <4>1, ConcatEqualIffEmpty
    <3> QED BY <1>11, <3>1 DEF EndsInEscape
  <2> DEFINE first  == IF i = <<>> THEN b ELSE i
             second == IF i = <<>> THEN <<>> ELSE b
  <2>6. /\ s.selector = ParserTuple(<<sel>>, <<sel, Slash>>)
        /\ s.parameter.text = asked.name /\ ~s.parameter.nil
        /\ s.index1 = Part(first) /\ s.index2 = Part(second)
        /\ s.next = Len(n) + 1
    <3> DEFINE name == asked.name
    <3>1. s = SelectorSection(n, q)
      OBVIOUS
    <3>2. /\ name \in Seq(Sym) /\ name # <<>>
          /\ i = <<>> \/ IsBracket(i)
          /\ b = <<>> \/ IsBracket(b)
      BY <1>4
    <3>3. /\ q \in 1..Len(n) /\ n[q] = sel /\ q + 1 <= Len(n) /\ n[q + 1] = Slash
          /\ sel \in FullSelectors
      BY <1>11, <2>2, <2>3, <2>4
    <3>4. /\ Occurs(n, q + 2, Escaped(name))
          /\ Occurs(n, (q + 2) + Len(Escaped(name)), i)
          /\ Ends(n, ((q + 2) + Len(Escaped(name))) + Len(i), b)
      BY <2>3
    <3>5. (i = <<>> /\ b = <<>>) \/ Last(name) # EscapeChar
      BY <2>5
    <3> HIDE DEF q, s, sel, i, b, name
    <3>6. /\ s.selector = ParserTuple(<<sel>>, <<sel, Slash>>)
          /\ s.parameter.text = name /\ ~s.parameter.nil
          /\ s.index1 = Part(IF i = <<>> THEN b ELSE i)
          /\ s.index2 = Part(IF i = <<>> THEN <<>> ELSE b)
          /\ s.next = Len(n) + 1
      <4>1. FullAt(n, q, sel, name, i, b)
        BY <3>2, <3>3, <3>4, <3>5 DEF FullAt
      <4>2. n \in Seq(Sym)
        BY <1>3
      <4>3. FullRead(n, sel, name, i, b, SelectorSection(n, q))
        BY <4>1, <4>2, FullSection
      <4>4. FullRead(n, sel, name, i, b, s)
        BY <3>1, <4>3
      <4> QED BY <4>4 DEF FullRead
    <3> QED BY <3>6 DEF name
  <2>7. s.selector.text = <<sel>> /\ IsSelector(s.selector, Selectors)
        /\ (IsSelector(s.selector, {"file"}) <=> sel = "file")
    <3>1. sel \in Selectors
      BY <1>4
    <3> DEFINE raw == <<sel, Slash>>
    <3>2. s.selector = ParserTuple(<<sel>>, raw)
      BY <2>6
    <3> HIDE DEF s, raw, sel
    <3>3. s.selector.text = <<sel>>
      BY <3>2, SelectorIs
    <3>4. IsSelector(s.selector, Selectors)
      BY <3>1, <3>2, SelectorIs
    <3>5. IsSelector(s.selector, {"file"}) <=> sel \in {"file"}
      BY <3>2, SelectorIs
    <3> QED BY <3>3, <3>4, <3>5
  <2> HIDE DEF s, q
  <2>8. /\ Part(first).raw = first /\ (Part(first).nil <=> first = <<>>)
        /\ Part(second).raw = second /\ (Part(second).nil <=> second = <<>>)
    BY <1>4, PartIs
  <2>9. i # <<>> => Numeric(Part(first))
    <3>1. i # <<>> => i \in {Full} \cup {<<Open, d, Close>> : d \in Digits}
      BY <1>2, AskAssumption
    <3> HIDE DEF i
    <3>2. i # <<>> => Part(first).raw = i
      BY <2>8
    <3> HIDE DEF first
    <3> QED BY <3>1, <3>2 DEF Numeric, Full
  <2>10. i = <<>> => ~Numeric(Part(first)) \/ b = <<>>
    <3>1. i = <<>> => b \notin {Full} \cup {<<Open, d, Close>> : d \in Digits}
      BY <1>2, AskAssumption
    <3> HIDE DEF i, b
    <3>2. i = <<>> => Part(first).raw = b
      BY <2>8
    <3> HIDE DEF first
    <3> QED BY <3>1, <3>2 DEF Numeric, Full
  <2>11. s.next > Len(n)
    BY <1>6, <2>6
  <2>12. WellFormed(s, n, legacy) <=>
           (sel = "file" => first = <<>>) /\ (i = <<>> /\ b # <<>> => legacy)
    <3> HIDE DEF sel, i, b
    <3>1. (~Part(first).nil /\ ~Numeric(Part(first))) <=> (i = <<>> /\ b # <<>>)
      BY <2>8, <2>9, <2>10
    <3>2. Part(first).nil <=> first = <<>>
      BY <2>8
    <3> HIDE DEF first, second
    <3> QED BY <2>6, <2>7, <2>11, <3>1, <3>2 DEF WellFormed
  <2>13. WellFormed(s, n, legacy) <=> Permitted(asked)
    <3>1. first = <<>> <=> i = <<>> /\ b = <<>>
      OBVIOUS
    <3> QED BY <1>11, <2>12, <3>1 DEF Permitted
  <2>14. CASE ~Permitted(asked)
    BY <1>8, <1>9, <2>13, <2>14
  <2>15. CASE Permitted(asked)
    <3>1. SUFFICES SameParts
      BY <2>15
    <3>2. PICK x, y : /\ parsed = Accepted(record, s, x, y)
                      /\ y.raw = b /\ x.raw = IF i = <<>> /\ b # <<>> THEN Full ELSE i
      <4>1. CASE i = <<>> /\ b # <<>>
        <5>1. first = b /\ second = <<>>
          BY <4>1
        <5> HIDE DEF first, second
        <5>2. s.index1 = Part(first) /\ s.index2 = Part(second)
          BY <2>6
        <5>3. ~s.index1.nil /\ ~Numeric(s.index1) /\ s.index2.nil /\ s.index1.raw = b
          BY <2>8, <2>10, <4>1, <5>1, <5>2
        <5>4. parsed = Accepted(record, s, ParserTuple(<<>>, <<Open, Close>>), s.index1)
          BY <1>8, <2>13, <2>15, <5>3
        <5>5. ParserTuple(<<>>, <<Open, Close>>).raw = Full
          BY DEF ParserTuple, Full
        <5> QED BY <4>1, <5>3, <5>4, <5>5
      <4>2. CASE ~(i = <<>> /\ b # <<>>)
        <5>1. first = i /\ second = b
          BY <4>2
        <5>2. s.index1 = Part(first) /\ s.index2 = Part(second)
          BY <2>6
        <5> HIDE DEF first, second
        <5>3. s.index1.nil \/ Numeric(s.index1)
          BY <2>8, <2>9, <5>1, <5>2
        <5>4. s.index1.raw = i /\ s.index2.raw = b
          BY <2>8, <5>1, <5>2
        <5>5. parsed = Accepted(record, s, s.index1, s.index2)
          BY <1>8, <2>13, <2>15, <5>3
        <5> QED BY <4>2, <5>4, <5>5
      <4> QED BY <4>1, <4>2
    <3> HIDE DEF first, second
    <3>3. /\ parsed.accepted /\ parsed.record.text = asked.record
          /\ parsed.selector.text = <<asked.selector>>
          /\ parsed.parameter.text = asked.name
          /\ parsed.index2.raw = asked.property
          /\ parsed.index1.raw = IF asked.index = <<>> /\ asked.property # <<>> THEN Full
                                 ELSE asked.index
      BY <1>9, <2>6, <2>7, <3>2
    <3> QED BY <3>3 DEF SameParts
  <2> QED BY <2>14, <2>15
<1> QED BY <1>4, <1>10, <1>11 DEF Selectors

\* Whatever delimiters are in titles and labels, what is written by the rules
\* is read back part by part, and what the rules forbid is rejected.
THEOREM ReadAsWritten == Spec => []WrittenIsRead
<1>1. Init => Written
  BY DEF Init, Written
<1>2. Written /\ [Next]_vars => Written'
  <2> SUFFICES ASSUME Written, [Next]_vars PROVE Written'
    OBVIOUS
  <2>1. ASSUME NEW ask \in Ask, Parse(ask) PROVE Written'
    BY <2>1 DEF Parse, Written, Read
  <2>2. CASE UNCHANGED <<asked, parsed, legacy>>
    BY <2>2 DEF Written, Read
  <2> QED BY <2>1, <2>2 DEF Next, vars, GetSecrets, ServiceChanges, FindByUid, FindByTitle,
                            GetFails
<1>3. Written => WrittenIsRead
  BY ReadBack
<1> QED BY <1>1, <1>2, <1>3, PTL DEF Spec


-----------------------------------------------------------------------------
(* The value of the record                                                  *)

\* An index or a property that was read, or none.
InBrackets(x) ==
  /\ x.text \in Seq(Sym) /\ x.raw \in Seq(Sym)
  /\ x.nil \/ x.raw = Full => x.text = <<>>

LEMMA NilIs == /\ Nil.nil /\ Nil.text = <<>> /\ Nil.raw = <<>> /\ InBrackets(Nil)
               /\ <<>> \in Seq(Sym) /\ Len(Nil.raw) \in Nat
BY DEF Nil, InBrackets

LEMMA DelimitedTyped ==
  ASSUME NEW n \in Seq(Sym), NEW p \in Nat \ {0}, NEW d, d # EscapeChar,
         NEW escaped
  PROVE  /\ Delimited(n, p, d, escaped).raw \in Seq(Sym)
         /\ Len(Delimited(n, p, d, escaped).raw) \in Nat
<1> DEFINE scan == UpTo(n, d, {}, escaped)
           x == Delimited(n, p, d, escaped)
<1>1. ScanOf(Sym, n, d, {}, escaped, scan)
  BY UpToIs
<1> HIDE DEF scan
<1>2. x = Nil \/ (x = scan[p] /\ p \in 1..(Len(n) + 2))
  BY LenProperties DEF Delimited, scan
<1> HIDE DEF x
<1>3. x = Nil \/ x \in Scanned(Sym, d)
  BY <1>1, <1>2 DEF ScanOf
<1>4. x.raw \in Seq(Sym)
  BY <1>3, ScannedIs, NilIs
<1>5. Len(x.raw) \in Nat
  BY <1>4, LenProperties
<1> QED BY <1>4, <1>5 DEF x

LEMMA BracketedTyped ==
  ASSUME NEW n \in Seq(Sym), NEW p \in Nat \ {0}
  PROVE  InBrackets(Bracketed(n, p)) /\ Len(Bracketed(n, p).raw) \in Nat
<1> DEFINE escaped == TRUE
           scan == UpTo(n, Close, {Open}, escaped)
           x == Bracketed(n, p)
<1>1. ScanOf(Sym, n, Close, {Open}, escaped, scan)
  BY EscapeCharsAre, UpToIs
<1> HIDE DEF escaped
<1> DEFINE inside == scan[p + 1]
           raw == <<Open>> \o inside.raw
<1>2. x = Nil \/ (x = ParserTuple(inside.text, raw) /\ ~inside.nil /\ p <= Len(n))
  BY DEF Bracketed, escaped
<1> HIDE DEF scan, x
<1>3. CASE x = Nil
  BY <1>3, NilIs DEF x
<1>4. CASE x # Nil
  <2>1. p + 1 \in 1..(Len(n) + 2)
    BY <1>2, <1>4, LenProperties
  <2>2. inside \in Scanned(Sym, Close)
    BY <1>1, <2>1 DEF ScanOf
  <2> HIDE DEF inside
  <2>3. /\ inside.text \in Seq(Sym) /\ inside.raw \in Seq(Sym)
        /\ inside.raw # <<>> /\ inside.raw[1] = Close => inside.text = <<>>
    BY <1>2, <1>4, <2>2, ScannedIs, NilIs
  <2> DEFINE o == <<Open>>
             u == inside.raw
             t == inside.text
  <2>4. o \in Seq(Sym) /\ Len(o) = 1
    BY EscapeCharsAre
  <2>5. u \in Seq(Sym) /\ t \in Seq(Sym) /\ (u # <<>> /\ u[1] = Close => t = <<>>)
    BY <2>3
  <2> HIDE DEF o, u, t
  <2>6. /\ o \o u \in Seq(Sym) /\ Len(o \o u) = 1 + Len(u)
        /\ \A i \in 1..(1 + Len(u)) : (o \o u)[i] = IF i <= 1 THEN o[i] ELSE u[i - 1]
    <3>1. /\ o \o u \in Seq(Sym) /\ Len(o \o u) = Len(o) + Len(u)
          /\ \A i \in 1..(Len(o) + Len(u)) :
               (o \o u)[i] = IF i <= Len(o) THEN o[i] ELSE u[i - Len(o)]
      BY <2>4, <2>5, ConcatProperties
    <3> QED BY <2>4, <3>1
  <2>7. Len(u) \in Nat /\ (u # <<>> <=> Len(u) # 0)
    BY <2>5, EmptySeq
  <2>8. ASSUME o \o u = Full PROVE t = <<>>
    <3>1. Len(Full) = 2 /\ Full[2] = Close
      BY DEF Full
    <3>2. Len(u) = 1
      <4>1. Len(o \o u) = 2
        BY <2>8, <3>1
      <4>2. Len(o \o u) = 1 + Len(u) /\ Len(u) \in Nat
        BY <2>6, <2>7
      <4> DEFINE a == Len(u)
      <4>3. 2 = 1 + a /\ a \in Nat
        BY <4>1, <4>2
      <4> HIDE DEF a
      <4>4. a = 1
        BY <4>3
      <4> QED BY <4>4 DEF a
    <3>3. (o \o u)[2] = u[1]
      BY <2>6, <3>2
    <3> QED BY <2>5, <2>7, <2>8, <3>1, <3>2, <3>3
  <2>9. x = ParserTuple(t, o \o u)
    BY <1>2, <1>4 DEF t, o, u
  <2>10. x.text = t /\ x.raw = o \o u /\ ~x.nil
    BY <2>9 DEF ParserTuple
  <2>11. Len(x.raw) \in Nat
    BY <2>6, <2>7, <2>10
  <2> QED BY <2>5, <2>6, <2>8, <2>10, <2>11 DEF InBrackets, x
<1> QED BY <1>3, <1>4

\* Both of them, wherever the parser looks for them.
LEMMA SectionTyped ==
  ASSUME NEW n \in Seq(Sym), NEW q \in Nat \ {0}
  PROVE  InBrackets(SelectorSection(n, q).index1) /\ InBrackets(SelectorSection(n, q).index2)
<1> DEFINE escaped == TRUE
           plain == FALSE
           selector  == Delimited(n, q, Slash, plain)
           at1       == q + Len(selector.raw)
           parameter == IF Len(selector.text) = 1 /\ selector.text[1] \in FullSelectors
                          THEN Delimited(n, at1, Open, escaped) ELSE Nil
           at2       == at1 + LabelLength(parameter)
           index1    == IF parameter.nil THEN Nil ELSE Bracketed(n, at2)
           at3       == at2 + Len(index1.raw)
           index2    == IF index1.nil THEN Nil ELSE Bracketed(n, at3)
<1>1. SelectorSection(n, q).index1 = index1 /\ SelectorSection(n, q).index2 = index2
  BY DEF SelectorSection
<1> HIDE DEF escaped, plain, selector
<1>2. Len(selector.raw) \in Nat
  BY EscapeCharsAre, DelimitedTyped DEF selector
<1>3. at1 \in Nat \ {0}
  BY <1>2
<1> HIDE DEF at1
<1>4. parameter.raw \in Seq(Sym)
  BY <1>3, EscapeCharsAre, DelimitedTyped, NilIs
<1> HIDE DEF parameter
<1>5. LabelLength(parameter) \in Nat
  <2>1. Len(parameter.raw) \in Nat /\ (parameter.raw # <<>> => Len(parameter.raw) # 0)
    BY <1>4, EmptySeq
  <2> QED BY <2>1 DEF LabelLength
<1>6. at2 \in Nat \ {0}
  BY <1>3, <1>5
<1> HIDE DEF at2
<1>7. InBrackets(index1) /\ Len(index1.raw) \in Nat
  BY <1>6, BracketedTyped, NilIs
<1> HIDE DEF index1
<1>8. at3 \in Nat \ {0}
  BY <1>6, <1>7
<1> HIDE DEF at3
<1>9. InBrackets(index2)
  BY <1>8, BracketedTyped, NilIs
<1> QED BY <1>1, <1>7, <1>9

LEMMA ParsedTyped ==
  ASSUME NEW n \in Seq(Sym), NEW mode, ParseNotation(n, mode).accepted
  PROVE  /\ InBrackets(ParseNotation(n, mode).index2)
         /\ Len(ParseNotation(n, mode).selector.text) = 1
         /\ ParseNotation(n, mode).selector.text[1] \in Selectors
<1> DEFINE p == PrefixEnd(n)
           q == RecordSection(n, p).next
           s == SelectorSection(n, q)
           record == RecordSection(n, p).record
           x == ParseNotation(n, mode)
           missing == ParserTuple(<<>>, <<Open, Close>>)
<1>1. p \in Nat \ {0}
  BY DEF PrefixEnd
<1>2. q \in Nat \ {0}
  <2> DEFINE yes == TRUE
             r == Delimited(n, p, Slash, yes)
  <2>1. q = IF r.nil THEN 1 ELSE p + Len(r.raw)
    BY DEF RecordSection
  <2> HIDE DEF yes, r, p, q
  <2>2. Len(r.raw) \in Nat
    BY <1>1, EscapeCharsAre, DelimitedTyped DEF r
  <2> QED BY <1>1, <2>1, <2>2
<1>3. ~Rejected.accepted
  BY DEF Rejected
<1>4. /\ IsSelector(s.selector, Selectors)
      /\ x = Accepted(record, s, missing, s.index1) \/ x = Accepted(record, s, s.index1, s.index2)
  BY <1>3 DEF ParseNotation
<1> HIDE DEF p, q, x
<1>5. InBrackets(s.index1) /\ InBrackets(s.index2)
  BY <1>2, SectionTyped
<1> HIDE DEF s, record, missing
<1>6. /\ x.selector = s.selector
      /\ x.index2 = s.index1 \/ x.index2 = s.index2
  BY <1>4 DEF Accepted
<1>7. Len(s.selector.text) = 1 /\ s.selector.text[1] \in Selectors
  BY <1>4 DEF IsSelector
<1> QED BY <1>5, <1>6, <1>7 DEF x


\* While a record is looked for, what the program asked for has been read.
Looking == phase \in {"uid", "title", "found"} => Read /\ parsed.accepted

LEMMA LookingTyped ==
  ASSUME Looking, phase \in {"uid", "title", "found"}
  PROVE  InBrackets(parsed.index2) /\ Selector \in Selectors
<1>1. PICK prefix \in {<<>>, <<Prefix>>} : parsed = ParseNotation(prefix \o Format(asked), legacy)
  BY DEF Looking, Read
<1> DEFINE n == prefix \o Format(asked)
<1>2. asked \in Ask
  BY DEF Looking, Read
<1>3. n \in Seq(Sym)
  BY <1>2, WrittenPlaces
<1>4. parsed = ParseNotation(n, legacy) /\ parsed.accepted
  BY <1>1 DEF Looking
<1> HIDE DEF n
<1> QED BY <1>3, <1>4, ParsedTyped DEF Selector

LEMMA PropertyOfOne ==
  ASSUME NEW value,
         PropertyOf(<<value>>) # <<>>, ~(parsed.index2.nil \/ parsed.index2.raw = Full)
  PROVE  /\ value.object /\ parsed.index2.text \in {<<p>> : p \in value.has}
         /\ PropertyOf(<<value>>) = <<TextOf(parsed.index2.text[1])>>
<1> DEFINE values == <<value>>
           text == TextOf(parsed.index2.text[1])
           Has(v) == v.object /\ parsed.index2.text \in {<<p>> : p \in v.has}
           having == {i \in DOMAIN values : Has(values[i])}
<1>1. PropertyOf(values) = [i \in 1..Cardinality(having) |-> text]
  BY DEF PropertyOf
<1>2. DOMAIN values = {1} /\ values[1] = value
  OBVIOUS
<1> HIDE DEF text, values, Has
<1>3. CASE Has(value)
  <2>1. having = {1}
    BY <1>2, <1>3
  <2>2. Cardinality(having) = 1
    BY <2>1, FS_Singleton
  <2>3. PropertyOf(values) = [i \in 1..1 |-> text]
    BY <1>1, <2>2
  <2>4. [i \in 1..1 |-> text] = <<text>>
    OBVIOUS
  <2> QED BY <1>3, <2>3, <2>4 DEF values, text, Has
<1>4. CASE ~Has(value)
  <2>1. having = {}
    BY <1>2, <1>4
  <2>2. Cardinality(having) = 0
    BY <2>1, FS_EmptySet
  <2>3. PropertyOf(values) = [i \in 1..0 |-> text]
    BY <1>1, <2>2
  <2>4. [i \in 1..0 |-> text] = <<>>
    OBVIOUS
  <2> QED BY <2>3, <2>4 DEF values
<1> QED BY <1>3, <1>4

LEMMA SameValueOf ==
  ASSUME InBrackets(parsed.index2), Selector \in Selectors
  PROVE  LET new == ResultsOf(found)
             old == LegacyOf(found)
         IN  (parsed.index1.nil => Selector \notin {"field", "custom_field"})
               /\ (parsed.index1.raw = Full => parsed.index2.nil)
               /\ new.ok /\ old.ok /\ new.values # <<>>
             => new.values = old.values
<1> DEFINE new == ResultsOf(found)
           old == LegacyOf(found)
<1> SUFFICES ASSUME parsed.index1.nil => Selector \notin {"field", "custom_field"},
                    parsed.index1.raw = Full => parsed.index2.nil,
                    new.ok, old.ok, new.values # <<>>
             PROVE  new.values = old.values
  OBVIOUS
<1>1. ~Missing.ok /\ \A s : Values(s).ok /\ Values(s).values = s
  BY DEF Missing, Values
<1>2. CASE Selector \in ShortSelectors
  BY <1>2 DEF ResultsOf, LegacyOf
<1>3. CASE Selector = "file"
  <2>1. Selector \notin ShortSelectors
    BY <1>3 DEF ShortSelectors
  <2> HIDE DEF Missing, Values
  <2>2. new = Values(Items(found)[1].values)
    BY <1>1, <1>3, <2>1 DEF ResultsOf
  <2>3. old = Values(Items(found)[1].values)
    BY <1>1, <1>3, <2>1 DEF LegacyOf
  <2> QED BY <2>2, <2>3
<1>4. CASE Selector \in {"field", "custom_field"}
  <2>1. Selector \notin ShortSelectors /\ Selector # "file"
    BY <1>4 DEF ShortSelectors
  <2>2. ~parsed.index1.nil
    BY <1>4
  <2> DEFINE values == Items(found)[1].values
             idx    == Number(parsed.index1.text)
             value  == values[idx + 1]
  <2>3. /\ new = Values(PropertyOf(AtIndex(values, idx)))
        /\ ~BadIndex(idx) /\ ~(idx >= Len(values))
    BY <1>1, <2>1 DEF ResultsOf
  <2>4. ~(parsed.index2.text # <<>> /\ (parsed.index1.nil \/ parsed.index1.raw = Full))
    BY <2>2 DEF InBrackets
  <2>5. old = IF idx < 0 \/ values = <<>> THEN Values(values)
              ELSE IF idx >= Len(values) THEN Missing
              ELSE IF ~value.object \/ parsed.index2.text = <<>> THEN Values(<<value>>)
              ELSE IF parsed.index2.text \in {<<p>> : p \in value.has}
                THEN Values(<<TextOf(parsed.index2.text[1])>>)
              ELSE Missing
    BY <1>1, <2>1, <2>2, <2>3, <2>4 DEF LegacyOf
  <2>6. idx \in Nat \/ idx = -1
    BY NumberAssumption DEF Number
  <2> HIDE DEF new, old, values, idx
  <2>7. CASE idx = -1
    <3>1. parsed.index2.nil
      BY <2>2, <2>3, <2>7 DEF BadIndex
    <3>2. PropertyOf(AtIndex(values, idx)) = values
      BY <2>7, <3>1 DEF PropertyOf, AtIndex
    <3>3. old = Values(values)
      BY <2>5, <2>7
    <3> QED BY <1>1, <2>3, <3>2, <3>3
  <2>8. CASE idx \in Nat
    <3>1. AtIndex(values, idx) = <<value>> /\ ~(idx < 0)
      BY <2>8 DEF AtIndex
    <3>2. values # <<>>
      <4>1. values = <<>> => Len(values) = 0
        BY EmptySeq
      <4> QED BY <2>3, <2>8, <4>1
    <3> HIDE DEF value
    <3>3. new.values = PropertyOf(<<value>>)
      BY <1>1, <2>3, <3>1
    <3>4. CASE parsed.index2.nil \/ parsed.index2.raw = Full
      <4>1. parsed.index2.text = <<>>
        BY <3>4 DEF InBrackets
      <4>2. PropertyOf(<<value>>) = <<value>>
        BY <3>4 DEF PropertyOf
      <4>3. old = Values(<<value>>)
        BY <2>3, <2>5, <3>1, <3>2, <4>1
      <4> QED BY <1>1, <3>3, <4>2, <4>3
    <3>5. CASE ~(parsed.index2.nil \/ parsed.index2.raw = Full)
      <4>1. /\ value.object /\ parsed.index2.text \in {<<p>> : p \in value.has}
            /\ PropertyOf(<<value>>) = <<TextOf(parsed.index2.text[1])>>
        <5>1. PropertyOf(<<value>>) # <<>>
          BY <3>3
        <5> QED BY <3>5, <5>1, PropertyOfOne
      <4>2. parsed.index2.text # <<>>
        <5>1. \A p : <<p>> # <<>>
          OBVIOUS
        <5> QED BY <4>1, <5>1
      <4>3. old = Values(<<TextOf(parsed.index2.text[1])>>)
        BY <2>3, <2>5, <3>1, <3>2, <4>1, <4>2
      <4> QED BY <1>1, <3>3, <4>1, <4>3
    <3> QED BY <3>4, <3>5
  <2> QED BY <2>6, <2>7, <2>8
<1> QED BY <1>2, <1>3, <1>4 DEF Selectors, FullSelectors

\* GetNotation and GetNotationResults give the same where both take the value
\* at an index, or the whole list.
THEOREM SameFromBoth == Spec => []SameValue
<1>1. Init => Looking
  BY DEF Init, Looking
<1>2. TypeOK /\ Looking /\ [Next]_vars => Looking'
  <2> SUFFICES ASSUME TypeOK, Looking, [Next]_vars PROVE Looking'
    OBVIOUS
  <2>1. ASSUME NEW ask \in Ask, Parse(ask) PROVE Looking'
    <3>1. Read'
      BY <2>1 DEF Parse, Read
    <3>2. phase' # "failed" => parsed'.accepted
      BY <2>1 DEF Parse
    <3> QED BY <3>1, <3>2 DEF Looking
  <2>2. Looking' \/ \E ask \in Ask : Parse(ask)
    BY DEF Looking, Read, Next, vars, GetSecrets, ServiceChanges, FindByUid, FindByTitle,
           GetFails
  <2> QED BY <2>1, <2>2
<1>3. TypeOK /\ Looking => SameValue
  <2> SUFFICES ASSUME TypeOK, Looking, found # None PROVE SameValue
    BY DEF SameValue
  <2>1. phase = "found"
    BY DEF TypeOK
  <2>2. InBrackets(parsed.index2) /\ Selector \in Selectors
    BY <2>1, LookingTyped
  <2> QED BY <2>2, SameValueOf DEF SameValue
<1> QED BY <1>1, <1>2, <1>3, TypeCorrect, PTL DEF Spec

=============================================================================
