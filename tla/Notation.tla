------------------------------ MODULE Notation ------------------------------
(***************************************************************************)
(* One call of GetNotation or GetNotationResults (core/core.go): the       *)
(* notation is parsed, the record is asked for by uid and then by title,   *)
(* the value is taken from the record.  Before it the program made calls   *)
(* of GetSecrets, which left a response in the cache, and the service may  *)
(* have changed since, or not answer.                                      *)
(*                                                                         *)
(* Data abstraction.  A value is a text or an object, of which only the    *)
(* properties it has are known; the value of property p is a text [p], and *)
(* JSON is the value itself.  The parts of a record a notation may name,   *)
(* fields, custom fields and files, are items with a name, which stands    *)
(* for type and label (title, name and uid of a file); a file has one      *)
(* value, its content.  No object has a property "value" of its own.       *)
(***************************************************************************)
EXTENDS NotationParser

CONSTANTS
  Uid,       \* symbols that look like record uids
  Text,      \* titles and labels: sequences of symbols
  NumberOf,  \* the value of a number; what is too long for one has none
  Contents,  \* item lists of a record: [section, name, values]
  Services,  \* what may be shared with the program: sets of records
  Ask,       \* what the program asks for: [record, selector, name, index, property]
  Cache,     \* whether a response cache is set
  None

VARIABLES
  shared,   \* the records of the service: copies in folders and titles, by uid
  cached,   \* the response in the cache
  asked,    \* what is asked for
  legacy,   \* GetNotation, not GetNotationResults
  parsed,   \* the parsed notation
  phase,
  stale,    \* the last answer came out of the cache
  found     \* the record the value is taken from

vars == <<shared, cached, asked, legacy, parsed, phase, stale, found>>

Record == [uid : Uid, title : Text, items : Contents, copy : 1..2]

\* Responses list a record once for every folder it is shared in.
Answer(filter) == {r \in shared : filter = {} \/ <<r.uid>> \in filter}

ASSUME ServicesAssumption ==
  /\ Services \subseteq SUBSET Record /\ None \notin Record
  /\ \A service \in Services :
       /\ IsFiniteSet(service)
       /\ \A r, s \in service : r.uid = s.uid => r.title = s.title /\ r.items = s.items

ASSUME NumberAssumption == \A d \in DOMAIN NumberOf : NumberOf[d] \in Nat

Full    == <<Open, Close>>
Symbols == Word \cup Uid \cup EscapeChars

\* A property in the place of an index is no number, which would be an index.
ASSUME AskAssumption ==
  /\ Prefix \notin Uid
  /\ \A ask \in Ask :
       /\ ask.record \in Seq(Symbols) /\ ask.name \in Seq(Symbols) \ {<<>>}
       /\ ask.selector \in Selectors
       /\ ask.index \in {<<>>, Full} \cup {<<Open, d, Close>> : d \in Digits}
       /\ ask.property \in {<<>>, Full} \cup {<<Open, w, Close>> : w \in Word}
       /\ ask.index = <<>> =>
            ask.property \notin {Full} \cup {<<Open, d, Close>> : d \in Digits}

Init ==
  /\ shared \in Services
  /\ cached = None /\ asked = None /\ parsed = Rejected
  /\ legacy \in BOOLEAN
  /\ phase = "before" /\ stale = FALSE /\ found = None

-----------------------------------------------------------------------------
(* The notation the program writes: delimiters in texts are escaped         *)

Escaped(text) ==
  FlattenSeq([i \in DOMAIN text |->
    IF text[i] \in EscapeChars THEN <<EscapeChar, text[i]>> ELSE <<text[i]>>])

Format(ask) ==
  Escaped(ask.record) \o <<Slash, ask.selector>> \o
  IF ask.selector \in ShortSelectors THEN <<>>
    ELSE <<Slash>> \o Escaped(ask.name) \o ask.index \o ask.property

-----------------------------------------------------------------------------
(* The call                                                                 *)

\* An earlier call of the program.
GetSecrets(filter) ==
  /\ phase = "before"
  /\ Cache /\ cached' = Answer(filter)
  /\ UNCHANGED <<shared, asked, legacy, parsed, phase, stale, found>>

\* Other users share, rename and take away: after the response in the cache,
\* and between the query by uid and the one by title.
ServiceChanges ==
  /\ phase = "title" \/ (phase = "before" /\ cached # None)
  /\ shared' \in Services
  /\ UNCHANGED <<cached, asked, legacy, parsed, phase, stale, found>>

LooksLikeUid(token) == Len(token) = 1 /\ token[1] \in Uid

\* The prefix is optional.
Parse(ask) ==
  /\ phase = "before"
  /\ asked' = ask
  /\ \E prefix \in {<<>>, <<Prefix>>} :
       parsed' = ParseNotation(prefix \o Format(ask), legacy)
  /\ phase' = IF ~parsed'.accepted \/ parsed'.record.nil THEN "failed"
              ELSE IF LooksLikeUid(parsed'.record.text) THEN "uid" ELSE "title"
  /\ UNCHANGED <<shared, cached, legacy, stale, found>>

Token == parsed.record.text

\* extractNotation looks for the record once more.
Refused(record) == legacy /\ <<record.uid>> # Token /\ record.title # Token

\* Broken variant: one of several records is taken, and the call fails all the same.
AnyOf(records, otherwise) ==
  \/ records = {} /\ found' = None /\ phase' = otherwise
  \/ found' \in records /\ phase' = IF Cardinality(records) = 1 THEN "found" ELSE "failed"

\* The only record of a set: the record; of none: what "otherwise" is.
OnlyOf(records, otherwise) ==
  \/ records = {} /\ found' = None /\ phase' = otherwise
  \/ /\ Cardinality(records) > 1 \/ \E r \in records : Refused(r)
     /\ found' = None /\ phase' = "failed"
  \/ /\ Cardinality(records) = 1 /\ \A r \in records : ~Refused(r)
     /\ found' \in records /\ phase' = "found"

\* The records GetSecrets gives: the answer, or the cached one if the answer
\* is an error.
Gets(filter, records) ==
  \/ /\ records = Answer(filter)
     /\ cached' = IF Cache THEN Answer(filter) ELSE cached
     /\ stale' = FALSE
  \/ /\ Cache /\ cached # None
     /\ records = cached
     /\ stale' = TRUE
     /\ UNCHANGED cached

\* No answer at all, or an error and nothing cached.
GetFails ==
  /\ phase \in {"uid", "title"}
  /\ phase' = "failed"
  /\ UNCHANGED <<shared, cached, asked, legacy, parsed, stale, found>>

\* Broken variant: the only record found by title is not looked at.
AnyTitle(records) == records

WithTitle(records) == {r \in records : r.title = Token}

FindByUid ==
  /\ phase = "uid"
  /\ \E records \in {Answer({Token}), cached} :
       Gets({Token}, records) /\ OnlyOf(records, "title")
  /\ UNCHANGED <<shared, asked, legacy, parsed>>

FindByTitle ==
  /\ phase = "title"
  /\ \E records \in {Answer({}), cached} :
       Gets({}, records) /\ OnlyOf(WithTitle(records), "failed")
  /\ UNCHANGED <<shared, asked, legacy, parsed>>

-----------------------------------------------------------------------------
(* The value of the record found                                            *)

Missing   == [ok |-> FALSE, values |-> <<>>]
Values(s) == [ok |-> TRUE, values |-> s]

TextOf(p) == [object |-> FALSE, has |-> {p}]

Selector == parsed.selector.text[1]

\* GetFieldsByMask, or the files of the name.
Items(record) ==
  SelectSeq(record.items, LAMBDA i : i.section = Selector /\ i.name = parsed.parameter.text)

Number(text) == IF Len(text) = 1 /\ text[1] \in DOMAIN NumberOf THEN NumberOf[text[1]] ELSE -1

BadIndex(idx) == idx = -1 /\ ~parsed.index1.nil /\ parsed.index1.raw # Full

\* Broken variant: everything from the index on.
FromIndex(values, idx) == IF idx >= 0 THEN SubSeq(values, idx + 1, Len(values)) ELSE values

AtIndex(values, idx) == IF idx >= 0 THEN <<values[idx + 1]>> ELSE values

\* Objects without the property are passed over.
PropertyOf(values) ==
  IF parsed.index2.nil \/ parsed.index2.raw = Full THEN values
  ELSE LET having == {i \in DOMAIN values : values[i].object
                        /\ parsed.index2.text \in {<<p>> : p \in values[i].has}}
       IN  [i \in 1..Cardinality(having) |-> TextOf(parsed.index2.text[1])]

\* GetNotationResults.
ResultsOf(record) ==
  IF Selector \in ShortSelectors THEN Values(<<TextOf(Selector)>>)
  ELSE IF Len(Items(record)) # 1 \/ (Selector = "file" /\ parsed.parameter.text = <<>>)
    THEN Missing
  ELSE LET values == Items(record)[1].values
           idx    == Number(parsed.index1.text)
       IN  IF Selector = "file" THEN Values(values)
           ELSE IF BadIndex(idx) \/ idx >= Len(values) THEN Missing
           ELSE Values(PropertyOf(AtIndex(values, idx)))

\* GetNotation: the first of several items, and of several values where no
\* index or an empty one before a property is given.
LegacyOf(record) ==
  IF Selector \in ShortSelectors THEN Values(<<TextOf(Selector)>>)
  ELSE IF Items(record) = <<>> \/ (Selector = "file" /\ parsed.parameter.text = <<>>)
    THEN Missing
  ELSE LET values == Items(record)[1].values
           first  == \/ parsed.index1.nil /\ parsed.index2.nil
                     \/ parsed.index2.text # <<>> /\ (parsed.index1.nil \/ parsed.index1.raw = Full)
           idx    == IF first THEN 0 ELSE Number(parsed.index1.text)
           value  == values[idx + 1]
       IN  IF Selector = "file" THEN Values(values)
           ELSE IF BadIndex(idx) THEN Missing
           ELSE IF idx < 0 \/ values = <<>> THEN Values(values)
           ELSE IF idx >= Len(values) THEN Missing
           ELSE IF ~value.object \/ parsed.index2.text = <<>> THEN Values(<<value>>)
           ELSE IF parsed.index2.text \in {<<p>> : p \in value.has}
             THEN Values(<<TextOf(parsed.index2.text[1])>>)
           ELSE Missing

Next ==
  \/ \E filter \in {{}} \cup {{<<u>>} : u \in Uid} : GetSecrets(filter)
  \/ ServiceChanges
  \/ \E ask \in Ask : Parse(ask)
  \/ FindByUid \/ FindByTitle \/ GetFails

Spec == Init /\ [][Next]_vars

-----------------------------------------------------------------------------
(* Properties *)

\* Every variable has its type, and a record is found exactly at the end.
TypeOK ==
  /\ shared \subseteq Record
  /\ cached = None \/ cached \subseteq Record
  /\ asked \in Ask \cup {None}
  /\ phase \in {"before", "uid", "title", "found", "failed"}
  /\ found \in Record \cup {None}
  /\ phase = "found" <=> found # None
  /\ legacy \in BOOLEAN /\ stale \in BOOLEAN

\* The parts of the notation that was read are those that were written.
SameParts ==
  /\ parsed.accepted
  /\ parsed.record.text = asked.record
  /\ parsed.selector.text = <<asked.selector>>
  /\ asked.selector \in FullSelectors =>
       /\ parsed.parameter.text = asked.name
       /\ parsed.index2.raw = asked.property
       /\ parsed.index1.raw = IF asked.index = <<>> /\ asked.property # <<>> THEN Full
                              ELSE asked.index

\* A property without an index is for GetNotation only, an index of a file
\* for nobody.
Permitted(ask) ==
  /\ ask.selector = "file" => ask.index = <<>> /\ ask.property = <<>>
  /\ ask.selector \in FullSelectors /\ ask.index = <<>> /\ ask.property # <<>> => legacy

EndsInEscape(ask) ==
  /\ ask.selector \in FullSelectors /\ Last(ask.name) = EscapeChar
  /\ ask.index \o ask.property # <<>>

\* Whatever delimiters are in titles and labels, what is written by the rules
\* is read back part by part, and what the rules forbid is rejected; but for
\* an index after a label that ends in '\'.
WrittenIsRead ==
  asked # None /\ ~EndsInEscape(asked) =>
    IF Permitted(asked) THEN SameParts ELSE ~parsed.accepted

\* A record found in an answer of the service, or for a text that is no uid, is
\* the one asked for, and no other record of that answer has the title.
FoundIsAsked ==
  found # None /\ (~stale \/ ~LooksLikeUid(Token)) =>
    \/ found.title = Token /\ \A r \in (IF stale THEN cached ELSE shared) :
                                r # found => r.title # Token
    \/ <<found.uid>> = Token

\* Where both take the value at an index, or the whole list, they take the same.
SameValue ==
  LET new == ResultsOf(found)
      old == LegacyOf(found)
  IN  found # None /\ (parsed.index1.nil => Selector \notin {"field", "custom_field"})
        /\ (parsed.index1.raw = Full => parsed.index2.nil)
        /\ new.ok /\ old.ok /\ new.values # <<>>
      => new.values = old.values

\* A notation finds the record of its uid or title, whether or not the answer
\* comes from the cache.
NotationFindsTheRecord ==
  found # None => found.title = Token \/ <<found.uid>> = Token

=============================================================================
