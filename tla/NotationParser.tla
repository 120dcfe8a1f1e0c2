--------------------------- MODULE NotationParser ---------------------------
(***************************************************************************)
(* The parser of the Keeper notation (core/core.go):                       *)
(*   <uid or title>/<selector>/<label>[INDEX][PROPERTY]                    *)
(* where /[]\ in a title, label or filename are escaped.                   *)
(*                                                                         *)
(* Data abstraction.  A notation is a sequence of symbols: the delimiters  *)
(* are symbols of their own, a selector is one symbol in any case, and so  *)
(* is a run of any other characters.  The prefix keeper:// is one symbol.  *)
(* The base64 form of a notation is decoded before all this and left out.  *)
(***************************************************************************)
EXTENDS Integers, Sequences, SequencesExt

CONSTANTS
  Word,    \* symbols for text without a delimiter
  Digits   \* those of them that are numbers, of any length

Slash == "/"
Open  == "["
Close == "]"
EscapeChar  == "\\"
EscapeChars == {Slash, Open, Close, EscapeChar}
Prefix      == "keeper://"

ASSUME WordAssumption ==
  Digits \subseteq Word /\ Word \cap (EscapeChars \cup {Prefix}) = {}

ShortSelectors == {"type", "title", "notes"}
FullSelectors  == {"field", "custom_field", "file"}
Selectors      == ShortSelectors \cup FullSelectors

\* A nil pointer: nothing there, or not in the form it has to have.
Nil == [text |-> <<>>, raw |-> <<>>, nil |-> TRUE]
ParserTuple(text, raw) == [text |-> text, raw |-> raw, nil |-> FALSE]

With(text, raw, rest) ==
  IF rest.nil THEN Nil ELSE ParserTuple(text \o rest.text, raw \o rest.raw)

\* From a place on: to the first delimiter that is not escaped, or the end.
\* Only the characters that need it may be escaped.
UpTo(notation, delimiter, forbidden, escaped) ==
  LET scan[p \in 1..(Len(notation) + 2)] ==
        IF p > Len(notation) THEN ParserTuple(<<>>, <<>>)
        ELSE IF escaped /\ notation[p] = EscapeChar
          THEN IF p < Len(notation) /\ notation[p + 1] \in EscapeChars
                 THEN With(<<notation[p + 1]>>, <<EscapeChar, notation[p + 1]>>, scan[p + 2])
                 ELSE Nil
        ELSE IF notation[p] = delimiter THEN ParserTuple(<<>>, <<delimiter>>)
        ELSE IF notation[p] \in forbidden THEN Nil
        ELSE With(<<notation[p]>>, <<notation[p]>>, scan[p + 1])
  IN  scan

\* Text with its end delimiter, if it has one.
Delimited(notation, pos, delimiter, escaped) ==
  IF pos > Len(notation) THEN Nil ELSE UpTo(notation, delimiter, {}, escaped)[pos]

\* An index in its brackets: no '[' inside, and no '\' right before the ']'.
Bracketed(notation, pos) ==
  LET inside == UpTo(notation, Close, {Open}, TRUE)[pos + 1]
      raw    == <<Open>> \o inside.raw
  IN  IF /\ pos <= Len(notation) /\ notation[pos] = Open /\ ~inside.nil
         /\ Len(raw) > 1 /\ Last(raw) = Close
         /\ raw[Len(raw) - 1] # EscapeChar
        THEN ParserTuple(inside.text, raw)
        ELSE Nil

-----------------------------------------------------------------------------
(* ParseSection: each gives the place after the section                     *)

PrefixEnd(notation) == IF notation # <<>> /\ notation[1] = Prefix THEN 2 ELSE 1

\* A record that does not parse is taken to end before the notation begins.
RecordSection(notation, pos) ==
  LET record == Delimited(notation, pos, Slash, TRUE)
  IN  [record |-> record,
       next   |-> IF record.nil THEN 1 ELSE pos + Len(record.raw)]

\* Broken variant: the '[' that ends a label is taken to be part of it.
LabelWithBracket(parameter) == Len(parameter.raw)

\* A '[' at the end begins the index, but not one after a '\'.
LabelLength(parameter) ==
  LET raw == parameter.raw
  IN  IF raw # <<>> /\ Last(raw) = Open
           /\ ~(Len(raw) > 1 /\ raw[Len(raw) - 1] = EscapeChar)
        THEN Len(raw) - 1 ELSE Len(raw)

SelectorSection(notation, pos) ==
  LET selector  == Delimited(notation, pos, Slash, FALSE)
      at1       == pos + Len(selector.raw)
      parameter == IF Len(selector.text) = 1 /\ selector.text[1] \in FullSelectors
                     THEN Delimited(notation, at1, Open, TRUE) ELSE Nil
      at2       == at1 + LabelLength(parameter)
      index1    == IF parameter.nil THEN Nil ELSE Bracketed(notation, at2)
      at3       == at2 + Len(index1.raw)
      index2    == IF index1.nil THEN Nil ELSE Bracketed(notation, at3)
  IN  [selector |-> selector, parameter |-> parameter,
       index1 |-> index1, index2 |-> index2,
       next |-> at3 + Len(index2.raw)]

-----------------------------------------------------------------------------
(* parseNotationImpl                                                        *)

IsSelector(selector, set) == Len(selector.text) = 1 /\ selector.text[1] \in set

\* [n] or [].
Numeric(index) ==
  index.raw \in {<<Open, Close>>} \cup {<<Open, d, Close>> : d \in Digits}

Rejected == [accepted |-> FALSE]

Accepted(record, s, index1, index2) ==
  [accepted |-> TRUE, record |-> record, selector |-> s.selector,
   parameter |-> s.parameter, index1 |-> index1, index2 |-> index2]

\* In legacy mode name[middle] stands for name[][middle].
ParseNotation(notation, legacyMode) ==
  LET r     == RecordSection(notation, PrefixEnd(notation))
      s     == SelectorSection(notation, r.next)
      wellFormed ==
        /\ PrefixEnd(notation) <= Len(notation)    \* record.IsPresent
        /\ r.next <= Len(notation)                 \* selector.IsPresent
        /\ IsSelector(s.selector, Selectors)
        /\ IsSelector(s.selector, FullSelectors) => ~s.parameter.nil
        /\ IsSelector(s.selector, {"file"}) => s.index1.nil
        /\ ~s.index1.nil /\ ~Numeric(s.index1) => legacyMode
        /\ s.next > Len(notation)                  \* no footer
  IN  IF ~wellFormed THEN Rejected
      ELSE IF ~s.index1.nil /\ ~Numeric(s.index1) /\ s.index2.nil
        THEN Accepted(r.record, s, ParserTuple(<<>>, <<Open, Close>>), s.index1)
        ELSE Accepted(r.record, s, s.index1, s.index2)

=============================================================================
