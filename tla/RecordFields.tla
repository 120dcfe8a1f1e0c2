---------------------------- MODULE RecordFields ----------------------------
(***************************************************************************)
(* The fields of one Record object (core/dtos.go): the three families of   *)
(* getters and setters, which look a field up by its exact type, by its    *)
(* exact label or by either in any case, the operations on whole fields,   *)
(* the file references an upload adds (core/core.go), copies of templates, *)
(* and saving and fetching in between.                                     *)
(*                                                                         *)
(* Data abstraction.  A name is a word and the case it is written in.  A   *)
(* value is its list of items; "list" tells a []interface{}, which the     *)
(* getters read, from a []string, which they do not.  "cell" is the same   *)
(* number in two fields when their lists are one slice of the program.  A  *)
(* missing value reads and is written like an empty list.                  *)
(***************************************************************************)
EXTENDS Naturals, Sequences, FiniteSets, SequencesExt

CONSTANTS
  Text,       \* strings
  Object,     \* any item that is no string
  Shape,      \* fields there are: [type, label]
  FileRef,    \* the type "fileRef"
  None,       \* no label
  MaxFields,  \* bound on the fields of the record
  MaxItems    \* bound on the items of a value

ASSUME FieldsAssumption ==
  /\ Object \notin Text
  /\ \A shape \in Shape : shape.type # None
  /\ FileRef # None
  /\ MaxFields \in Nat /\ MaxItems \in Nat

VARIABLES dict, raw    \* RecordDict and RawJson

vars == <<dict, raw>>

Section == {"fields", "custom"}
Item    == Text \cup {Object}
Items   == {<<>>} \cup {<<x>> : x \in Item}
Names   == {shape.type : shape \in Shape} \cup {shape.label : shape \in Shape}
Key     == Names \ {None}

Field(shape, items) ==
  [type |-> shape.type, label |-> shape.label, items |-> items,
   list |-> "any", cell |-> 0]

\* The dictionary as JSON and back: every list comes back as []interface{}.
Json(d) == [s \in Section |-> [i \in DOMAIN d[s] |->
              [d[s][i] EXCEPT !.list = "any", !.cell = 0]]]

Init == dict = [s \in Section |-> <<>>] /\ raw = [s \in Section |-> <<>>]

-----------------------------------------------------------------------------
(* Lookups: the position of a field in its section, or 0                    *)

EqualFold(name, key) == name # None /\ name.word = key.word

GetFieldsByType(section, type) ==
  SelectInSeq(section, LAMBDA f : f.type = type)

GetFieldsByLabel(section, label) ==
  SelectInSeq(section, LAMBDA f : f.label = label)

\* Any label goes before any type.
fieldSearch(section, key) ==
  LET labelled == SelectInSeq(section, LAMBDA f : EqualFold(f.label, key))
  IN  IF labelled # 0 THEN labelled
        ELSE SelectInSeq(section, LAMBDA f : EqualFold(f.type, key))

\* What a getter returns of the field at a position.
Read(section, i) ==
  IF i = 0 THEN <<>>
    ELSE IF section[i].list = "any" THEN section[i].items ELSE <<>>

-----------------------------------------------------------------------------
(* Setters                                                                  *)

\* Broken variant: RawJson is left as it was.
UpdateForgotten(d) == dict' = d /\ UNCHANGED raw

\* Broken variant: what RawJson holds is the dictionary itself.
UpdatedUnconverted(d) == dict' = d /\ raw' = d

\* update(): RawJson from the dictionary.
Updated(d) == dict' = d /\ raw' = Json(d)

\* Broken variant: every field of that type is written.
WithFirstOfType(s, i, v) ==
  [dict EXCEPT ![s] = [j \in DOMAIN @ |->
     IF @[j].type = @[i].type THEN [@[j] EXCEPT !.items = <<v>>] ELSE @[j]]]

\* The first item of a list, in every field that has this very list.
WithFirst(s, i, v) ==
  LET one(f) == f.cell # 0 /\ f.cell = dict[s][i].cell
  IN  [x \in Section |-> [j \in DOMAIN dict[x] |->
        IF (x = s /\ j = i) \/ one(dict[x][j])
          THEN [dict[x][j] EXCEPT !.items = <<v>> \o Tail(@)]
          ELSE dict[x][j]]]

WithList(s, i, items, list, cell) ==
  [dict EXCEPT ![s][i] =
     [@ EXCEPT !.items = items, !.list = list, !.cell = cell]]

SetSingle(s, i, v) ==
  LET f == dict[s][i]
      isList == f.list = "any" /\ f.items # <<>>
  IN  /\ i # 0
      /\ \/ ~isList /\ Updated(WithList(s, i, <<v>>, "strings", 0))
         \/ isList /\ f.items[1] \in Text /\ Updated(WithFirst(s, i, v))
         \/ isList /\ f.items[1] \notin Text /\ Updated(dict)

\* And SetPassword, which is this with the type "password".
SetFieldValueSingle(type, v) ==
  SetSingle("fields", GetFieldsByType(dict["fields"], type), v)

SetCustomFieldValueSingle(label, v) ==
  SetSingle("custom", GetFieldsByLabel(dict["custom"], label), v)

\* SetStandardFieldValue in "fields", SetCustomFieldValue in "custom", with a
\* list of their own or with one that the program got from a field.
SetFieldValue(s, key, items) ==
  LET i == fieldSearch(dict[s], key)
  IN  i # 0 /\ Updated(WithList(s, i, items, "any", 0))

Cells == {f.cell : f \in Range(dict["fields"]) \cup Range(dict["custom"])}

PassValueOn(from, key, to, target) ==
  LET i == fieldSearch(dict[from], key)
      j == fieldSearch(dict[to], target)
      c == IF dict[from][i].cell # 0 THEN dict[from][i].cell
             ELSE CHOOSE n \in 1..(MaxFields + 1) : n \notin Cells
  IN  /\ i # 0 /\ j # 0 /\ Read(dict[from], i) # <<>>
      /\ Updated([WithList(to, j, Read(dict[from], i), "any", c)
                    EXCEPT ![from][i].cell = c])

-----------------------------------------------------------------------------
(* Whole fields                                                             *)

Fields(d) == Len(d["fields"]) + Len(d["custom"])

AddCustomField(field) ==
  /\ Fields(dict) < MaxFields
  /\ Updated([dict EXCEPT !["custom"] = Append(@, field)])

\* The three that leave RawJson as it is.
InsertField(s, field) ==
  /\ Fields(dict) < MaxFields
  /\ dict' = [dict EXCEPT ![s] = Append(@, field)]
  /\ UNCHANGED raw

UpdateField(s, field) ==
  LET i == GetFieldsByType(dict[s], field.type)
  IN  /\ i # 0
      /\ dict' = [dict EXCEPT ![s][i] = field]
      /\ UNCHANGED raw

\* Broken variant: positions are removed in ascending order.
RemovedUpwards(section, at) ==
  LET cut[n \in Nat] ==
        IF n = 0 THEN section
          ELSE IF n \in at THEN RemoveAt(cut[n - 1], n) ELSE cut[n - 1]
  IN  cut[Len(section)]

\* One position after the other, the last one first: cut[n] is what is left
\* once the last n positions were looked at.
Removed(section, at) ==
  LET cut[n \in Nat] ==
        LET p == Len(section) + 1 - n
        IN  IF n = 0 THEN section
              ELSE IF p \in at THEN RemoveAt(cut[n - 1], p) ELSE cut[n - 1]
  IN  cut[Len(section)]

RemoveField(s, type, removeAll) ==
  LET all == {i \in DOMAIN dict[s] : dict[s][i].type = type}
  IN  /\ all # {}
      /\ dict' = [dict EXCEPT ![s] =
                    Removed(@, IF removeAll THEN all ELSE {Min(all)})]
      /\ UNCHANGED raw

-----------------------------------------------------------------------------
(* File references (prepareFileUploadPayload)                               *)

FileRefField == Field([type |-> FileRef, label |-> None], <<>>)

\* Broken variant: the list is replaced by the new reference.
OnlyReference(refs, uid) == <<uid>>

WithReference(refs, uid) == Append(refs, uid)

\* The list grows in place if the slice has room for it, else it is copied.
UploadReference(uid) ==
  LET d == IF GetFieldsByType(dict["fields"], FileRef) # 0 THEN dict
             ELSE [dict EXCEPT !["fields"] = Append(@, FileRefField)]
      i == fieldSearch(d["fields"], FileRef)
      refs == Read(d["fields"], i)
  IN  /\ d = dict \/ Fields(dict) < MaxFields
      /\ Len(refs) < MaxItems /\ uid \notin Range(refs)
      /\ \E c \in {0, d["fields"][i].cell} :
           Updated([d EXCEPT !["fields"][i] =
                      [@ EXCEPT !.items = WithReference(refs, uid),
                                !.list = "any", !.cell = c]])

-----------------------------------------------------------------------------
(* Templates: the program goes on with the new record                       *)

\* A deep copy: no list is shared any more; RawJson comes along as it is.
NewRecordClone ==
  /\ dict' = [s \in Section |-> [i \in DOMAIN dict[s] |->
                [dict[s][i] EXCEPT !.cell = 0]]]
  /\ UNCHANGED raw

\* Types stay, labels and values are emptied, custom fields go.
NewRecord ==
  Updated([s \in Section |->
    IF s = "custom" THEN <<>>
      ELSE [i \in DOMAIN dict[s] |->
             Field([type |-> dict[s][i].type, label |-> None], <<>>)]])

\* Save, then GetSecrets: the object is what RawJson was.
SaveAndFetch == dict' = raw /\ UNCHANGED raw

-----------------------------------------------------------------------------

\* Bound: new fields are empty or have an object; the setters fill them.
NewField == {Field(shape, items) : shape \in Shape, items \in {<<>>, <<Object>>}}

Set ==
  \E s \in Section, key \in Key :
    \/ \E v \in Text : SetFieldValueSingle(key, v)
    \/ \E v \in Text : SetCustomFieldValueSingle(key, v)
    \/ \E items \in Items : SetFieldValue(s, key, items)
    \/ \E to \in Section, target \in Key : PassValueOn(s, key, to, target)

ChangeFields ==
  \E s \in Section, field \in NewField :
    \/ AddCustomField(field)
    \/ InsertField(s, field)
    \/ UpdateField(s, field)
    \/ \E all \in BOOLEAN : RemoveField(s, field.type, all)

Next ==
  \/ Set
  \/ ChangeFields
  \/ \E uid \in Text : UploadReference(uid)
  \/ NewRecordClone \/ NewRecord
  \/ SaveAndFetch

Spec == Init /\ [][Next]_vars

-----------------------------------------------------------------------------
(* Properties *)

\* A list that fields share has an item.
FieldOf ==
  {f \in [type : Key \cup {FileRef}, label : Names \cup {None}, items : Seq(Item),
          list : {"any", "strings"}, cell : 0..(MaxFields + 1)] :
     f.cell # 0 => f.items # <<>>}

Record == {d \in [Section -> Seq(FieldOf)] : Fields(d) <= MaxFields}

\* Every variable has its type, and a fetched record has lists of one kind
\* that no two fields share.
TypeOK == dict \in Record /\ raw \in Record /\ raw = Json(raw)

StartsWith(section, i, v) ==
  LET items == Read(section, i) IN items # <<>> /\ Head(items) = v

\* A first item that is no string stays.
KeepsObject(section, i) ==
  LET items == Read(section, i) IN items # <<>> /\ Head(items) \notin Text

\* What a setter was given is what its getter returns once the record has been
\* saved and fetched, whatever fields with other names, duplicates, labels and
\* types in another case are around it.
ReadBack ==
  [][/\ \A type \in Key, v \in Text :
          SetFieldValueSingle(type, v) =>
            LET i == GetFieldsByType(raw'["fields"], type)
            IN  \/ KeepsObject(dict["fields"], i)
                \/ StartsWith(raw'["fields"], i, v)
     /\ \A label \in Key, v \in Text :
          SetCustomFieldValueSingle(label, v) =>
            LET i == GetFieldsByLabel(raw'["custom"], label)
            IN  \/ KeepsObject(dict["custom"], i)
                \/ StartsWith(raw'["custom"], i, v)
     /\ \A s \in Section, key \in Key, items \in Items :
          SetFieldValue(s, key, items) =>
            Read(raw'[s], fieldSearch(raw'[s], key)) = items]_vars

\* A setter changes the items of one field and nothing else, in its section or
\* the other, except where the program handed two fields the same list.
OnlyThatField ==
  [][Set =>
      /\ \A s \in Section :
           /\ DOMAIN dict'[s] = DOMAIN dict[s]
           /\ \A i \in DOMAIN dict[s] :
                /\ dict'[s][i].type = dict[s][i].type
                /\ dict'[s][i].label = dict[s][i].label
      /\ \A s, t \in Section :
           \A i \in DOMAIN dict[s], j \in DOMAIN dict[t] :
             \/ s = t /\ i = j
             \/ dict'[s][i].items = dict[s][i].items
             \/ dict'[t][j].items = dict[t][j].items
             \/ dict[s][i].cell # 0 /\ dict[s][i].cell = dict[t][j].cell]_vars

\* An upload adds its reference and takes away none that a getter shows, and
\* the reference is in a field whose type or label is fileRef, in any case.
UploadKeepsReferences ==
  [][\A uid \in Text : UploadReference(uid) =>
      /\ \E i \in DOMAIN raw'["fields"] :
           /\ uid \in Range(raw'["fields"][i].items)
           /\ \/ EqualFold(raw'["fields"][i].type, FileRef)
              \/ EqualFold(raw'["fields"][i].label, FileRef)
      /\ \A i \in DOMAIN dict["fields"] :
           IsPrefix(Read(dict["fields"], i), raw'["fields"][i].items)]_vars

\* The rest of a section in its order, without the positions in "gone".
RestOf(section, gone, rest) ==
  \E keep \in [DOMAIN rest -> DOMAIN section] :
    /\ Range(keep) = DOMAIN section \ gone
    /\ \A i, j \in DOMAIN rest : i < j => keep[i] < keep[j]
    /\ \A i \in DOMAIN rest : rest[i] = section[keep[i]]

\* RemoveField takes out the fields of that type, or the first of them, and
\* leaves the others in their order.
RemovesExactly ==
  [][\A s \in Section, type \in Key :
      LET all == {i \in DOMAIN dict[s] : dict[s][i].type = type}
      IN  /\ RemoveField(s, type, TRUE) => RestOf(dict[s], all, dict'[s])
          /\ RemoveField(s, type, FALSE) =>
               \E first \in all :
                 /\ \A i \in all : first <= i
                 /\ RestOf(dict[s], {first}, dict'[s])]_vars

\* What is set is what is read next ("Test field sets", smoke_test.go).
SetThenGet ==
  [][\A type \in Key, v \in Text :
      SetFieldValueSingle(type, v) =>
        LET i == GetFieldsByType(dict'["fields"], type)
        IN  \/ KeepsObject(dict["fields"], i)
            \/ StartsWith(dict'["fields"], i, v)]_vars

=============================================================================
