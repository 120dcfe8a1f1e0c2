-------------------------- MODULE RecordFieldsProofs --------------------------
(***************************************************************************)
(* What RecordFields promises for any fields, names and texts: the types;  *)
(* a setter touches no other field and its value is read back once the     *)
(* record was saved; an upload keeps the references there are; and         *)
(* RemoveField takes out what it should.                                   *)
(***************************************************************************)
EXTENDS RecordFields, SequenceTheorems, FiniteSetTheorems, Recursion, TLAPS

Sections == [Section -> Seq(FieldOf)]

-----------------------------------------------------------------------------
(* Lookups                                                                  *)

LEMMA MinOf ==
  ASSUME NEW I \in SUBSET Nat, I # {}
  PROVE  Min(I) \in I /\ \A k \in I : Min(I) <= k
BY SmallestOf DEF Min

\* The first position of a section that is in a set of positions, or 0.
First(section, I) == IF I # {} THEN Min(I) ELSE 0

LEMMA FirstIs ==
  ASSUME NEW section \in Seq(FieldOf), NEW I \in SUBSET (1..Len(section))
  PROVE  /\ First(section, I) \in 0..Len(section)
         /\ First(section, I) = 0 <=> I = {}
         /\ I # {} => First(section, I) \in I /\ \A k \in I : First(section, I) <= k
<1>1. I \in SUBSET Nat /\ 0 \notin I
  OBVIOUS
<1>2. CASE I = {}
  BY <1>2 DEF First
<1>3. CASE I # {}
  <2>1. Min(I) \in I /\ \A k \in I : Min(I) <= k
    BY <1>1, <1>3, MinOf
  <2>2. First(section, I) = Min(I)
    BY <1>3 DEF First
  <2>3. Min(I) \in 1..Len(section)
    BY <2>1
  <2>4. Min(I) \in 0..Len(section) /\ Min(I) # 0
    BY <2>3
  <2> QED BY <1>3, <2>1, <2>2, <2>4
<1> QED BY <1>2, <1>3

LEMMA TypeFound ==
  ASSUME NEW section \in Seq(FieldOf), NEW type
  PROVE  LET i == GetFieldsByType(section, type)
         IN  /\ i \in 0..Len(section)
             /\ i # 0 => /\ section[i].type = type
                         /\ \A j \in 1..Len(section) : section[j].type = type => i <= j
             /\ i = 0 => \A j \in 1..Len(section) : section[j].type # type
<1> DEFINE I == {j \in 1..Len(section) : section[j].type = type}
<1>1. GetFieldsByType(section, type) = First(section, I)
  BY DEF GetFieldsByType, SelectInSeq, First
<1> QED BY <1>1, FirstIs

LEMMA LabelFound ==
  ASSUME NEW section \in Seq(FieldOf), NEW label
  PROVE  LET i == GetFieldsByLabel(section, label)
         IN  /\ i \in 0..Len(section)
             /\ i # 0 => section[i].label = label
<1> DEFINE I == {j \in 1..Len(section) : section[j].label = label}
<1>1. GetFieldsByLabel(section, label) = First(section, I)
  BY DEF GetFieldsByLabel, SelectInSeq, First
<1> QED BY <1>1, FirstIs

LEMMA Found ==
  ASSUME NEW section \in Seq(FieldOf), NEW key
  PROVE  LET i == fieldSearch(section, key)
         IN  /\ i \in 0..Len(section)
             /\ i # 0 => \/ EqualFold(section[i].type, key)
                         \/ EqualFold(section[i].label, key)
             /\ i = 0 => \A j \in 1..Len(section) : ~EqualFold(section[j].type, key)
<1> DEFINE I == {j \in 1..Len(section) : EqualFold(section[j].label, key)}
           J == {j \in 1..Len(section) : EqualFold(section[j].type, key)}
<1>1. fieldSearch(section, key) =
        IF First(section, I) # 0 THEN First(section, I) ELSE First(section, J)
  BY DEF fieldSearch, SelectInSeq, First
<1>2. First(section, I) \in 0..Len(section) /\ First(section, J) \in 0..Len(section)
  BY FirstIs
<1>3. First(section, I) # 0 => First(section, I) \in I
  BY FirstIs
<1>4. /\ First(section, J) # 0 => First(section, J) \in J
      /\ First(section, J) = 0 => J = {}
  BY FirstIs
<1> HIDE DEF First
<1> QED BY <1>1, <1>2, <1>3, <1>4

\* Sections with the same names in the same places: lookups find the same.
SameNames(a, b) ==
  /\ Len(a) = Len(b)
  /\ \A j \in 1..Len(a) : a[j].type = b[j].type /\ a[j].label = b[j].label

LEMMA SameFound ==
  ASSUME NEW a \in Seq(FieldOf), NEW b \in Seq(FieldOf), SameNames(a, b), NEW key
  PROVE  /\ GetFieldsByType(a, key) = GetFieldsByType(b, key)
         /\ GetFieldsByLabel(a, key) = GetFieldsByLabel(b, key)
         /\ fieldSearch(a, key) = fieldSearch(b, key)
<1>1. {j \in 1..Len(a) : a[j].type = key} = {j \in 1..Len(b) : b[j].type = key}
  BY DEF SameNames
<1>2. {j \in 1..Len(a) : a[j].label = key} = {j \in 1..Len(b) : b[j].label = key}
  BY DEF SameNames
<1>3. {j \in 1..Len(a) : EqualFold(a[j].type, key)} =
      {j \in 1..Len(b) : EqualFold(b[j].type, key)}
  BY DEF SameNames
<1>4. {j \in 1..Len(a) : EqualFold(a[j].label, key)} =
      {j \in 1..Len(b) : EqualFold(b[j].label, key)}
  BY DEF SameNames
<1>5. GetFieldsByType(a, key) = GetFieldsByType(b, key)
  BY <1>1 DEF GetFieldsByType, SelectInSeq
<1>6. GetFieldsByLabel(a, key) = GetFieldsByLabel(b, key)
  BY <1>2 DEF GetFieldsByLabel, SelectInSeq
<1>7. fieldSearch(a, key) = fieldSearch(b, key)
  BY <1>3, <1>4 DEF fieldSearch, SelectInSeq
<1> QED BY <1>5, <1>6, <1>7

-----------------------------------------------------------------------------
(* Fields with some of their parts changed                                  *)

IsField(f, t, l, v, h, c) ==
  f = [type |-> t, label |-> l, items |-> v, list |-> h, cell |-> c]

LEMMA FieldParts ==
  ASSUME NEW f \in FieldOf
  PROVE  /\ f.type \in Key \cup {FileRef} /\ f.label \in Names \cup {None}
         /\ f.items \in Seq(Item) /\ f.list \in {"any", "strings"}
         /\ f.cell \in 0..(MaxFields + 1)
         /\ f.cell # 0 => f.items # <<>>
         /\ IsField(f, f.type, f.label, f.items, f.list, f.cell)
BY DEF FieldOf, IsField

LEMMA CellChanged ==
  ASSUME NEW t, NEW l, NEW v, NEW h, NEW c, NEW d, NEW f, IsField(f, t, l, v, h, c)
  PROVE  IsField([f EXCEPT !.cell = d], t, l, v, h, d)
BY SMT DEF IsField

LEMMA ItemsChanged ==
  ASSUME NEW t, NEW l, NEW v, NEW w, NEW h, NEW c, NEW f, IsField(f, t, l, v, h, c)
  PROVE  IsField([f EXCEPT !.items = w], t, l, w, h, c)
BY SMT DEF IsField

LEMMA HeldChanged ==
  ASSUME NEW t, NEW l, NEW v, NEW h, NEW g, NEW c, NEW d, NEW f,
         IsField(f, t, l, v, h, c)
  PROVE  IsField([f EXCEPT !.list = g, !.cell = d], t, l, v, g, d)
<1>1. IsField([f EXCEPT !.list = g], t, l, v, g, c)
  BY SMT DEF IsField
<1>2. IsField([[f EXCEPT !.list = g] EXCEPT !.cell = d], t, l, v, g, d)
  BY <1>1, CellChanged
<1> QED BY <1>2

LEMMA AllChanged ==
  ASSUME NEW t, NEW l, NEW v, NEW w, NEW h, NEW g, NEW c, NEW d, NEW f,
         IsField(f, t, l, v, h, c)
  PROVE  IsField([f EXCEPT !.items = w, !.list = g, !.cell = d], t, l, w, g, d)
<1>1. IsField([f EXCEPT !.items = w], t, l, w, h, c)
  BY ItemsChanged
<1>2. IsField([[f EXCEPT !.items = w] EXCEPT !.list = g, !.cell = d], t, l, w, g, d)
  BY <1>1, HeldChanged
<1> QED BY <1>2

-----------------------------------------------------------------------------
(* The dictionary as JSON                                                   *)

\* A section with the same fields, up to how their lists are held.
SameItems(a, b) ==
  SameNames(a, b) /\ \A j \in 1..Len(a) : a[j].items = b[j].items

LEMMA JsonIs ==
  ASSUME NEW d \in Sections
  PROVE  /\ Json(d) \in Sections
         /\ \A s \in Section :
              /\ SameItems(Json(d)[s], d[s])
              /\ \A j \in 1..Len(d[s]) :
                   Json(d)[s][j].list = "any" /\ Json(d)[s][j].cell = 0
         /\ Json(Json(d)) = Json(d)
         /\ Fields(Json(d)) = Fields(d)
<1> DEFINE Held(f) == [f EXCEPT !.list = "any", !.cell = 0]
           held(s) == [i \in DOMAIN d[s] |-> Held(d[s][i])]
<1> HIDE DEF Held
<1>1. ASSUME NEW f \in FieldOf
      PROVE  /\ Held(f) \in FieldOf /\ Held(f).type = f.type
             /\ Held(f).label = f.label /\ Held(f).items = f.items
             /\ Held(f).list = "any" /\ Held(f).cell = 0
             /\ Held(Held(f)) = Held(f)
  <2>1. 0 \in 0..(MaxFields + 1)
    BY FieldsAssumption
  <2>2. IsField(Held(f), f.type, f.label, f.items, "any", 0)
    BY FieldParts, HeldChanged DEF Held
  <2>3. IsField(Held(Held(f)), f.type, f.label, f.items, "any", 0)
    BY <2>2, HeldChanged DEF Held
  <2> QED BY <2>1, <2>2, <2>3, FieldParts DEF IsField, FieldOf
<1>2. ASSUME NEW s \in Section
      PROVE  /\ held(s) \in Seq(FieldOf) /\ Len(held(s)) = Len(d[s])
             /\ \A j \in 1..Len(d[s]) : held(s)[j] = Held(d[s][j])
  <2>1. d[s] \in Seq(FieldOf)
    BY DEF Sections
  <2>2. DOMAIN d[s] = 1..Len(d[s]) /\ Len(d[s]) \in Nat
        /\ \A j \in 1..Len(d[s]) : d[s][j] \in FieldOf
    BY <2>1
  <2>3. held(s) \in [1..Len(d[s]) -> FieldOf]
    BY <1>1, <2>2
  <2> QED BY <2>2, <2>3
<1>3. Json(d) = [s \in Section |-> held(s)]
  BY DEF Json, Held
<1>4. Json(d) \in Sections
  <2> HIDE DEF held
  <2> QED BY <1>2, <1>3 DEF Sections
<1>5. ASSUME NEW s \in Section
      PROVE  /\ SameItems(Json(d)[s], d[s])
             /\ \A j \in 1..Len(d[s]) :
                  Json(d)[s][j].list = "any" /\ Json(d)[s][j].cell = 0
  <2>1. \A j \in 1..Len(d[s]) : d[s][j] \in FieldOf
    BY DEF Sections
  <2>2. Json(d)[s] = held(s)
    BY <1>3
  <2> HIDE DEF held
  <2> QED BY <1>1, <1>2, <2>1, <2>2 DEF SameItems, SameNames
<1>6. Json(Json(d)) = Json(d)
  <2>1. ASSUME NEW s \in Section PROVE Json(Json(d))[s] = Json(d)[s]
    <3>1. Json(Json(d))[s] = [i \in DOMAIN Json(d)[s] |-> Held(Json(d)[s][i])]
      BY DEF Json, Held
    <3>2. DOMAIN Json(d)[s] = DOMAIN d[s] /\ Json(d)[s] = held(s)
      BY <1>3
    <3>3. \A i \in DOMAIN d[s] : Held(held(s)[i]) = held(s)[i]
      <4>1. \A i \in DOMAIN d[s] : d[s][i] \in FieldOf
        BY DEF Sections
      <4> QED BY <1>1, <4>1
    <3> QED BY <3>1, <3>2, <3>3
  <2>2. Json(Json(d)) = [s \in Section |-> Json(Json(d))[s]]
        /\ Json(d) = [s \in Section |-> Json(d)[s]]
    BY DEF Json
  <2> QED BY <2>1, <2>2
<1>7. Fields(Json(d)) = Fields(d)
  BY <1>5 DEF Fields, Section, SameItems, SameNames
<1> QED BY <1>4, <1>5, <1>6, <1>7

-----------------------------------------------------------------------------
(* The setters                                                              *)

\* One field of a dictionary replaced.
With(d, s, i, f) == [d EXCEPT ![s][i] = f]

IsPut(e, d, s, i, f) ==
  /\ e \in Sections
  /\ e[s][i] = f
  /\ \A t \in Section : Len(e[t]) = Len(d[t])
  /\ \A t \in Section : \A j \in 1..Len(d[t]) :
       ~(t = s /\ j = i) => e[t][j] = d[t][j]

LEMMA FieldPut ==
  ASSUME NEW d \in Sections, NEW s \in Section, NEW i \in 1..Len(d[s]),
         NEW f \in FieldOf
  PROVE  IsPut(With(d, s, i, f), d, s, i, f)
<1> DEFINE u == [d[s] EXCEPT ![i] = f]
           e == [d EXCEPT ![s] = u]
<1>1. d[s] \in Seq(FieldOf) /\ \A t \in Section : d[t] \in Seq(FieldOf)
  BY DEF Sections
<1>2. /\ u \in Seq(FieldOf) /\ Len(u) = Len(d[s]) /\ u[i] = f
      /\ \A j \in 1..Len(d[s]) : j # i => u[j] = d[s][j]
  BY <1>1
<1> HIDE DEF u
<1>3. /\ e \in Sections /\ e[s] = u
      /\ \A t \in Section : t # s => e[t] = d[t]
  BY <1>1, <1>2 DEF Sections
<1> HIDE DEF e
<1>4. \A t \in Section : Len(e[t]) = Len(d[t])
  BY <1>2, <1>3
<1>5. \A t \in Section : \A j \in 1..Len(d[t]) :
        ~(t = s /\ j = i) => e[t][j] = d[t][j]
  BY <1>2, <1>3
<1>6. With(d, s, i, f) = e
  BY DEF e, u, With
<1>7. IsPut(e, d, s, i, f)
  BY <1>2, <1>3, <1>4, <1>5 DEF IsPut
<1> QED BY <1>6, <1>7

\* A dictionary that differs in the items of one field, and in those of the
\* fields that have the same list.
EditOf(e, s, i) ==
  /\ e \in Sections
  /\ s \in Section /\ i \in 1..Len(dict[s])
  /\ \A t \in Section : SameNames(e[t], dict[t])
  /\ \A t \in Section : \A j \in 1..Len(dict[t]) :
       \/ e[t][j].items = dict[t][j].items
       \/ t = s /\ j = i
       \/ dict[t][j].cell # 0 /\ dict[t][j].cell = dict[s][i].cell

LEMMA WithListIs ==
  ASSUME dict \in Sections, NEW s \in Section, NEW i \in 1..Len(dict[s]),
         NEW items \in Seq(Item), NEW list \in {"any", "strings"},
         NEW cell \in 0..(MaxFields + 1), cell # 0 => items # <<>>
  PROVE  LET e == WithList(s, i, items, list, cell)
         IN  /\ EditOf(e, s, i)
             /\ e[s][i].items = items /\ e[s][i].list = list
             /\ \A t \in Section : \A j \in 1..Len(dict[t]) :
                  ~(t = s /\ j = i) => e[t][j] = dict[t][j]
<1> DEFINE f == [dict[s][i] EXCEPT !.items = items, !.list = list, !.cell = cell]
           e == [dict EXCEPT ![s][i] = f]
<1>1. dict[s][i] \in FieldOf
  BY DEF Sections
<1>2. IsField(f, dict[s][i].type, dict[s][i].label, items, list, cell)
  BY <1>1, FieldParts, AllChanged
<1> HIDE DEF f
<1>3. f \in FieldOf
  BY <1>1, <1>2, FieldParts DEF IsField, FieldOf
<1>4. /\ f.type = dict[s][i].type /\ f.label = dict[s][i].label
      /\ f.items = items /\ f.list = list
  BY <1>2 DEF IsField
<1>5. /\ e \in Sections
      /\ e[s][i] = f
      /\ \A t \in Section : Len(e[t]) = Len(dict[t])
      /\ \A t \in Section : \A j \in 1..Len(dict[t]) :
           ~(t = s /\ j = i) => e[t][j] = dict[t][j]
  BY <1>3, FieldPut DEF With, IsPut
<1>6. WithList(s, i, items, list, cell) = e
  BY DEF WithList, f
<1> HIDE DEF e
<1>7. ASSUME NEW t \in Section PROVE SameNames(e[t], dict[t])
  <2>1. ASSUME NEW j \in 1..Len(dict[t])
        PROVE  e[t][j].type = dict[t][j].type /\ e[t][j].label = dict[t][j].label
    BY <1>4, <1>5
  <2> QED BY <1>5, <2>1 DEF SameNames
<1>8. EditOf(e, s, i)
  BY <1>5, <1>7 DEF EditOf
<1> QED BY <1>4, <1>5, <1>6, <1>8

LEMMA WithFirstIs ==
  ASSUME dict \in Sections, NEW s \in Section, NEW i \in 1..Len(dict[s]),
         NEW v \in Text, dict[s][i].items # <<>>
  PROVE  LET e == WithFirst(s, i, v)
         IN  /\ EditOf(e, s, i)
             /\ e[s][i].items = <<v>> \o Tail(dict[s][i].items)
<1> DEFINE one(f) == f.cell # 0 /\ f.cell = dict[s][i].cell
           New(f) == [f EXCEPT !.items = <<v>> \o Tail(@)]
           Put(t, j) == IF (t = s /\ j = i) \/ one(dict[t][j])
                          THEN New(dict[t][j]) ELSE dict[t][j]
           e == [t \in Section |-> [j \in DOMAIN dict[t] |-> Put(t, j)]]
<1>1. \A t \in Section : /\ dict[t] \in Seq(FieldOf)
                         /\ DOMAIN dict[t] = 1..Len(dict[t]) /\ Len(dict[t]) \in Nat
                         /\ \A j \in 1..Len(dict[t]) : dict[t][j] \in FieldOf
  BY DEF Sections
<1> HIDE DEF New
<1>2. ASSUME NEW f \in FieldOf, f.items # <<>>
      PROVE  /\ New(f) \in FieldOf
             /\ New(f).type = f.type /\ New(f).label = f.label
             /\ New(f).items = <<v>> \o Tail(f.items)
  <2>1. f.items \in Seq(Item) /\ v \in Item
    BY FieldParts DEF Item
  <2>2. /\ <<v>> \o Tail(f.items) \in Seq(Item)
        /\ <<v>> \o Tail(f.items) # <<>>
    <3>1. Tail(f.items) \in Seq(Item) /\ Len(Tail(f.items)) \in Nat
      BY <1>2, <2>1
    <3>2. <<v>> \in Seq(Item) /\ Len(<<v>>) = 1
      BY <2>1
    <3> QED BY <3>1, <3>2
  <2>3. IsField(New(f), f.type, f.label, <<v>> \o Tail(f.items), f.list, f.cell)
    BY FieldParts, ItemsChanged DEF New
  <2> QED BY <2>2, <2>3, FieldParts DEF IsField, FieldOf
<1>3. ASSUME NEW t \in Section, NEW j \in 1..Len(dict[t])
      PROVE  /\ Put(t, j) \in FieldOf
             /\ Put(t, j).type = dict[t][j].type
             /\ Put(t, j).label = dict[t][j].label
             /\ Put(t, j).items = dict[t][j].items \/ (t = s /\ j = i) \/ one(dict[t][j])
  <2>1. dict[t][j] \in FieldOf /\ dict[s][i] \in FieldOf
    BY <1>1
  <2>2. (t = s /\ j = i) \/ one(dict[t][j]) => dict[t][j].items # <<>>
    BY <2>1, FieldParts
  <2> QED BY <1>2, <2>1, <2>2
<1>4. Put(s, i).items = <<v>> \o Tail(dict[s][i].items)
  BY <1>1, <1>2
<1>5. WithFirst(s, i, v) = e
  BY DEF WithFirst, New
<1> HIDE DEF Put
<1>6. ASSUME NEW t \in Section
      PROVE  /\ e[t] \in Seq(FieldOf) /\ Len(e[t]) = Len(dict[t])
             /\ \A j \in 1..Len(dict[t]) : e[t][j] = Put(t, j)
  <2>1. e[t] = [j \in 1..Len(dict[t]) |-> Put(t, j)]
    BY <1>1
  <2> HIDE DEF e
  <2>2. e[t] \in [1..Len(dict[t]) -> FieldOf]
    BY <1>3, <2>1
  <2> QED BY <1>1, <2>1, <2>2
<1>7. e \in Sections
  BY <1>6 DEF Sections
<1> HIDE DEF e
<1>8. \A t \in Section : SameNames(e[t], dict[t])
  BY <1>3, <1>6 DEF SameNames
<1>9. EditOf(e, s, i)
  BY <1>3, <1>6, <1>7, <1>8 DEF EditOf
<1> QED BY <1>4, <1>5, <1>6, <1>9


\* What a getter reads once the record was saved and fetched.
LEMMA JsonReads ==
  ASSUME NEW d \in Sections, NEW s \in Section, NEW i \in 1..Len(d[s])
  PROVE  Read(Json(d)[s], i) = d[s][i].items
<1>1. i # 0 /\ Json(d)[s][i].list = "any" /\ Json(d)[s][i].items = d[s][i].items
  BY JsonIs DEF SameItems, SameNames, Sections
<1> QED BY <1>1 DEF Read

\* Lookups find in the JSON what they found before the edit.
LEMMA FoundAgain ==
  ASSUME dict \in Sections, NEW e, NEW s, NEW i, EditOf(e, s, i),
         NEW t \in Section, NEW key
  PROVE  /\ GetFieldsByType(Json(e)[t], key) = GetFieldsByType(dict[t], key)
         /\ GetFieldsByLabel(Json(e)[t], key) = GetFieldsByLabel(dict[t], key)
         /\ fieldSearch(Json(e)[t], key) = fieldSearch(dict[t], key)
<1>1. e \in Sections /\ SameNames(e[t], dict[t])
  BY DEF EditOf
<1>2. Json(e) \in Sections /\ SameNames(Json(e)[t], e[t])
  BY <1>1, JsonIs DEF SameItems
<1>3. SameNames(Json(e)[t], dict[t])
  BY <1>1, <1>2 DEF SameNames
<1>4. Json(e)[t] \in Seq(FieldOf) /\ dict[t] \in Seq(FieldOf)
  BY <1>2 DEF Sections
<1> QED BY <1>3, <1>4, SameFound

LEMMA SetSingleStep ==
  ASSUME dict \in Sections, NEW s \in Section, NEW i \in 0..Len(dict[s]),
         NEW v \in Text, SetSingle(s, i, v)
  PROVE  /\ i # 0
         /\ \E e : /\ EditOf(e, s, i) /\ Updated(e)
                   /\ \/ KeepsObject(dict[s], i)
                      \/ StartsWith(Json(e)[s], i, v)
<1> DEFINE f == dict[s][i]
           isList == f.list = "any" /\ f.items # <<>>
<1>1. i \in 1..Len(dict[s])
  BY DEF SetSingle, Sections
<1>2. f \in FieldOf /\ f.items \in Seq(Item) /\ v \in Item
  <2>1. f \in FieldOf
    BY <1>1 DEF Sections
  <2> QED BY <2>1, FieldParts DEF Item
<1>3. \/ ~isList /\ Updated(WithList(s, i, <<v>>, "strings", 0))
      \/ isList /\ f.items[1] \in Text /\ Updated(WithFirst(s, i, v))
      \/ isList /\ f.items[1] \notin Text /\ Updated(dict)
  BY DEF SetSingle
<1>4. ASSUME NEW e, EditOf(e, s, i), e[s][i].items # <<>>, Head(e[s][i].items) = v
      PROVE  StartsWith(Json(e)[s], i, v)
  <2>1. e \in Sections /\ i \in 1..Len(e[s])
    BY <1>1, <1>4 DEF EditOf, SameNames
  <2>2. Read(Json(e)[s], i) = e[s][i].items
    BY <2>1, JsonReads
  <2> QED BY <1>4, <2>2 DEF StartsWith
<1>5. CASE Updated(WithList(s, i, <<v>>, "strings", 0))
  <2> DEFINE one == <<v>>
             e == WithList(s, i, one, "strings", 0)
  <2>1. one \in Seq(Item) /\ one # <<>> /\ Head(one) = v
        /\ 0 \in 0..(MaxFields + 1) /\ "strings" \in {"any", "strings"}
    BY <1>2, FieldsAssumption
  <2>2. Updated(e)
    BY <1>5
  <2> HIDE DEF one
  <2>3. EditOf(e, s, i) /\ e[s][i].items = one
    BY <1>1, <2>1, WithListIs
  <2> HIDE DEF e
  <2>4. StartsWith(Json(e)[s], i, v)
    BY <1>4, <2>1, <2>3
  <2> QED BY <1>1, <2>2, <2>3, <2>4
<1>6. CASE isList /\ Updated(WithFirst(s, i, v))
  <2> DEFINE e == WithFirst(s, i, v)
  <2>1. EditOf(e, s, i) /\ e[s][i].items = <<v>> \o Tail(f.items)
    BY <1>1, <1>6, WithFirstIs
  <2>2. <<v>> \o Tail(f.items) # <<>> /\ Head(<<v>> \o Tail(f.items)) = v
    <3>1. Tail(f.items) \in Seq(Item) /\ Len(Tail(f.items)) \in Nat
      BY <1>2, <1>6
    <3>2. <<v>> \in Seq(Item) /\ Len(<<v>>) = 1 /\ <<v>>[1] = v
      BY <1>2
    <3> QED BY <3>1, <3>2
  <2> HIDE DEF e, f
  <2>3. StartsWith(Json(e)[s], i, v)
    BY <1>4, <2>1, <2>2
  <2> QED BY <1>1, <1>6, <2>1, <2>3 DEF e
<1>7. CASE isList /\ f.items[1] \notin Text /\ Updated(dict)
  <2>1. EditOf(dict, s, i)
    BY <1>1 DEF EditOf, SameNames
  <2>2. KeepsObject(dict[s], i)
    <3>1. Read(dict[s], i) = f.items /\ f.items # <<>>
      BY <1>1, <1>7 DEF Read
    <3>2. Head(f.items) = f.items[1]
      BY <1>2, <1>7
    <3> QED BY <1>7, <3>1, <3>2 DEF KeepsObject
  <2> QED BY <1>1, <1>7, <2>1, <2>2
<1> QED BY <1>3, <1>5, <1>6, <1>7

LEMMA SetFieldValueStep ==
  ASSUME dict \in Sections, NEW s \in Section, NEW key, NEW items \in Items,
         SetFieldValue(s, key, items)
  PROVE  LET i == fieldSearch(dict[s], key)
         IN  \E e : /\ EditOf(e, s, i) /\ Updated(e)
                    /\ Read(Json(e)[s], i) = items
<1> DEFINE i == fieldSearch(dict[s], key)
           e == WithList(s, i, items, "any", 0)
<1>1. i \in 1..Len(dict[s]) /\ Updated(e)
  <2>1. dict[s] \in Seq(FieldOf)
    BY DEF Sections
  <2>2. i \in 0..Len(dict[s])
    BY <2>1, Found
  <2> QED BY <2>1, <2>2 DEF SetFieldValue
<1> HIDE DEF i
<1>2. items \in Seq(Item)
  <2>1. CASE items = <<>>
    BY <2>1
  <2>2. CASE \E x \in Item : items = <<x>>
    BY <2>2
  <2> QED BY <2>1, <2>2 DEF Items
<1>3. 0 \in 0..(MaxFields + 1)
  BY FieldsAssumption
<1>4. EditOf(e, s, i) /\ e[s][i].items = items
  BY <1>1, <1>2, <1>3, WithListIs
<1> HIDE DEF e
<1>5. e \in Sections /\ i \in 1..Len(e[s])
  BY <1>1, <1>4 DEF EditOf, SameNames
<1>6. Read(Json(e)[s], i) = items
  BY <1>4, <1>5, JsonReads
<1> QED BY <1>1, <1>4, <1>6 DEF i

\* There is a number no shared list has yet.
LEMMA NewCell ==
  ASSUME dict \in Record
  PROVE  \E n \in 1..(MaxFields + 1) : n \notin Cells
<1> SUFFICES ASSUME 1..(MaxFields + 1) \subseteq Cells PROVE FALSE
  OBVIOUS
<1> DEFINE a == dict["fields"]
           b == dict["custom"]
           l == Len(a)
           m == Len(b)
           g == [k \in 1..(l + m) |-> IF k <= l THEN a[k].cell ELSE b[k - l].cell]
<1>1. /\ a \in Seq(FieldOf) /\ b \in Seq(FieldOf)
      /\ l \in Nat /\ m \in Nat /\ l + m <= MaxFields /\ MaxFields \in Nat
      /\ DOMAIN a = 1..l /\ DOMAIN b = 1..m
  BY FieldsAssumption DEF Record, Fields, Section
<1>2. Cells = {f.cell : f \in Range(a) \cup Range(b)}
  BY DEF Cells
<1> HIDE DEF a, b, l, m
<1>3. ASSUME NEW c \in Cells PROVE \E k \in 1..(l + m) : g[k] = c
  <2>1. PICK f \in Range(a) \cup Range(b) : c = f.cell
    BY <1>2
  <2>2. CASE f \in Range(a)
    <3>1. PICK k \in 1..l : f = a[k]
      BY <1>1, <2>2 DEF Range
    <3> QED BY <1>1, <2>1, <3>1
  <2>3. CASE f \in Range(b)
    <3>1. PICK k \in 1..m : f = b[k]
      BY <1>1, <2>3 DEF Range
    <3>2. l + k \in 1..(l + m) /\ ~(l + k <= l) /\ (l + k) - l = k
      BY <1>1
    <3>3. g[l + k] = c
      BY <2>1, <3>1, <3>2
    <3> QED BY <3>2, <3>3
  <2> QED BY <2>1, <2>2, <2>3
<1>4. ASSUME NEW k \in 1..(l + m) PROVE g[k] \in Cells
  <2>1. CASE k <= l
    <3>1. k \in 1..l
      BY <1>1, <2>1
    <3>2. a[k] \in Range(a)
      BY <1>1, <3>1 DEF Range
    <3> QED BY <1>2, <2>1, <3>2
  <2>2. CASE ~(k <= l)
    <3>1. k - l \in 1..m
      BY <1>1, <2>2
    <3>2. b[k - l] \in Range(b)
      BY <1>1, <3>1 DEF Range
    <3> QED BY <1>2, <2>2, <3>2
  <2> QED BY <2>1, <2>2
<1>5. g \in Surjection(1..(l + m), Cells)
  <2>1. g \in [1..(l + m) -> Cells]
    BY <1>4
  <2> HIDE DEF g
  <2> QED BY <1>3, <2>1 DEF Surjection
<1>6. IsFiniteSet(Cells) /\ Cardinality(Cells) <= l + m
  <2>1. ExistsSurjection(1..(l + m), Cells) /\ l + m \in Nat
    BY <1>1, <1>5 DEF ExistsSurjection
  <2> QED BY <2>1, FS_SurjCardinalityBound, FS_NatSurjection
<1>7. Cardinality(1..(MaxFields + 1)) <= Cardinality(Cells)
      /\ Cardinality(Cells) \in Nat
  BY <1>6, FS_Subset, FS_CardinalityType
<1>8. Cardinality(1..(MaxFields + 1)) = MaxFields + 1
  <2>1. 1 \in Int /\ MaxFields + 1 \in Int /\ ~(1 > MaxFields + 1)
    BY <1>1
  <2>2. Cardinality(1..(MaxFields + 1)) = (MaxFields + 1) - 1 + 1
    BY <2>1, FS_Interval
  <2> QED BY <1>1, <2>2
<1> QED BY <1>1, <1>6, <1>7, <1>8

LEMMA PassValueOnStep ==
  ASSUME dict \in Record, NEW from \in Section, NEW key, NEW to \in Section,
         NEW target, PassValueOn(from, key, to, target)
  PROVE  LET j == fieldSearch(dict[to], target)
         IN  \E e : EditOf(e, to, j) /\ Updated(e)
<1> DEFINE i == fieldSearch(dict[from], key)
           j == fieldSearch(dict[to], target)
           c == IF dict[from][i].cell # 0 THEN dict[from][i].cell
                  ELSE CHOOSE n \in 1..(MaxFields + 1) : n \notin Cells
           items == Read(dict[from], i)
           w == WithList(to, j, items, "any", c)
           f == [w[from][i] EXCEPT !.cell = c]
           e == [w EXCEPT ![from][i] = f]
<1>1. dict \in Sections
  BY DEF Record, Sections
<1>2. /\ i \in 1..Len(dict[from]) /\ j \in 1..Len(dict[to])
      /\ items # <<>> /\ Updated(e)
  <2>1. dict[from] \in Seq(FieldOf) /\ dict[to] \in Seq(FieldOf)
    BY <1>1 DEF Sections
  <2>2. i \in 0..Len(dict[from]) /\ j \in 0..Len(dict[to])
    BY <2>1, Found
  <2> QED BY <2>1, <2>2 DEF PassValueOn
<1> HIDE DEF i, j
<1>3. dict[from][i] \in FieldOf
  BY <1>1, <1>2 DEF Sections
<1>4. items \in Seq(Item) /\ items = dict[from][i].items
  BY <1>2, <1>3, FieldParts DEF Read
<1> HIDE DEF items
<1>5. c \in 0..(MaxFields + 1)
  <2>1. CASE dict[from][i].cell # 0
    BY <1>3, <2>1, FieldParts
  <2>2. CASE dict[from][i].cell = 0
    <3>1. c \in 1..(MaxFields + 1)
      BY <2>2, NewCell
    <3> QED BY <3>1
  <2> QED BY <2>1, <2>2
<1> HIDE DEF c
<1>6. /\ EditOf(w, to, j) /\ w[to][j].items = items
      /\ \A t \in Section : \A k \in 1..Len(dict[t]) :
           ~(t = to /\ k = j) => w[t][k] = dict[t][k]
  BY <1>1, <1>2, <1>4, <1>5, WithListIs
<1> HIDE DEF w
<1>7. w \in Sections /\ i \in 1..Len(w[from])
  BY <1>2, <1>6 DEF EditOf, SameNames
<1>8. w[from][i] \in FieldOf
  BY <1>7 DEF Sections
<1>9. w[from][i].items # <<>>
  BY <1>2, <1>4, <1>6
<1>10. IsField(f, w[from][i].type, w[from][i].label, w[from][i].items,
               w[from][i].list, c)
  BY <1>8, FieldParts, CellChanged
<1> HIDE DEF f
<1>11. f \in FieldOf /\ f.type = w[from][i].type /\ f.label = w[from][i].label
       /\ f.items = w[from][i].items
  BY <1>5, <1>8, <1>9, <1>10, FieldParts DEF IsField, FieldOf
<1>12. /\ e \in Sections
       /\ \A t \in Section : SameItems(e[t], w[t])
  <2>1. /\ e \in Sections
        /\ e[from][i] = f
        /\ \A t \in Section : Len(e[t]) = Len(w[t])
        /\ \A t \in Section : \A k \in 1..Len(w[t]) :
             ~(t = from /\ k = i) => e[t][k] = w[t][k]
    BY <1>7, <1>11, FieldPut DEF With, IsPut
  <2> HIDE DEF e
  <2> QED BY <1>11, <2>1 DEF SameItems, SameNames
<1> HIDE DEF e
<1>13. EditOf(e, to, j)
  BY <1>6, <1>12 DEF EditOf, SameItems, SameNames
<1> QED BY <1>2, <1>13 DEF j


LEMMA UpdatedTyped ==
  ASSUME NEW d \in Record, Updated(d)
  PROVE  TypeOK'
BY JsonIs DEF Updated, TypeOK, Record, Sections

LEMMA EditTyped ==
  ASSUME dict \in Record, NEW e, NEW s, NEW i, EditOf(e, s, i), Updated(e)
  PROVE  TypeOK'
<1>1. e \in Record
  BY DEF EditOf, Record, Sections, Fields, SameNames, Section
<1> QED BY <1>1, UpdatedTyped

\* A call of a setter, whichever it is.
LEMMA SetStep ==
  ASSUME dict \in Record, Set
  PROVE  \E e, s, i : EditOf(e, s, i) /\ Updated(e)
<1>1. dict \in Sections
  BY DEF Record, Sections
<1>2. \A s \in Section : dict[s] \in Seq(FieldOf)
  BY <1>1 DEF Sections
<1>3. PICK s \in Section, key \in Key :
        \/ \E v \in Text : SetFieldValueSingle(key, v)
        \/ \E v \in Text : SetCustomFieldValueSingle(key, v)
        \/ \E items \in Items : SetFieldValue(s, key, items)
        \/ \E to \in Section, target \in Key : PassValueOn(s, key, to, target)
  BY DEF Set
<1>4. "fields" \in Section /\ "custom" \in Section
  BY DEF Section
<1>5. ASSUME NEW v \in Text, SetFieldValueSingle(key, v)
      PROVE  \E e, t, i : EditOf(e, t, i) /\ Updated(e)
  <2>1. GetFieldsByType(dict["fields"], key) \in 0..Len(dict["fields"])
    BY <1>2, <1>4, TypeFound
  <2> QED BY <1>1, <1>4, <1>5, <2>1, SetSingleStep DEF SetFieldValueSingle
<1>6. ASSUME NEW v \in Text, SetCustomFieldValueSingle(key, v)
      PROVE  \E e, t, i : EditOf(e, t, i) /\ Updated(e)
  <2>1. GetFieldsByLabel(dict["custom"], key) \in 0..Len(dict["custom"])
    BY <1>2, <1>4, LabelFound
  <2> QED BY <1>1, <1>4, <1>6, <2>1, SetSingleStep DEF SetCustomFieldValueSingle
<1>7. ASSUME NEW items \in Items, SetFieldValue(s, key, items)
      PROVE  \E e, t, i : EditOf(e, t, i) /\ Updated(e)
  BY <1>1, <1>7, SetFieldValueStep
<1>8. ASSUME NEW to \in Section, NEW target \in Key, PassValueOn(s, key, to, target)
      PROVE  \E e, t, i : EditOf(e, t, i) /\ Updated(e)
  BY <1>8, PassValueOnStep
<1> QED BY <1>3, <1>5, <1>6, <1>7, <1>8

-----------------------------------------------------------------------------
(* Removing positions                                                       *)

LEMMA RemoveAtIs ==
  ASSUME NEW S, NEW c \in Seq(S), NEW p \in 1..Len(c)
  PROVE  /\ RemoveAt(c, p) \in Seq(S)
         /\ Len(RemoveAt(c, p)) = Len(c) - 1
         /\ \A j \in 1..(Len(c) - 1) :
              RemoveAt(c, p)[j] = IF j < p THEN c[j] ELSE c[j + 1]
<1> DEFINE l == Len(c)
           a == SubSeq(c, 1, p - 1)
           b == SubSeq(c, p + 1, l)
<1>1. l \in Nat /\ p \in 1..l
  OBVIOUS
<1>2. a \in Seq(S) /\ Len(a) = p - 1 /\ \A j \in 1..(p - 1) : a[j] = c[j]
  BY <1>1
<1>3. b \in Seq(S) /\ Len(b) = l - p /\ \A j \in 1..(l - p) : b[j] = c[j + p]
  BY <1>1
<1>4. RemoveAt(c, p) = a \o b
  BY DEF RemoveAt
<1> HIDE DEF a, b, l
<1>5. /\ a \o b \in Seq(S) /\ Len(a \o b) = l - 1
      /\ \A j \in 1..(l - 1) : (a \o b)[j] = IF j <= p - 1 THEN a[j] ELSE b[j - (p - 1)]
  <2>1. Len(a) + Len(b) = l - 1
    BY <1>1, <1>2, <1>3
  <2>2. /\ a \o b \in Seq(S) /\ Len(a \o b) = Len(a) + Len(b)
        /\ \A j \in 1..(Len(a) + Len(b)) :
             (a \o b)[j] = IF j <= Len(a) THEN a[j] ELSE b[j - Len(a)]
    BY <1>2, <1>3, ConcatProperties
  <2>3. Len(a) = p - 1
    BY <1>2
  <2> QED BY <2>1, <2>2, <2>3
<1>6. ASSUME NEW j \in 1..(l - 1)
      PROVE  (a \o b)[j] = IF j < p THEN c[j] ELSE c[j + 1]
  <2>1. CASE j < p
    <3>1. j \in 1..(p - 1) /\ j <= p - 1
      BY <1>1, <2>1
    <3> QED BY <1>2, <1>5, <2>1, <3>1
  <2>2. CASE ~(j < p)
    <3>1. j - (p - 1) \in 1..(l - p) /\ ~(j <= p - 1) /\ (j - (p - 1)) + p = j + 1
      BY <1>1, <2>2
    <3> QED BY <1>3, <1>5, <2>2, <3>1
  <2> QED BY <2>1, <2>2
<1> QED BY <1>4, <1>5, <1>6 DEF l

\* What is left of a section once the positions after p were looked at: its
\* fields, the first p of them in their places.
Left(section, at, p, c, keep) ==
  /\ p <= Len(c) /\ Len(c) <= Len(section)
  /\ keep \in [1..Len(c) -> 1..Len(section)]
  /\ \A i \in 1..p : keep[i] = i
  /\ \A i, j \in 1..Len(c) : i < j => keep[i] < keep[j]
  /\ \A k \in 1..Len(section) :
       (\E i \in 1..Len(c) : keep[i] = k) <=> ~(k \in at /\ k > p)
  /\ \A i \in 1..Len(c) : c[i] = section[keep[i]]

LEMMA LeftStep ==
  ASSUME NEW S, NEW section \in Seq(S), NEW at \in SUBSET (1..Len(section)),
         NEW p \in 1..Len(section), NEW c \in Seq(S), NEW keep,
         Left(section, at, p, c, keep)
  PROVE  /\ p \in 1..Len(c)
         /\ LET d == IF p \in at THEN RemoveAt(c, p) ELSE c
            IN  d \in Seq(S) /\ \E kept : Left(section, at, p - 1, d, kept)
<1> DEFINE l == Len(section)
           m == Len(c)
<1>1. l \in Nat /\ m \in Nat /\ p \in 1..l /\ p <= m /\ m <= l
  BY DEF Left
<1>2. p \in 1..m /\ p - 1 \in Nat
  BY <1>1
<1>3. /\ keep \in [1..m -> 1..l]
      /\ \A i \in 1..p : keep[i] = i
      /\ \A i, j \in 1..m : i < j => keep[i] < keep[j]
      /\ \A k \in 1..l : (\E i \in 1..m : keep[i] = k) <=> ~(k \in at /\ k > p)
      /\ \A i \in 1..m : c[i] = section[keep[i]]
  BY DEF Left
<1>4. CASE p \notin at
  <2>1. \A k \in 1..l : (k \in at /\ k > p) <=> (k \in at /\ k > p - 1)
    BY <1>1, <1>4
  <2>2. \A i \in 1..(p - 1) : i \in 1..p
    BY <1>1
  <2>3. Left(section, at, p - 1, c, keep)
    BY <1>1, <1>3, <2>1, <2>2 DEF Left
  <2> QED BY <1>2, <1>4, <2>3
<1>5. CASE p \in at
  <2> DEFINE d == RemoveAt(c, p)
             kept == [j \in 1..(m - 1) |-> IF j < p THEN keep[j] ELSE keep[j + 1]]
  <2>1. /\ d \in Seq(S) /\ Len(d) = m - 1
        /\ \A j \in 1..(m - 1) : d[j] = IF j < p THEN c[j] ELSE c[j + 1]
    BY <1>2, RemoveAtIs
  <2>2. \A j \in 1..(m - 1) : j \in 1..m /\ j + 1 \in 1..m
    BY <1>1
  <2>3. kept \in [1..(m - 1) -> 1..l]
    BY <1>3, <2>2
  <2> HIDE DEF d, l, m
  <2>4. ASSUME NEW i \in 1..(p - 1) PROVE kept[i] = i
    <3>1. i \in 1..(m - 1) /\ i < p /\ i \in 1..p
      BY <1>1
    <3> QED BY <1>3, <3>1
  <2>5. ASSUME NEW i \in 1..(m - 1), NEW j \in 1..(m - 1), i < j
        PROVE  kept[i] < kept[j]
    <3>1. kept[i] = keep[IF i < p THEN i ELSE i + 1]
          /\ kept[j] = keep[IF j < p THEN j ELSE j + 1]
      OBVIOUS
    <3>2. (IF i < p THEN i ELSE i + 1) < (IF j < p THEN j ELSE j + 1)
          /\ (IF i < p THEN i ELSE i + 1) \in 1..m
          /\ (IF j < p THEN j ELSE j + 1) \in 1..m
      BY <1>1, <2>5
    <3> QED BY <1>3, <3>1, <3>2
  <2>6. ASSUME NEW k \in 1..l
        PROVE  (\E i \in 1..(m - 1) : kept[i] = k) <=> ~(k \in at /\ k > p - 1)
    <3>1. ASSUME NEW i \in 1..(m - 1), kept[i] = k PROVE ~(k \in at /\ k > p - 1)
      <4>1. CASE i < p
        <5>1. i \in 1..(p - 1)
          BY <1>1, <4>1
        <5>2. k = i
          BY <2>4, <3>1, <5>1
        <5> QED BY <1>1, <5>1, <5>2
      <4>2. CASE ~(i < p)
        <5>1. i + 1 \in 1..m /\ keep[i + 1] = k /\ p < i + 1
          BY <1>1, <3>1, <4>2
        <5>2. ~(k \in at /\ k > p)
          BY <1>3, <5>1
        <5>3. keep[p] < keep[i + 1] /\ keep[p] = p
          BY <1>2, <1>3, <5>1
        <5> QED BY <1>1, <5>1, <5>2, <5>3
      <4> QED BY <4>1, <4>2
    <3>2. ASSUME ~(k \in at /\ k > p - 1) PROVE \E i \in 1..(m - 1) : kept[i] = k
      <4>1. ~(k \in at /\ k > p) /\ k # p
        BY <1>1, <1>5, <3>2
      <4>2. PICK i \in 1..m : keep[i] = k
        BY <1>3, <4>1
      <4>3. i # p
        BY <1>1, <1>3, <4>1, <4>2
      <4>4. CASE i < p
        <5>1. i \in 1..(m - 1) /\ kept[i] = k
          BY <1>1, <4>2, <4>4
        <5> QED BY <5>1
      <4>5. CASE i > p
        <5>1. i - 1 \in 1..(m - 1) /\ ~(i - 1 < p) /\ (i - 1) + 1 = i
          BY <1>1, <4>5
        <5>2. kept[i - 1] = k
          BY <4>2, <5>1
        <5> QED BY <5>1, <5>2
      <4> QED BY <1>1, <4>3, <4>4, <4>5
    <3> QED BY <3>1, <3>2
  <2>7. ASSUME NEW i \in 1..(m - 1) PROVE d[i] = section[kept[i]]
    BY <1>3, <2>1, <2>2
  <2> HIDE DEF kept
  <2>8. p - 1 <= m - 1 /\ m - 1 <= l
    BY <1>1
  <2>9. Left(section, at, p - 1, d, kept)
    BY <2>1, <2>3, <2>4, <2>5, <2>6, <2>7, <2>8 DEF Left, l
  <2> QED BY <1>2, <1>5, <2>1, <2>9 DEF d, m
<1> QED BY <1>4, <1>5


\* Functions that remove position by position, where there is one to remove.
Cutting(section, at, f) ==
  /\ f[0] = section
  /\ \A n \in 1..Len(section) :
       LET p == Len(section) + 1 - n
       IN  p \in 1..Len(f[n - 1]) =>
             f[n] = IF p \in at THEN RemoveAt(f[n - 1], p) ELSE f[n - 1]

LEMMA CuttingLeaves ==
  ASSUME NEW S, NEW section \in Seq(S), NEW at \in SUBSET (1..Len(section)),
         NEW f, Cutting(section, at, f)
  PROVE  \A n \in 0..Len(section) :
           /\ f[n] \in Seq(S)
           /\ \E keep : Left(section, at, Len(section) - n, f[n], keep)
<1> DEFINE l == Len(section)
           Good == {n \in Nat : n <= l => /\ f[n] \in Seq(S)
                                          /\ \E keep : Left(section, at, l - n, f[n], keep)}
<1>1. l \in Nat
  OBVIOUS
<1>2. 0 \in Good
  <2> DEFINE id == [k \in 1..l |-> k]
  <2>1. f[0] = section
    BY DEF Cutting
  <2>2. id \in [1..l -> 1..l] /\ \A k \in 1..l : id[k] = k
    OBVIOUS
  <2> HIDE DEF id
  <2>3. \A k \in 1..l : (\E j \in 1..l : id[j] = k) /\ ~(k > l)
    BY <1>1, <2>2
  <2>4. Left(section, at, l, section, id)
    BY <1>1, <2>2, <2>3 DEF Left
  <2> QED BY <1>1, <2>1, <2>4
<1>3. ASSUME NEW n \in Nat, n \in Good PROVE n + 1 \in Good
  <2> SUFFICES ASSUME n + 1 <= l
               PROVE  /\ f[n + 1] \in Seq(S)
                      /\ \E keep : Left(section, at, l - (n + 1), f[n + 1], keep)
    OBVIOUS
  <2> DEFINE p == l - n
             c == f[n]
             d == IF p \in at THEN RemoveAt(c, p) ELSE c
  <2>1. c \in Seq(S) /\ \E keep : Left(section, at, p, c, keep)
    BY <1>1, <1>3
  <2>2. p \in 1..l /\ n + 1 \in 1..l /\ l + 1 - (n + 1) = p /\ (n + 1) - 1 = n
        /\ l - (n + 1) = p - 1
    BY <1>1
  <2> HIDE DEF p, c
  <2>3. p \in 1..Len(c) /\ d \in Seq(S) /\ \E kept : Left(section, at, p - 1, d, kept)
    BY <2>1, <2>2, LeftStep
  <2> HIDE DEF d
  <2>4. f[n + 1] = d
    BY <2>2, <2>3 DEF Cutting, c, d
  <2> QED BY <2>2, <2>3, <2>4
<1>4. Nat \subseteq Good
  <2> HIDE DEF Good
  <2> QED BY <1>2, <1>3, SetInduction
<1> QED BY <1>1, <1>4

\* The loop of RemoveField leaves the rest.
LEMMA RemovedIs ==
  ASSUME NEW S, NEW section \in Seq(S), NEW at \in SUBSET (1..Len(section))
  PROVE  /\ Removed(section, at) \in Seq(S)
         /\ \E keep : Left(section, at, 0, Removed(section, at), keep)
<1> DEFINE l == Len(section)
           Step(n, f) ==
             LET p == l + 1 - n
             IN  IF n = 0 THEN section
                   ELSE IF p \in at THEN RemoveAt(f[n - 1], p) ELSE f[n - 1]
           Safe(n, f) ==
             LET p == l + 1 - n
             IN  IF n = 0 THEN section
                   ELSE IF p \in at /\ p \in 1..Len(f[n - 1])
                          THEN RemoveAt(f[n - 1], p) ELSE f[n - 1]
           rule == [n \in Nat |-> [b \in [0..(n - 1) -> Seq(S)] |-> Safe(n, b)]]
<1>1. l \in Nat
  OBVIOUS
<1>2. ASSUME NEW n \in Nat, NEW b, \A k \in 0..(n - 1) : b[k] \in Seq(S)
      PROVE  Safe(n, b) \in Seq(S)
  <2>1. CASE n = 0
    BY <2>1
  <2>2. CASE n # 0
    <3>1. b[n - 1] \in Seq(S)
      BY <1>2, <2>2
    <3> QED BY <2>2, <3>1, RemoveAtIs
  <2> QED BY <2>1, <2>2
<1> HIDE DEF l
<1>3. IsRule(rule, Seq(S))
  <2> HIDE DEF Safe
  <2> QED BY <1>2 DEF IsRule
<1>4. PICK f \in [Nat -> Seq(S)] : \A n \in Nat : f[n] = rule[n][Before(n, f)]
  <2> DEFINE V == Seq(S)
  <2>1. IsRule(rule, V)
    BY <1>3
  <2> HIDE DEF rule, V
  <2>2. \E f \in [Nat -> V] : \A n \in Nat : f[n] = rule[n][Before(n, f)]
    BY <2>1, CourseOfValues
  <2> QED BY <2>2 DEF V
<1>5. ASSUME NEW n \in Nat PROVE f[n] = Safe(n, f)
  <2> DEFINE b == Before(n, f)
  <2>1. b \in [0..(n - 1) -> Seq(S)] /\ \A k \in 0..(n - 1) : b[k] = f[k]
    BY BeforeOf
  <2> HIDE DEF b
  <2>2. f[n] = Safe(n, b)
    <3> HIDE DEF Safe
    <3> QED BY <1>4, <2>1 DEF b
  <2>3. n # 0 => b[n - 1] = f[n - 1]
    BY <2>1
  <2> QED BY <2>2, <2>3
<1>6. Cutting(section, at, f)
  <2>1. f[0] = section
    BY <1>5
  <2>2. ASSUME NEW n \in 1..l, l + 1 - n \in 1..Len(f[n - 1])
        PROVE  f[n] = IF l + 1 - n \in at THEN RemoveAt(f[n - 1], l + 1 - n)
                        ELSE f[n - 1]
    <3>1. n \in Nat /\ n # 0
      BY <1>1
    <3>2. f[n] = Safe(n, f)
      BY <1>5, <3>1
    <3> QED BY <2>2, <3>1, <3>2
  <2> QED BY <2>1, <2>2 DEF Cutting, l
<1>7. \A n \in 0..l : f[n] \in Seq(S) /\ \E keep : Left(section, at, l - n, f[n], keep)
  BY <1>6, CuttingLeaves DEF l
<1>8. ASSUME NEW n \in Nat PROVE f[n] = Step(n, f)
  <2>1. CASE n = 0
    BY <1>5, <2>1
  <2>2. CASE n # 0 /\ l + 1 - n \notin at
    BY <1>5, <2>2
  <2>3. CASE n # 0 /\ l + 1 - n \in at
    <3>1. l + 1 - n \in 1..l
      BY <2>3 DEF l
    <3>2. n - 1 \in 0..l /\ l - (n - 1) = l + 1 - n
      BY <1>1, <2>3, <3>1
    <3>3. PICK keep : Left(section, at, l + 1 - n, f[n - 1], keep)
      BY <1>7, <3>2
    <3>4. f[n - 1] \in Seq(S)
      BY <1>7, <3>2
    <3>5. l + 1 - n \in 1..Len(f[n - 1])
      BY <3>1, <3>3, <3>4 DEF Left
    <3> QED BY <1>5, <2>3, <3>5
  <2> QED BY <2>1, <2>2, <2>3
<1> DEFINE cut == CHOOSE g : g = [n \in Nat |-> Step(n, g)]
<1>9. cut = [n \in Nat |-> Step(n, cut)]
  <2>1. f = [n \in Nat |-> Step(n, f)]
    <3> HIDE DEF Step
    <3> QED BY <1>8
  <2> HIDE DEF Step
  <2> QED BY <2>1
<1>10. Removed(section, at) = cut[l]
  BY DEF Removed, l
<1> HIDE DEF cut
<1>11. Cutting(section, at, cut)
  <2>1. \A n \in Nat : cut[n] = Step(n, cut)
    <3> HIDE DEF Step
    <3> QED BY <1>9
  <2>2. cut[0] = section
    BY <2>1
  <2>3. ASSUME NEW n \in 1..l
        PROVE  cut[n] = IF l + 1 - n \in at THEN RemoveAt(cut[n - 1], l + 1 - n)
                          ELSE cut[n - 1]
    <3>1. n \in Nat /\ n # 0
      BY <1>1
    <3> QED BY <2>1, <3>1
  <2> QED BY <2>2, <2>3 DEF Cutting, l
<1>12. l \in 0..l /\ l - l = 0
  BY <1>1
<1>13. cut[l] \in Seq(S) /\ \E keep : Left(section, at, l - l, cut[l], keep)
  BY <1>11, <1>12, CuttingLeaves DEF l
<1> QED BY <1>10, <1>12, <1>13

LEMMA RemovedIsRest ==
  ASSUME NEW S, NEW section \in Seq(S), NEW at \in SUBSET (1..Len(section))
  PROVE  /\ Removed(section, at) \in Seq(S)
         /\ Len(Removed(section, at)) <= Len(section)
         /\ RestOf(section, at, Removed(section, at))
<1> DEFINE rest == Removed(section, at)
<1>1. rest \in Seq(S)
  BY RemovedIs
<1>2. PICK keep : Left(section, at, 0, rest, keep)
  BY RemovedIs
<1> HIDE DEF rest
<1>3. /\ DOMAIN rest = 1..Len(rest) /\ DOMAIN section = 1..Len(section)
      /\ Len(rest) \in Nat /\ Len(section) \in Nat
  BY <1>1
<1>4. Range(keep) = DOMAIN section \ at
  BY <1>2, <1>3 DEF Left, Range
<1>5. RestOf(section, at, rest)
  BY <1>2, <1>3, <1>4 DEF Left, RestOf
<1> QED BY <1>1, <1>2, <1>5 DEF Left, rest


-----------------------------------------------------------------------------
(* Whole fields, file references, templates                                 *)

LEMMA SectionsOf ==
  ASSUME NEW d \in Record
  PROVE  /\ d \in Sections
         /\ \A s \in Section : d[s] \in Seq(FieldOf)
         /\ Fields(d) <= MaxFields /\ Fields(d) \in Nat
         /\ Len(d["fields"]) \in Nat /\ Len(d["custom"]) \in Nat
BY DEF Record, Sections, Section, Fields

\* What is new has its type.
LEMMA FieldTyped ==
  ASSUME NEW shape, shape.type \in Key \cup {FileRef}, shape.label \in Names \cup {None},
         NEW items \in Seq(Item)
  PROVE  Field(shape, items) \in FieldOf
BY FieldsAssumption DEF Field, FieldOf

LEMMA NewFieldTyped ==
  ASSUME NEW field \in NewField
  PROVE  field \in FieldOf
<1>1. PICK shape \in Shape, items \in {<<>>, <<Object>>} : field = Field(shape, items)
  BY DEF NewField
<1>2. items \in Seq(Item)
  <2>1. <<>> \in Seq(Item) /\ <<Object>> \in Seq(Item)
    BY DEF Item
  <2> QED BY <2>1
<1>3. shape.type \in Key /\ shape.label \in Names
  BY FieldsAssumption DEF Key, Names
<1> QED BY <1>1, <1>2, <1>3, FieldTyped

\* Counts of fields.
LEMMA Replaced ==
  ASSUME NEW a \in Nat, NEW b \in Nat, NEW c \in Nat
  PROVE  /\ (a + b) - a + c = c + b /\ (b + a) - a + c = b + c
         /\ c + b \in Nat /\ b + c \in Nat
OBVIOUS

LEMMA PartBounded ==
  ASSUME NEW a \in Nat, NEW b \in Nat, NEW m \in Nat, a + b <= m
  PROVE  a <= m
OBVIOUS

\* One section of a dictionary replaced.
LEMMA SectionPut ==
  ASSUME NEW d \in Sections, NEW s \in Section, NEW u \in Seq(FieldOf),
         NEW e, e = [d EXCEPT ![s] = u]
  PROVE  /\ e \in Sections /\ e[s] = u
         /\ \A t \in Section : t # s => e[t] = d[t]
         /\ Fields(e) = Fields(d) - Len(d[s]) + Len(u) /\ Fields(e) \in Nat
<1>1. e \in Sections /\ e[s] = u /\ \A t \in Section : t # s => e[t] = d[t]
  BY DEF Sections
<1>2. /\ Len(d["fields"]) \in Nat /\ Len(d["custom"]) \in Nat /\ Len(u) \in Nat
      /\ Fields(d) = Len(d["fields"]) + Len(d["custom"])
      /\ Fields(e) = Len(e["fields"]) + Len(e["custom"])
  BY DEF Sections, Section, Fields
<1>3. CASE s = "fields"
  <2>1. e["fields"] = u /\ e["custom"] = d["custom"]
    BY <1>1, <1>3 DEF Section
  <2>2. Fields(e) = Len(u) + Len(d["custom"]) /\ d[s] = d["fields"]
    BY <1>2, <1>3, <2>1
  <2>3. Fields(d) - Len(d[s]) + Len(u) = Len(u) + Len(d["custom"])
        /\ Len(u) + Len(d["custom"]) \in Nat
    BY <1>2, <2>2, Replaced
  <2> QED BY <1>1, <2>2, <2>3
<1>4. CASE s = "custom"
  <2>1. e["custom"] = u /\ e["fields"] = d["fields"]
    BY <1>1, <1>4 DEF Section
  <2>2. Fields(e) = Len(d["fields"]) + Len(u) /\ d[s] = d["custom"]
    BY <1>2, <1>4, <2>1
  <2>3. Fields(d) - Len(d[s]) + Len(u) = Len(d["fields"]) + Len(u)
        /\ Len(d["fields"]) + Len(u) \in Nat
    BY <1>2, <2>2, Replaced
  <2> QED BY <1>1, <2>2, <2>3
<1> QED BY <1>3, <1>4 DEF Section

LEMMA FieldAdded ==
  ASSUME NEW d \in Record, NEW s \in Section, NEW f \in FieldOf, Fields(d) < MaxFields
  PROVE  LET e == [d EXCEPT ![s] = Append(@, f)]
         IN  /\ e \in Record
             /\ Len(e[s]) = Len(d[s]) + 1 /\ e[s][Len(d[s]) + 1] = f
             /\ \A j \in 1..Len(d[s]) : e[s][j] = d[s][j]
             /\ \A t \in Section : t # s => e[t] = d[t]
<1> DEFINE u == Append(d[s], f)
           e == [d EXCEPT ![s] = u]
<1>1. /\ d \in Sections /\ d[s] \in Seq(FieldOf)
      /\ Len(d["fields"]) \in Nat /\ Len(d["custom"]) \in Nat /\ MaxFields \in Nat
  BY SectionsOf, FieldsAssumption
<1>2. /\ u \in Seq(FieldOf) /\ Len(u) = Len(d[s]) + 1 /\ u[Len(d[s]) + 1] = f
      /\ \A j \in 1..Len(d[s]) : u[j] = d[s][j]
  BY <1>1
<1> HIDE DEF u
<1>3. /\ e \in Sections /\ e[s] = u /\ \A t \in Section : t # s => e[t] = d[t]
      /\ Fields(e) = Fields(d) - Len(d[s]) + Len(u)
  BY <1>1, <1>2, SectionPut
<1> HIDE DEF e
<1>4. Fields(e) <= MaxFields
  BY <1>1, <1>2, <1>3, SectionsOf
<1>5. e \in Record
  BY <1>3, <1>4 DEF Record, Sections
<1> QED BY <1>2, <1>3, <1>5 DEF e, u

LEMMA FieldPutRecord ==
  ASSUME NEW d \in Record, NEW s \in Section, NEW i \in 1..Len(d[s]),
         NEW f \in FieldOf
  PROVE  With(d, s, i, f) \in Record
<1> DEFINE e == With(d, s, i, f)
<1>1. e \in Sections /\ \A t \in Section : Len(e[t]) = Len(d[t])
  BY SectionsOf, FieldPut DEF IsPut
<1> HIDE DEF e
<1>2. Fields(e) = Fields(d)
  BY <1>1 DEF Fields, Section
<1> QED BY <1>1, <1>2, SectionsOf DEF Record, Sections, e

LEMMA KeptTyped ==
  ASSUME TypeOK, dict' \in Record, UNCHANGED raw
  PROVE  TypeOK'
<1>1. Json(raw)' = Json(raw)
  BY DEF Json
<1> QED BY <1>1 DEF TypeOK

LEMMA ChangeFieldsTyped ==
  ASSUME TypeOK, ChangeFields
  PROVE  TypeOK'
<1>1. dict \in Record /\ dict \in Sections
  BY SectionsOf DEF TypeOK
<1>2. PICK s \in Section, field \in NewField :
        \/ AddCustomField(field)
        \/ InsertField(s, field)
        \/ UpdateField(s, field)
        \/ \E all \in BOOLEAN : RemoveField(s, field.type, all)
  BY DEF ChangeFields
<1>3. field \in FieldOf
  BY NewFieldTyped
<1>4. CASE AddCustomField(field)
  <2> DEFINE e == [dict EXCEPT !["custom"] = Append(@, field)]
  <2>1. e \in Record
    BY <1>1, <1>3, <1>4, FieldAdded DEF AddCustomField, Section
  <2>2. Updated(e)
    BY <1>4 DEF AddCustomField
  <2> HIDE DEF e
  <2> QED BY <2>1, <2>2, UpdatedTyped
<1>5. CASE InsertField(s, field)
  <2> DEFINE e == [dict EXCEPT ![s] = Append(@, field)]
  <2>1. e \in Record
    BY <1>1, <1>3, <1>5, FieldAdded DEF InsertField
  <2>2. dict' = e /\ UNCHANGED raw
    BY <1>5 DEF InsertField
  <2> HIDE DEF e
  <2> QED BY <2>1, <2>2, KeptTyped
<1>6. CASE UpdateField(s, field)
  <2> DEFINE i == GetFieldsByType(dict[s], field.type)
             e == [dict EXCEPT ![s][i] = field]
  <2>1. dict[s] \in Seq(FieldOf) /\ i # 0 /\ dict' = e /\ UNCHANGED raw
    BY <1>1, <1>6 DEF UpdateField, Sections
  <2>2. i \in 1..Len(dict[s])
    BY <2>1, TypeFound
  <2> HIDE DEF i
  <2>3. e \in Record
    BY <1>1, <1>3, <2>2, FieldPutRecord DEF With
  <2> HIDE DEF e
  <2> QED BY <2>1, <2>3, KeptTyped
<1>7. CASE \E all \in BOOLEAN : RemoveField(s, field.type, all)
  <2> DEFINE I == {i \in DOMAIN dict[s] : dict[s][i].type = field.type}
  <2>1. PICK all \in BOOLEAN : RemoveField(s, field.type, all)
    BY <1>7
  <2> DEFINE at == IF all THEN I ELSE {Min(I)}
             u == Removed(dict[s], at)
             e == [dict EXCEPT ![s] = u]
  <2>2. I # {} /\ dict' = e /\ UNCHANGED raw
    BY <2>1 DEF RemoveField
  <2>3. dict[s] \in Seq(FieldOf) /\ Len(dict[s]) \in Nat
        /\ I \in SUBSET (1..Len(dict[s]))
    BY <1>1 DEF Sections
  <2>4. at \in SUBSET (1..Len(dict[s]))
    <3>1. I \in SUBSET Nat
      BY <2>3
    <3>2. Min(I) \in I
      <4> HIDE DEF I
      <4> QED BY <2>2, <3>1, MinOf
    <3> HIDE DEF I
    <3> QED BY <2>3, <3>2
  <2> HIDE DEF at
  <2>5. u \in Seq(FieldOf) /\ Len(u) <= Len(dict[s]) /\ Len(u) \in Nat
    BY <2>3, <2>4, RemovedIsRest
  <2> HIDE DEF u
  <2>6. /\ e \in Sections
        /\ Fields(e) = Fields(dict) - Len(dict[s]) + Len(u) /\ Fields(e) \in Nat
    BY <1>1, <2>5, SectionPut
  <2> HIDE DEF e
  <2>7. Fields(e) <= MaxFields
    <3>1. Fields(dict) \in Nat /\ Fields(dict) <= MaxFields /\ MaxFields \in Nat
      BY <1>1, SectionsOf, FieldsAssumption
    <3> QED BY <2>3, <2>5, <2>6, <3>1
  <2>8. e \in Record
    BY <2>6, <2>7 DEF Record, Sections
  <2> QED BY <2>2, <2>8, KeptTyped
<1> QED BY <1>2, <1>4, <1>5, <1>6, <1>7

\* An upload: a fileRef field there is, perhaps a new one, gets one more.
UploadOf(uid, d, i) ==
  LET refs == Read(d["fields"], i)
  IN  /\ d \in Record
      /\ i \in 1..Len(d["fields"])
      /\ Len(dict["fields"]) <= Len(d["fields"])
      /\ \A j \in 1..Len(dict["fields"]) : d["fields"][j] = dict["fields"][j]
      /\ \/ EqualFold(d["fields"][i].type, FileRef)
         \/ EqualFold(d["fields"][i].label, FileRef)
      /\ refs \in Seq(Item)
      /\ \E c \in {0, d["fields"][i].cell} :
           Updated([d EXCEPT !["fields"][i] =
                      [@ EXCEPT !.items = WithReference(refs, uid),
                                !.list = "any", !.cell = c]])

LEMMA PrefixOfItself ==
  ASSUME NEW items \in Seq(Item)
  PROVE  IsPrefix(items, items) /\ IsPrefix(<<>>, items)
BY DEF IsPrefix

LEMMA AppendIsPrefixed ==
  ASSUME NEW items \in Seq(Item), NEW x \in Text
  PROVE  IsPrefix(items, Append(items, x))
<1>1. Len(items) \in Nat /\ Len(Append(items, x)) = Len(items) + 1
  OBVIOUS
<1>2. \A j \in 1..Len(items) : Append(items, x)[j] = items[j]
  OBVIOUS
<1>3. SubSeq(items, 1, Len(items)) = SubSeq(Append(items, x), 1, Len(items))
  BY <1>1, <1>2
<1> QED BY <1>1, <1>3 DEF IsPrefix

LEMMA UploadStep ==
  ASSUME dict \in Record, NEW uid \in Text, UploadReference(uid)
  PROVE  \E d, i : UploadOf(uid, d, i)
<1> DEFINE d == IF GetFieldsByType(dict["fields"], FileRef) # 0 THEN dict
                  ELSE [dict EXCEPT !["fields"] = Append(@, FileRefField)]
           i == fieldSearch(d["fields"], FileRef)
           refs == Read(d["fields"], i)
<1>1. /\ d = dict \/ Fields(dict) < MaxFields
      /\ \E c \in {0, d["fields"][i].cell} :
           Updated([d EXCEPT !["fields"][i] =
                      [@ EXCEPT !.items = WithReference(refs, uid),
                                !.list = "any", !.cell = c]])
  BY DEF UploadReference
<1>2. dict["fields"] \in Seq(FieldOf) /\ Len(dict["fields"]) \in Nat
      /\ "fields" \in Section
  BY SectionsOf DEF Section
<1>3. EqualFold(FileRef, FileRef)
  BY FieldsAssumption DEF EqualFold
<1>4. /\ d \in Record
      /\ Len(dict["fields"]) <= Len(d["fields"])
      /\ \A j \in 1..Len(dict["fields"]) : d["fields"][j] = dict["fields"][j]
      /\ \E j \in 1..Len(d["fields"]) : EqualFold(d["fields"][j].type, FileRef)
  <2>1. CASE GetFieldsByType(dict["fields"], FileRef) # 0
    <3> DEFINE k == GetFieldsByType(dict["fields"], FileRef)
    <3>1. k \in 1..Len(dict["fields"]) /\ dict["fields"][k].type = FileRef
      BY <1>2, <2>1, TypeFound
    <3> HIDE DEF k
    <3>2. d = dict
      BY <2>1
    <3> HIDE DEF d
    <3> QED BY <1>2, <1>3, <3>1, <3>2
  <2>2. CASE GetFieldsByType(dict["fields"], FileRef) = 0
    <3> DEFINE f == FileRefField
               e == [dict EXCEPT !["fields"] = Append(@, f)]
    <3>1. f \in FieldOf /\ f.type = FileRef
      <4>1. <<>> \in Seq(Item)
        OBVIOUS
      <4> QED BY <4>1, FieldsAssumption DEF FileRefField, Field, FieldOf
    <3> HIDE DEF f
    <3>2. d = e
      BY <2>2 DEF f
    <3>3. e # dict => Fields(dict) < MaxFields
      BY <1>1, <3>2
    <3>4. e # dict
      <4>1. e["fields"] = Append(dict["fields"], f)
        BY <1>2, SectionsOf DEF Sections
      <4>2. Len(Append(dict["fields"], f)) # Len(dict["fields"])
        BY <1>2, <3>1
      <4> QED BY <4>1, <4>2
    <3>5. /\ e \in Record
          /\ Len(e["fields"]) = Len(dict["fields"]) + 1
          /\ e["fields"][Len(dict["fields"]) + 1] = f
          /\ \A j \in 1..Len(dict["fields"]) : e["fields"][j] = dict["fields"][j]
      BY <1>2, <3>1, <3>3, <3>4, FieldAdded
    <3> HIDE DEF e
    <3>6. Len(dict["fields"]) + 1 \in 1..Len(e["fields"])
          /\ Len(dict["fields"]) <= Len(e["fields"])
      BY <1>2, <3>5
    <3>7. EqualFold(e["fields"][Len(dict["fields"]) + 1].type, FileRef)
      BY <1>3, <3>1, <3>5
    <3> HIDE DEF d
    <3> QED BY <3>2, <3>5, <3>6, <3>7
  <2> QED BY <2>1, <2>2
<1> HIDE DEF d
<1>5. d["fields"] \in Seq(FieldOf)
  BY <1>4, SectionsOf DEF Section
<1>6. /\ i \in 1..Len(d["fields"])
      /\ \/ EqualFold(d["fields"][i].type, FileRef)
         \/ EqualFold(d["fields"][i].label, FileRef)
  BY <1>4, <1>5, Found
<1> HIDE DEF i
<1>7. refs \in Seq(Item)
  <2>1. d["fields"][i] \in FieldOf
    BY <1>5, <1>6
  <2>2. d["fields"][i].items \in Seq(Item) /\ <<>> \in Seq(Item)
    BY <2>1, FieldParts
  <2> QED BY <2>2 DEF Read
<1>8. UploadOf(uid, d, i)
  BY <1>1, <1>4, <1>6, <1>7 DEF UploadOf
<1> QED BY <1>8

LEMMA UploadWrites ==
  ASSUME dict \in Record, NEW uid \in Text, NEW d, NEW i, UploadOf(uid, d, i)
  PROVE  \E e \in Record :
           /\ Updated(e)
           /\ SameNames(e["fields"], d["fields"])
           /\ e["fields"][i].items = Append(Read(d["fields"], i), uid)
           /\ \A j \in 1..Len(d["fields"]) : j # i => e["fields"][j] = d["fields"][j]
<1> DEFINE refs == Read(d["fields"], i)
           f == d["fields"][i]
           items == Append(refs, uid)
<1>1. d \in Record /\ i \in 1..Len(d["fields"]) /\ refs \in Seq(Item)
  BY DEF UploadOf
<1>2. PICK c \in {0, f.cell} :
        Updated([d EXCEPT !["fields"][i] =
                   [@ EXCEPT !.items = items, !.list = "any", !.cell = c]])
  BY DEF UploadOf, WithReference
<1>3. d \in Sections /\ d["fields"] \in Seq(FieldOf) /\ "fields" \in Section
  BY <1>1, SectionsOf DEF Section
<1>4. f \in FieldOf
  BY <1>1, <1>3
<1>5. items \in Seq(Item) /\ items # <<>>
  <2>1. uid \in Item
    BY DEF Item
  <2> HIDE DEF refs
  <2>2. items \in Seq(Item) /\ Len(items) = Len(refs) + 1 /\ Len(refs) \in Nat
    BY <1>1, <2>1
  <2>3. Len(items) # 0
    BY <2>2
  <2> QED BY <2>2, <2>3
<1> DEFINE g == [f EXCEPT !.items = items, !.list = "any", !.cell = c]
           e == [d EXCEPT !["fields"][i] = g]
<1>6. Updated(e)
  BY <1>2
<1> HIDE DEF items, f
<1>7. IsField(g, f.type, f.label, items, "any", c)
  BY <1>4, FieldParts, AllChanged
<1> HIDE DEF g
<1>8. c \in 0..(MaxFields + 1)
  BY <1>4, FieldParts, FieldsAssumption
<1>9. g \in FieldOf /\ g.type = f.type /\ g.label = f.label /\ g.items = items
  BY <1>4, <1>5, <1>7, <1>8, FieldParts DEF IsField, FieldOf
<1>10. e = With(d, "fields", i, g) /\ e \in Record
  BY <1>1, <1>3, <1>9, FieldPutRecord DEF With
<1> HIDE DEF e
<1>11. /\ e \in Sections /\ e["fields"][i] = g
       /\ \A t \in Section : Len(e[t]) = Len(d[t])
       /\ \A t \in Section : \A j \in 1..Len(d[t]) :
            ~(t = "fields" /\ j = i) => e[t][j] = d[t][j]
  BY <1>1, <1>3, <1>9, <1>10, FieldPut DEF IsPut
<1>12. SameNames(e["fields"], d["fields"])
  <2>1. ASSUME NEW j \in 1..Len(d["fields"])
        PROVE  /\ e["fields"][j].type = d["fields"][j].type
               /\ e["fields"][j].label = d["fields"][j].label
    BY <1>3, <1>9, <1>11 DEF f
  <2> QED BY <1>3, <1>11, <2>1 DEF SameNames
<1> QED BY <1>3, <1>6, <1>9, <1>10, <1>11, <1>12 DEF items

LEMMA NewRecordCloneTyped ==
  ASSUME TypeOK, NewRecordClone
  PROVE  TypeOK'
<1> DEFINE Own(f) == [f EXCEPT !.cell = 0]
           own(s) == [i \in DOMAIN dict[s] |-> Own(dict[s][i])]
<1>1. dict \in Record /\ \A s \in Section : dict[s] \in Seq(FieldOf)
  BY SectionsOf DEF TypeOK
<1> HIDE DEF Own
<1>2. ASSUME NEW f \in FieldOf PROVE Own(f) \in FieldOf
  <2>1. 0 \in 0..(MaxFields + 1)
    BY FieldsAssumption
  <2>2. IsField(Own(f), f.type, f.label, f.items, f.list, 0)
    BY FieldParts, CellChanged DEF Own
  <2> QED BY <2>1, <2>2, FieldParts DEF IsField, FieldOf
<1>3. ASSUME NEW s \in Section
      PROVE  own(s) \in Seq(FieldOf) /\ Len(own(s)) = Len(dict[s])
  <2>1. DOMAIN dict[s] = 1..Len(dict[s]) /\ Len(dict[s]) \in Nat
        /\ \A j \in 1..Len(dict[s]) : dict[s][j] \in FieldOf
    BY <1>1
  <2>2. own(s) \in [1..Len(dict[s]) -> FieldOf]
    BY <1>2, <2>1
  <2> QED BY <2>1, <2>2
<1>4. dict' = [s \in Section |-> own(s)] /\ UNCHANGED raw
  BY DEF NewRecordClone, Own
<1> HIDE DEF own
<1>5. dict' \in Sections /\ \A s \in Section : Len(dict'[s]) = Len(dict[s])
  BY <1>3, <1>4 DEF Sections
<1>6. dict' \in Record
  BY <1>1, <1>5 DEF Record, Sections, Fields, Section
<1> QED BY <1>4, <1>6, KeptTyped

LEMMA NewRecordTyped ==
  ASSUME TypeOK, NewRecord
  PROVE  TypeOK'
<1> DEFINE Empty(f) == Field([type |-> f.type, label |-> None], <<>>)
           emptied == [i \in DOMAIN dict["fields"] |-> Empty(dict["fields"][i])]
           e == [s \in Section |-> IF s = "custom" THEN <<>> ELSE emptied]
<1>1. dict \in Record /\ dict["fields"] \in Seq(FieldOf)
      /\ Len(dict["fields"]) \in Nat /\ Len(dict["custom"]) \in Nat
  BY SectionsOf DEF TypeOK, Section
<1>2. Updated(e)
  <2>1. e = [s \in Section |->
              IF s = "custom" THEN <<>>
                ELSE [i \in DOMAIN dict[s] |->
                       Field([type |-> dict[s][i].type, label |-> None], <<>>)]]
    BY DEF Section
  <2> QED BY <2>1 DEF NewRecord
<1>3. ASSUME NEW f \in FieldOf PROVE Empty(f) \in FieldOf
  <2>1. <<>> \in Seq(Item) /\ f.type \in Key \cup {FileRef}
    BY FieldParts
  <2> QED BY <2>1, FieldTyped
<1> HIDE DEF Empty
<1>4. emptied \in Seq(FieldOf) /\ Len(emptied) = Len(dict["fields"])
  <2>1. DOMAIN dict["fields"] = 1..Len(dict["fields"])
        /\ \A j \in 1..Len(dict["fields"]) : dict["fields"][j] \in FieldOf
    BY <1>1
  <2>2. emptied \in [1..Len(dict["fields"]) -> FieldOf]
    BY <1>3, <2>1
  <2> QED BY <1>1, <2>2
<1> HIDE DEF emptied
<1>5. <<>> \in Seq(FieldOf) /\ Len(<<>>) = 0
  OBVIOUS
<1>6. e \in [Section -> Seq(FieldOf)]
  BY <1>4, <1>5
<1>7. Fields(e) = Len(dict["fields"])
  BY <1>1, <1>4, <1>5 DEF Fields, Section
<1>8. Fields(dict) = Len(dict["fields"]) + Len(dict["custom"])
      /\ Fields(dict) <= MaxFields /\ MaxFields \in Nat
  BY <1>1, SectionsOf, FieldsAssumption DEF Fields
<1> HIDE DEF e
<1>9. e \in Record
  <2>1. Len(dict["fields"]) <= MaxFields
    BY <1>1, <1>8, PartBounded
  <2>2. Fields(e) <= MaxFields
    BY <1>7, <2>1
  <2> QED BY <1>6, <2>2 DEF Record
<1> QED BY <1>2, <1>9, UpdatedTyped

LEMMA UploadTyped ==
  ASSUME TypeOK, NEW uid \in Text, UploadReference(uid)
  PROVE  TypeOK'
<1>1. dict \in Record
  BY DEF TypeOK
<1>2. PICK d, i : UploadOf(uid, d, i)
  BY <1>1, UploadStep
<1>3. PICK e \in Record : Updated(e)
  BY <1>1, <1>2, UploadWrites
<1> QED BY <1>3, UpdatedTyped

-----------------------------------------------------------------------------

\* The record has its type, with the fields the service takes; RawJson is the
\* JSON of some dictionary, so a fetched record shares no list.
THEOREM FieldsTyped == Spec => []TypeOK
<1>1. Init => TypeOK
  <2>1. ASSUME Init PROVE dict \in Record /\ raw = dict /\ Json(raw) = raw
    <3> DEFINE e == [s \in Section |-> <<>>]
    <3>1. dict = e /\ raw = e
      BY <2>1 DEF Init
    <3>2. <<>> \in Seq(FieldOf) /\ Len(<<>>) = 0 /\ DOMAIN <<>> = {}
      OBVIOUS
    <3>3. e \in [Section -> Seq(FieldOf)] /\ Fields(e) = 0
      BY <3>2 DEF Fields, Section
    <3>4. e \in Record
      BY <3>3, FieldsAssumption DEF Record
    <3>5. Json(e) = e
      <4>1. \A s \in Section : Json(e)[s] = <<>>
        BY <3>2 DEF Json
      <4> QED BY <4>1 DEF Json
    <3> QED BY <3>1, <3>4, <3>5
  <2> QED BY <2>1 DEF TypeOK
<1>2. TypeOK /\ [Next]_vars => TypeOK'
  <2> SUFFICES ASSUME TypeOK, [Next]_vars PROVE TypeOK'
    OBVIOUS
  <2>1. dict \in Record /\ raw \in Record
    BY DEF TypeOK
  <2>2. CASE Set
    BY <2>1, <2>2, SetStep, EditTyped
  <2>3. CASE ChangeFields
    BY <2>3, ChangeFieldsTyped
  <2>4. CASE \E uid \in Text : UploadReference(uid)
    BY <2>4, UploadTyped
  <2>5. CASE NewRecordClone
    BY <2>5, NewRecordCloneTyped
  <2>6. CASE NewRecord
    BY <2>6, NewRecordTyped
  <2>7. CASE SaveAndFetch
    BY <2>1, <2>7, KeptTyped DEF SaveAndFetch
  <2>8. CASE UNCHANGED vars
    BY <2>1, <2>8, KeptTyped DEF vars
  <2> QED BY <2>2, <2>3, <2>4, <2>5, <2>6, <2>7, <2>8 DEF Next
<1> QED BY <1>1, <1>2, PTL DEF Spec

\* A setter changes the items of the field it finds and nothing else, save
\* where the program handed two fields the same list.
THEOREM SettersTouchOneField == Spec => OnlyThatField
<1>1. ASSUME TypeOK, [Next]_vars
      PROVE  [Set =>
        /\ \A s \in Section :
             /\ DOMAIN dict'[s] = DOMAIN dict[s]
             /\ \A i \in DOMAIN dict[s] :
                  /\ dict'[s][i].type = dict[s][i].type
                  /\ dict'[s][i].label = dict[s][i].label
        /\ \A s, t \in Section :
             \A i \in DOMAIN dict[s], j \in DOMAIN dict[t] :
               \/ s = t /\ i = j
               \/ dict'[s][i].items = dict[s][i].items
               \/ dict'[t][j].items = dict[t][j].items
               \/ dict[s][i].cell # 0 /\ dict[s][i].cell = dict[t][j].cell]_vars
  <2> SUFFICES ASSUME Set
               PROVE
        /\ \A s \in Section :
             /\ DOMAIN dict'[s] = DOMAIN dict[s]
             /\ \A i \in DOMAIN dict[s] :
                  /\ dict'[s][i].type = dict[s][i].type
                  /\ dict'[s][i].label = dict[s][i].label
        /\ \A s, t \in Section :
             \A i \in DOMAIN dict[s], j \in DOMAIN dict[t] :
               \/ s = t /\ i = j
               \/ dict'[s][i].items = dict[s][i].items
               \/ dict'[t][j].items = dict[t][j].items
               \/ dict[s][i].cell # 0 /\ dict[s][i].cell = dict[t][j].cell
    OBVIOUS
  <2>1. dict \in Record /\ \A s \in Section : dict[s] \in Seq(FieldOf)
    BY <1>1, SectionsOf DEF TypeOK
  <2>2. PICK e, s0, i0 : EditOf(e, s0, i0) /\ Updated(e)
    BY <2>1, SetStep
  <2>3. dict' = e /\ \A s \in Section : e[s] \in Seq(FieldOf)
    BY <2>2 DEF Updated, EditOf, Sections
  <2>4. \A s \in Section : /\ DOMAIN dict[s] = 1..Len(dict[s])
                            /\ DOMAIN e[s] = 1..Len(dict[s])
    BY <2>1, <2>2, <2>3 DEF EditOf, SameNames
  <2>5. ASSUME NEW s \in Section
        PROVE  /\ DOMAIN dict'[s] = DOMAIN dict[s]
               /\ \A i \in DOMAIN dict[s] :
                    /\ dict'[s][i].type = dict[s][i].type
                    /\ dict'[s][i].label = dict[s][i].label
    BY <2>2, <2>3, <2>4 DEF EditOf, SameNames
  <2>6. ASSUME NEW s \in Section, NEW t \in Section,
               NEW i \in DOMAIN dict[s], NEW j \in DOMAIN dict[t]
        PROVE  \/ s = t /\ i = j
               \/ dict'[s][i].items = dict[s][i].items
               \/ dict'[t][j].items = dict[t][j].items
               \/ dict[s][i].cell # 0 /\ dict[s][i].cell = dict[t][j].cell
    <3>1. \/ e[s][i].items = dict[s][i].items
          \/ s = s0 /\ i = i0
          \/ dict[s][i].cell # 0 /\ dict[s][i].cell = dict[s0][i0].cell
      BY <2>2, <2>4 DEF EditOf
    <3>2. \/ e[t][j].items = dict[t][j].items
          \/ t = s0 /\ j = i0
          \/ dict[t][j].cell # 0 /\ dict[t][j].cell = dict[s0][i0].cell
      BY <2>2, <2>4 DEF EditOf
    <3> QED BY <2>3, <3>1, <3>2
  <2> QED BY <2>5, <2>6
<1> QED BY <1>1, FieldsTyped, PTL DEF Spec, OnlyThatField

\* What a setter was given is what its getter returns once the record has been
\* saved and fetched.
THEOREM SettersAreReadBack == Spec => ReadBack
<1> DEFINE
     ByType == \A type \in Key, v \in Text :
       SetFieldValueSingle(type, v) =>
         LET i == GetFieldsByType(raw'["fields"], type)
         IN  \/ KeepsObject(dict["fields"], i)
             \/ StartsWith(raw'["fields"], i, v)
     ByLabel == \A label \in Key, v \in Text :
       SetCustomFieldValueSingle(label, v) =>
         LET i == GetFieldsByLabel(raw'["custom"], label)
         IN  \/ KeepsObject(dict["custom"], i)
             \/ StartsWith(raw'["custom"], i, v)
     ByEither == \A s \in Section, key \in Key, items \in Items :
       SetFieldValue(s, key, items) =>
         Read(raw'[s], fieldSearch(raw'[s], key)) = items
<1>1. ASSUME TypeOK PROVE ByType /\ ByLabel /\ ByEither
  <2>1. dict \in Sections /\ \A s \in Section : dict[s] \in Seq(FieldOf)
    BY <1>1, SectionsOf DEF TypeOK
  <2>2. "fields" \in Section /\ "custom" \in Section
    BY DEF Section
  <2>3. ASSUME NEW type \in Key, NEW v \in Text, SetFieldValueSingle(type, v)
        PROVE  LET i == GetFieldsByType(raw'["fields"], type)
               IN  \/ KeepsObject(dict["fields"], i)
                   \/ StartsWith(raw'["fields"], i, v)
    <3> DEFINE j == GetFieldsByType(dict["fields"], type)
    <3>1. j \in 0..Len(dict["fields"])
      BY <2>1, <2>2, TypeFound
    <3>2. SetSingle("fields", j, v)
      BY <2>3 DEF SetFieldValueSingle
    <3>3. PICK e : /\ EditOf(e, "fields", j) /\ Updated(e)
                   /\ \/ KeepsObject(dict["fields"], j)
                      \/ StartsWith(Json(e)["fields"], j, v)
      <4> HIDE DEF j
      <4> QED BY <2>1, <2>2, <3>1, <3>2, SetSingleStep
    <3>4. raw' = Json(e)
      BY <3>3 DEF Updated
    <3>5. GetFieldsByType(Json(e)["fields"], type) = j
      BY <2>1, <2>2, <3>3, FoundAgain
    <3> HIDE DEF j
    <3> QED BY <3>3, <3>4, <3>5
  <2>4. ASSUME NEW label \in Key, NEW v \in Text, SetCustomFieldValueSingle(label, v)
        PROVE  LET i == GetFieldsByLabel(raw'["custom"], label)
               IN  \/ KeepsObject(dict["custom"], i)
                   \/ StartsWith(raw'["custom"], i, v)
    <3> DEFINE j == GetFieldsByLabel(dict["custom"], label)
    <3>1. j \in 0..Len(dict["custom"])
      BY <2>1, <2>2, LabelFound
    <3>2. SetSingle("custom", j, v)
      BY <2>4 DEF SetCustomFieldValueSingle
    <3>3. PICK e : /\ EditOf(e, "custom", j) /\ Updated(e)
                   /\ \/ KeepsObject(dict["custom"], j)
                      \/ StartsWith(Json(e)["custom"], j, v)
      <4> HIDE DEF j
      <4> QED BY <2>1, <2>2, <3>1, <3>2, SetSingleStep
    <3>4. raw' = Json(e)
      BY <3>3 DEF Updated
    <3>5. GetFieldsByLabel(Json(e)["custom"], label) = j
      BY <2>1, <2>2, <3>3, FoundAgain
    <3> HIDE DEF j
    <3> QED BY <3>3, <3>4, <3>5
  <2>5. ASSUME NEW s \in Section, NEW key \in Key, NEW items \in Items,
               SetFieldValue(s, key, items)
        PROVE  Read(raw'[s], fieldSearch(raw'[s], key)) = items
    <3> DEFINE j == fieldSearch(dict[s], key)
    <3>1. PICK e : /\ EditOf(e, s, j) /\ Updated(e)
                   /\ Read(Json(e)[s], j) = items
      BY <2>1, <2>5, SetFieldValueStep
    <3>2. raw' = Json(e)
      BY <3>1 DEF Updated
    <3>3. fieldSearch(Json(e)[s], key) = j
      BY <2>1, <3>1, FoundAgain
    <3> HIDE DEF j
    <3> QED BY <3>1, <3>2, <3>3
  <2> QED BY <2>3, <2>4, <2>5
<1>2. TypeOK => [ByType /\ ByLabel /\ ByEither]_vars
  BY <1>1
<1> QED BY <1>2, FieldsTyped, PTL DEF ReadBack

\* An upload adds its reference to a field whose type or label is fileRef, and
\* leaves every reference a getter shows where it was.
THEOREM UploadsKeepReferences == Spec => UploadKeepsReferences
<1> DEFINE Kept ==
      \A uid \in Text : UploadReference(uid) =>
        /\ \E i \in DOMAIN raw'["fields"] :
             /\ uid \in Range(raw'["fields"][i].items)
             /\ \/ EqualFold(raw'["fields"][i].type, FileRef)
                \/ EqualFold(raw'["fields"][i].label, FileRef)
        /\ \A i \in DOMAIN dict["fields"] :
             IsPrefix(Read(dict["fields"], i), raw'["fields"][i].items)
<1>1. ASSUME TypeOK PROVE Kept
  <2> SUFFICES ASSUME NEW uid \in Text, UploadReference(uid)
               PROVE
        /\ \E i \in DOMAIN raw'["fields"] :
             /\ uid \in Range(raw'["fields"][i].items)
             /\ \/ EqualFold(raw'["fields"][i].type, FileRef)
                \/ EqualFold(raw'["fields"][i].label, FileRef)
        /\ \A i \in DOMAIN dict["fields"] :
             IsPrefix(Read(dict["fields"], i), raw'["fields"][i].items)
    OBVIOUS
  <2>1. dict \in Record /\ dict["fields"] \in Seq(FieldOf) /\ "fields" \in Section
    BY <1>1, SectionsOf DEF TypeOK, Section
  <2>2. PICK d, i : UploadOf(uid, d, i)
    BY <2>1, UploadStep
  <2> DEFINE refs == Read(d["fields"], i)
  <2>3. PICK e \in Record :
          /\ Updated(e)
          /\ SameNames(e["fields"], d["fields"])
          /\ e["fields"][i].items = Append(refs, uid)
          /\ \A j \in 1..Len(d["fields"]) : j # i => e["fields"][j] = d["fields"][j]
    BY <2>1, <2>2, UploadWrites
  <2>4. /\ i \in 1..Len(d["fields"])
        /\ \A j \in 1..Len(dict["fields"]) :
             j \in 1..Len(d["fields"]) /\ d["fields"][j] = dict["fields"][j]
        /\ \/ EqualFold(d["fields"][i].type, FileRef)
           \/ EqualFold(d["fields"][i].label, FileRef)
        /\ refs \in Seq(Item)
    BY <2>1, <2>2, SectionsOf DEF UploadOf
  <2>5. /\ SameItems(Json(e)["fields"], e["fields"])
        /\ Json(e)["fields"] \in Seq(FieldOf) /\ raw' = Json(e)
    BY <2>1, <2>3, SectionsOf, JsonIs DEF Updated, Sections
  <2>6. DOMAIN raw'["fields"] = 1..Len(d["fields"])
    BY <2>3, <2>5 DEF SameItems, SameNames
  <2>7. ASSUME NEW j \in 1..Len(d["fields"])
        PROVE  /\ raw'["fields"][j].type = d["fields"][j].type
               /\ raw'["fields"][j].label = d["fields"][j].label
               /\ raw'["fields"][j].items = e["fields"][j].items
    BY <2>3, <2>5 DEF SameItems, SameNames
  <2> HIDE DEF refs
  <2>8. uid \in Range(Append(refs, uid))
    <3>1. DOMAIN Append(refs, uid) = 1..(Len(refs) + 1) /\ Len(refs) \in Nat
          /\ Append(refs, uid)[Len(refs) + 1] = uid
      BY <2>4
    <3>2. Len(refs) + 1 \in DOMAIN Append(refs, uid)
      BY <3>1
    <3> QED BY <3>1, <3>2 DEF Range
  <2>9. ASSUME NEW j \in DOMAIN dict["fields"]
        PROVE  IsPrefix(Read(dict["fields"], j), raw'["fields"][j].items)
    <3>1. j \in 1..Len(dict["fields"]) /\ j \in 1..Len(d["fields"])
          /\ d["fields"][j] = dict["fields"][j] /\ dict["fields"][j] \in FieldOf
      BY <2>1, <2>4
    <3>2. Read(dict["fields"], j) = Read(d["fields"], j)
      BY <3>1 DEF Read
    <3>3. CASE j = i
      BY <2>3, <2>4, <2>7, <3>1, <3>2, <3>3, AppendIsPrefixed DEF refs
    <3>4. CASE j # i
      <4>1. raw'["fields"][j].items = dict["fields"][j].items
        BY <2>3, <2>7, <3>1, <3>4
      <4>2. dict["fields"][j].items \in Seq(Item)
        BY <3>1, FieldParts
      <4> QED BY <4>1, <4>2, PrefixOfItself DEF Read
    <3> QED BY <3>3, <3>4
  <2> QED BY <2>3, <2>4, <2>6, <2>7, <2>8, <2>9
<1>2. TypeOK => [Kept]_vars
  BY <1>1
<1> QED BY <1>2, FieldsTyped, PTL DEF UploadKeepsReferences

\* RemoveField takes out the fields of the type, or the first of them, and
\* leaves the others as they were and in their order.
THEOREM RemovalsAreExact == Spec => RemovesExactly
<1> DEFINE Exact ==
      \A s \in Section, type \in Key :
        LET all == {i \in DOMAIN dict[s] : dict[s][i].type = type}
        IN  /\ RemoveField(s, type, TRUE) => RestOf(dict[s], all, dict'[s])
            /\ RemoveField(s, type, FALSE) =>
                 \E first \in all :
                   /\ \A i \in all : first <= i
                   /\ RestOf(dict[s], {first}, dict'[s])
<1>1. ASSUME TypeOK PROVE Exact
  <2> SUFFICES ASSUME NEW s \in Section, NEW type \in Key
               PROVE
        LET all == {i \in DOMAIN dict[s] : dict[s][i].type = type}
        IN  /\ RemoveField(s, type, TRUE) => RestOf(dict[s], all, dict'[s])
            /\ RemoveField(s, type, FALSE) =>
                 \E first \in all :
                   /\ \A i \in all : first <= i
                   /\ RestOf(dict[s], {first}, dict'[s])
    OBVIOUS
  <2> DEFINE all == {i \in DOMAIN dict[s] : dict[s][i].type = type}
  <2>1. dict[s] \in Seq(FieldOf) /\ dict \in Sections
    BY <1>1, SectionsOf DEF TypeOK
  <2>2. all \in SUBSET (1..Len(dict[s])) /\ all \in SUBSET Nat
    BY <2>1
  <2>3. ASSUME NEW some \in BOOLEAN, RemoveField(s, type, some)
        PROVE  /\ all # {}
               /\ dict'[s] = Removed(dict[s], IF some THEN all ELSE {Min(all)})
    BY <2>1, <2>3 DEF RemoveField, Sections
  <2> HIDE DEF all
  <2>4. ASSUME RemoveField(s, type, TRUE) PROVE RestOf(dict[s], all, dict'[s])
    BY <2>1, <2>2, <2>3, <2>4, RemovedIsRest
  <2>5. ASSUME RemoveField(s, type, FALSE)
        PROVE  \E first \in all :
                 /\ \A i \in all : first <= i
                 /\ RestOf(dict[s], {first}, dict'[s])
    <3>1. all # {} /\ dict'[s] = Removed(dict[s], {Min(all)})
      BY <2>3, <2>5
    <3>2. Min(all) \in all /\ \A i \in all : Min(all) <= i
      BY <2>2, <3>1, MinOf
    <3>3. {Min(all)} \in SUBSET (1..Len(dict[s]))
      BY <2>2, <3>2
    <3>4. RestOf(dict[s], {Min(all)}, dict'[s])
      BY <2>1, <3>1, <3>3, RemovedIsRest
    <3> QED BY <3>2, <3>4
  <2> QED BY <2>4, <2>5 DEF all
<1>2. TypeOK => [Exact]_vars
  BY <1>1
<1> QED BY <1>2, FieldsTyped, PTL DEF RemovesExactly


=============================================================================
