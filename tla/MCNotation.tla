----------------------------- MODULE MCNotation -----------------------------
(* Notation for TLC: titles and labels of up to two symbols with every      *)
(* delimiter in them, and a record whose title looks like a uid.            *)
EXTENDS Notation, TLC

MCWord     == {"a", "p", "0", "1", "9"} \cup Selectors
MCNumberOf == ("0" :> 0) @@ ("1" :> 1)

Symbol == {"a"} \cup EscapeChars
Label  == {<<s>> : s \in Symbol} \cup (Symbol \X Symbol)
Title  == {<<>>, <<"a", "/">>, <<"\\">>, <<"U1">>, <<"U2">>}

Plain    == [object |-> FALSE, has |-> {}]
Object   == [object |-> TRUE,  has |-> {"p"}]
Item(s, v) == [section |-> s, name |-> <<"a">>, values |-> v]

SomeItems ==
  <<Item("field", <<Plain, Object>>), Item("custom_field", <<>>), Item("file", <<Plain>>)>>

MCContents ==
  { <<>>,
    SomeItems,
    <<Item("field", <<Object>>), Item("field", <<Plain>>)>>,
    <<Item("custom_field", <<Object, [object |-> TRUE, has |-> {}]>>)>> }

Shared(uid, title, items, copy) ==
  [uid |-> uid, title |-> title, items |-> items, copy |-> copy]

\* One record of any content; two of a title; a record in two folders; titles
\* that are the uid of another record, of the record itself or of none.
MCServices ==
  {{}} \cup {{Shared("U1", <<"a", "/">>, c, 1)} : c \in MCContents} \cup
  { {Shared("U1", <<"a", "/">>, SomeItems, 1), Shared("U2", <<"a", "/">>, <<>>, 1)},
    {Shared("U1", <<"\\">>, SomeItems, 1), Shared("U1", <<"\\">>, SomeItems, 2)},
    {Shared("U1", <<"U2">>, SomeItems, 1), Shared("U2", <<"\\">>, <<>>, 1)},
    {Shared("U1", <<"U1">>, SomeItems, 1)},
    {Shared("U1", <<"U2">>, SomeItems, 1)} }

Index == {<<>>, <<"[", "]">>, <<"[", "0", "]">>, <<"[", "1", "]">>, <<"[", "9", "]">>}

Property == {<<>>, <<"[", "]">>, <<"[", "1", "]">>, <<"[", "p", "]">>}

Asked(records, selectors, names) ==
  {ask \in [record : records, selector : selectors, name : names, index : Index,
            property : Property] :
     ask.index = <<>> => ask.property \in {<<>>, <<"[", "p", "]">>}}

\* Every label with one record, and every record with one label.
MCAsk == Asked({<<"a", "/">>}, FullSelectors, Label)
           \cup Asked(Title, Selectors, {<<"a">>})
=============================================================================
