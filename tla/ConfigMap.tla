------------------------------ MODULE ConfigMap ------------------------------
(***************************************************************************)
(* The configuration as a map, and the calls of IKeyValueStorage that      *)
(* read and change it.                                                     *)
(***************************************************************************)
CONSTANTS Key, Value, None

\* None stands for a key that is not there.
Map      == [Key -> Value \cup {None}]
EmptyMap == [k \in Key |-> None]

Change == [kind : {"set"}, key : Key, value : Value]
          \cup [kind : {"delete"}, key : Key] \cup [kind : {"deleteAll"}]
Get    == [kind |-> "get"]

\* Broken variant: Set stores the key in the place of the value.
AppliedKeyForValue(o, m) ==
  CASE o.kind = "get"       -> m
    [] o.kind = "set"       -> [m EXCEPT ![o.key] = o.key]
    [] o.kind = "delete"    -> [m EXCEPT ![o.key] = None]
    [] o.kind = "deleteAll" -> EmptyMap

\* The map after a call.
Applied(o, m) ==
  CASE o.kind = "get"       -> m
    [] o.kind = "set"       -> [m EXCEPT ![o.key] = o.value]
    [] o.kind = "delete"    -> [m EXCEPT ![o.key] = None]
    [] o.kind = "deleteAll" -> EmptyMap

=============================================================================
