------------------------------- MODULE Records -------------------------------
(***************************************************************************)
(* One record of the service and the Record objects a program has of it    *)
(* (core/dtos.go, core/core.go): got by GetSecrets, or from the response   *)
(* cache when the service answers with an error, edited in memory, saved,  *)
(* and given files, while other users change the record and requests are   *)
(* late, lost or refused.                                                  *)
(*                                                                         *)
(* Data abstraction.  What a record holds is the set of changes that went  *)
(* into it; the removal of a field is a change like another, and a file    *)
(* stands for its reference in the fileRef field.  RecordDict and RawJson  *)
(* are two such sets, equal when the one is the other's JSON.              *)
(***************************************************************************)
EXTENDS Naturals

CONSTANTS
  Handle,       \* Record objects of the program, several for one record
  Edit,         \* changes of fields, title and notes
  File,         \* files to attach
  None,         \* no object, no answer
  Cache,        \* whether a response cache is set
  MaxRevision   \* bound on the changes the service takes

ASSUME RecordAssumption ==
  /\ Edit \cap File = {} /\ None \notin File
  /\ Cache \in BOOLEAN
  /\ MaxRevision \in Nat

VARIABLES
  stored,    \* the record of the service: [data, revision]
  attached,  \* the files it has
  answer,    \* the answer under way to each object's GetSecrets
  cached,    \* the response in the cache
  handle,    \* the Record objects: [dict, raw, revision]
  wire,      \* requests under way to the service
  made       \* changes made anywhere so far

vars == <<stored, attached, answer, cached, handle, wire, made>>

Change  == Edit \cup File
Version == [data : SUBSET Change, revision : Nat]
Record  == [dict : SUBSET Change, raw : SUBSET Change, revision : Nat]
UpdatePayload     == [data : SUBSET Change, revision : Nat, file : {None}]
\* The revision is not in the payload: it is kept here to tell what a request
\* was based on.
FileUploadPayload == [data : SUBSET Change, revision : Nat, file : File]

Init ==
  /\ stored = [data |-> {}, revision |-> 0]
  /\ attached = {}
  /\ answer = [h \in Handle |-> None]
  /\ cached = None
  /\ handle = [h \in Handle |-> None]
  /\ wire = {} /\ made = {}

-----------------------------------------------------------------------------
(* GetSecrets: the service answers, the answer arrives, in any order        *)

AnswerGet(h) ==
  /\ answer[h] = None
  /\ answer' = [answer EXCEPT ![h] = stored]
  /\ UNCHANGED <<stored, attached, cached, handle, wire, made>>

\* Broken variant: the parsed record is left out.
RawOnly(v) == [dict |-> {}, raw |-> v.data, revision |-> v.revision]

NewRecordFromJson(v) ==
  [dict |-> v.data, raw |-> v.data, revision |-> v.revision]

ReceiveSecrets(h) ==
  /\ answer[h] # None
  /\ handle' = [handle EXCEPT ![h] = NewRecordFromJson(answer[h])]
  /\ cached' = IF Cache THEN answer[h] ELSE cached
  /\ answer' = [answer EXCEPT ![h] = None]
  /\ UNCHANGED <<stored, attached, wire, made>>

\* The service answers with an error, and there is an earlier answer.
CachedSecrets(h) ==
  /\ answer[h] = None /\ cached # None
  /\ handle' = [handle EXCEPT ![h] = NewRecordFromJson(cached)]
  /\ UNCHANGED <<stored, attached, answer, cached, wire, made>>

\* The call fails, cache or not.
AnswerLost(h) ==
  /\ answer[h] # None
  /\ answer' = [answer EXCEPT ![h] = None]
  /\ UNCHANGED <<stored, attached, cached, handle, wire, made>>

-----------------------------------------------------------------------------
(* Changes of a Record object                                               *)

\* SetPassword, SetTitle, SetNotes, SetFieldValueSingle, SetStandardFieldValue,
\* SetCustomFieldValue, AddCustomField: the dictionary, then update().
SetValue(h, e) ==
  LET dict == handle[h].dict \cup {e}
  IN  /\ handle[h] # None /\ e \notin made
      /\ handle' = [handle EXCEPT ![h].dict = dict, ![h].raw = dict]
      /\ made' = made \cup {e}
      /\ UNCHANGED <<stored, attached, answer, cached, wire>>

\* InsertField, UpdateField, RemoveField: the dictionary alone.
ChangeField(h, e) ==
  /\ handle[h] # None /\ e \notin made
  /\ handle' = [handle EXCEPT ![h].dict = @ \cup {e}]
  /\ made' = made \cup {e}
  /\ UNCHANGED <<stored, attached, answer, cached, wire>>

-----------------------------------------------------------------------------
(* Save and UploadFile: the answer changes nothing in the client            *)

PrepareUpdate(h) ==
  [data |-> handle[h].raw, revision |-> handle[h].revision, file |-> None]

\* Broken variant: the object counts its revision up, whatever the answer.
SaveAndCount(h) ==
  /\ handle[h] # None
  /\ wire' = wire \cup {PrepareUpdate(h)}
  /\ handle' = [handle EXCEPT ![h].revision = @ + 1]
  /\ UNCHANGED <<stored, attached, answer, cached, made>>

Save(h) ==
  /\ handle[h] # None
  /\ wire' = wire \cup {PrepareUpdate(h)}
  /\ UNCHANGED <<stored, attached, answer, cached, handle, made>>

\* The reference is in the object before anything is sent, and stays there.
UploadFile(h, f) ==
  LET dict == handle[h].dict \cup {f}
  IN  /\ handle[h] # None /\ f \notin made
      /\ handle' = [handle EXCEPT ![h].dict = dict, ![h].raw = dict]
      /\ wire' = wire \cup
           {[data |-> dict, revision |-> handle[h].revision, file |-> f]}
      /\ made' = made \cup {f}
      /\ UNCHANGED <<stored, attached, answer, cached>>

-----------------------------------------------------------------------------
(* The service (external): an update must carry the revision it is of, a    *)
(* file upload carries none                                                 *)

Stores(data) ==
  /\ stored.revision < MaxRevision
  /\ stored' = [data |-> data, revision |-> stored.revision + 1]

TakeUpdate(m) ==
  /\ m.file = None
  /\ m.revision = stored.revision
  /\ Stores(m.data)
  /\ wire' = wire \ {m}
  /\ UNCHANGED <<attached, answer, cached, handle, made>>

TakeFile(m) ==
  /\ m.file # None
  /\ Stores(m.data)
  /\ attached' = attached \cup {m.file}
  /\ wire' = wire \ {m}
  /\ UNCHANGED <<answer, cached, handle, made>>

\* Refused, or lost on the way.
Drop(m) ==
  /\ wire' = wire \ {m}
  /\ UNCHANGED <<stored, attached, answer, cached, handle, made>>

OtherSaves(e) ==
  /\ e \notin made
  /\ Stores(stored.data \cup {e})
  /\ made' = made \cup {e}
  /\ UNCHANGED <<attached, answer, cached, handle, wire>>

-----------------------------------------------------------------------------

Next ==
  \/ \E h \in Handle :
       \/ AnswerGet(h) \/ ReceiveSecrets(h) \/ CachedSecrets(h) \/ AnswerLost(h)
       \/ Save(h)
       \/ \E e \in Edit : SetValue(h, e) \/ ChangeField(h, e)
       \/ \E f \in File : UploadFile(h, f)
  \/ \E m \in wire : TakeUpdate(m) \/ TakeFile(m) \/ Drop(m)
  \/ \E e \in Edit : OtherSaves(e)

Spec == Init /\ [][Next]_vars

-----------------------------------------------------------------------------
(* Properties *)

\* Every variable has its type, and what a save would send is in the object.
TypeOK ==
  /\ stored \in Version /\ attached \subseteq File
  /\ answer \in [Handle -> Version \cup {None}]
  /\ cached \in Version \cup {None}
  /\ handle \in [Handle -> Record \cup {None}]
  /\ \A h \in Handle : handle[h] # None => handle[h].raw \subseteq handle[h].dict
  /\ wire \subseteq UpdatePayload \cup FileUploadPayload
  /\ made \subseteq Change

\* No interleaving of objects, old answers, cached answers and late requests
\* makes a save take away a change it does not know of; only a file upload
\* that is based on an older record does.
OnlyStaleUploadsLose ==
  [][stored.data \subseteq stored'.data
       \/ \E m \in wire \ wire' : m.file # None /\ m.revision < stored.revision]_vars

\* A save sends what the program made of the record ("Save updated secret
\* values", updateSecret).
SaveSendsTheRecord ==
  [][\A h \in Handle : Save(h) => handle[h].raw = handle[h].dict]_vars

=============================================================================
