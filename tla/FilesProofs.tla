---------------------------- MODULE FilesProofs -----------------------------
(***************************************************************************)
(* What Records and Files promise for any number of objects, edits, files  *)
(* and requests, with and without a cache: the types; only a file upload   *)
(* based on an older record takes changes away; a reported upload is       *)
(* complete; the record refers to nothing but attached files and failed    *)
(* uploads.  Files is Records with more variables: what is proved of       *)
(* Records holds of it.                                                    *)
(***************************************************************************)
EXTENDS Files, TLAPS

-----------------------------------------------------------------------------
(* Records                                                                  *)

\* What a copy of the record with its revision knows of the record.
Knows(data, revision) ==
  /\ revision <= stored.revision
  /\ revision = stored.revision => stored.data \subseteq data

\* Copies of the record are of the past or hold all the record holds.
CopiesKnow ==
  /\ \A h \in Handle :
       /\ answer[h] # None => Knows(answer[h].data, answer[h].revision)
       /\ handle[h] # None => Knows(handle[h].raw, handle[h].revision)
  /\ cached # None => Knows(cached.data, cached.revision)
  /\ \A m \in wire : Knows(m.data, m.revision)

IInv == TypeOK /\ CopiesKnow

\* The service taking a change leaves every copy behind.
LEMMA StoresStep ==
  ASSUME TypeOK, NEW data \in SUBSET Change, Stores(data)
  PROVE  /\ stored' \in Version
         /\ \A r \in Nat : \A d : r <= stored.revision => Knows(d, r)'
<1>1. /\ stored.revision \in Nat
      /\ stored' = [data |-> data, revision |-> stored.revision + 1]
  BY DEF TypeOK, Version, Stores
<1> QED BY <1>1 DEF Version, Knows

\* A request taken by the service.
LEMMA TakeStep ==
  ASSUME IInv, NEW m \in wire, TakeUpdate(m) \/ TakeFile(m)
  PROVE  /\ IInv'
         /\ stored.data \subseteq stored'.data \/ (m.file # None /\ m.revision < stored.revision)
<1>1. /\ m.data \in SUBSET Change /\ m.revision \in Nat /\ Knows(m.data, m.revision)
      /\ m.file # None => m.file \in File
  BY DEF IInv, TypeOK, CopiesKnow, UpdatePayload, FileUploadPayload
<1>2. /\ Stores(m.data) /\ wire' = wire \ {m} /\ attached' \subseteq File
      /\ UNCHANGED <<answer, cached, handle, made>>
  BY <1>1 DEF TakeUpdate, TakeFile, IInv, TypeOK
<1>3. /\ stored' \in Version
      /\ \A r \in Nat : \A d : r <= stored.revision => Knows(d, r)'
  BY <1>1, <1>2, StoresStep DEF IInv
<1>4. TypeOK'
  BY <1>2, <1>3 DEF IInv, TypeOK
<1>5. ASSUME NEW h \in Handle
      PROVE  /\ answer'[h] # None => Knows(answer[h].data, answer[h].revision)'
             /\ handle'[h] # None => Knows(handle[h].raw, handle[h].revision)'
  BY <1>2, <1>3 DEF IInv, TypeOK, CopiesKnow, Knows, Version, Record
<1>6. cached' # None => Knows(cached.data, cached.revision)'
  BY <1>2, <1>3 DEF IInv, TypeOK, CopiesKnow, Knows, Version
<1>7. \A x \in wire' : Knows(x.data, x.revision)'
  BY <1>2, <1>3 DEF IInv, TypeOK, CopiesKnow, Knows, UpdatePayload, FileUploadPayload
<1>8. CopiesKnow'
  BY <1>5, <1>6, <1>7 DEF CopiesKnow
<1>9. stored.data \subseteq stored'.data \/ (m.file # None /\ m.revision < stored.revision)
  <2>1. stored'.data = m.data /\ stored.revision \in Nat
    BY <1>2 DEF Stores, IInv, TypeOK, Version
  <2>2. CASE m.revision = stored.revision
    BY <1>1, <2>1, <2>2 DEF Knows
  <2>3. CASE m.revision # stored.revision
    BY <1>1, <2>1, <2>3 DEF Knows, TakeUpdate, TakeFile
  <2> QED BY <2>2, <2>3
<1> QED BY <1>4, <1>8, <1>9 DEF IInv

\* What the program does to its objects, and to the requests it sends.
LEMMA ClientStep ==
  ASSUME IInv, NEW h \in Handle,
         \/ AnswerGet(h) \/ ReceiveSecrets(h) \/ CachedSecrets(h) \/ AnswerLost(h)
         \/ Save(h)
         \/ \E e \in Edit : SetValue(h, e) \/ ChangeField(h, e)
         \/ \E f \in File : UploadFile(h, f)
  PROVE  IInv' /\ UNCHANGED stored
<1> USE RecordAssumption
<1>1. CASE AnswerGet(h)
  <2>1. Knows(stored.data, stored.revision)
    BY DEF Knows, IInv, TypeOK, Version
  <2> QED BY <1>1, <2>1 DEF AnswerGet, IInv, TypeOK, CopiesKnow, Knows
<1>2. ASSUME NEW v \in Version, Knows(v.data, v.revision),
             handle' = [handle EXCEPT ![h] = NewRecordFromJson(v)]
      PROVE  /\ handle' \in [Handle -> Record \cup {None}]
             /\ \A g \in Handle : handle'[g] # None =>
                  handle'[g].raw \subseteq handle'[g].dict
                    /\ Knows(handle'[g].raw, handle'[g].revision)
  <2>1. NewRecordFromJson(v) \in Record
    BY <1>2 DEF NewRecordFromJson, Version, Record
  <2> QED BY <1>2, <2>1 DEF IInv, TypeOK, CopiesKnow, NewRecordFromJson
<1>3. CASE ReceiveSecrets(h)
  <2>1. /\ answer[h] \in Version /\ Knows(answer[h].data, answer[h].revision)
        /\ handle' = [handle EXCEPT ![h] = NewRecordFromJson(answer[h])]
    BY <1>3 DEF ReceiveSecrets, IInv, TypeOK, CopiesKnow
  <2>2. /\ handle' \in [Handle -> Record \cup {None}]
        /\ \A g \in Handle : handle'[g] # None =>
             handle'[g].raw \subseteq handle'[g].dict
               /\ Knows(handle'[g].raw, handle'[g].revision)
    BY <1>2, <2>1
  <2>3. UNCHANGED <<stored, attached, wire, made>> /\ cached' \in {cached, answer[h]}
          /\ answer' = [answer EXCEPT ![h] = None]
    BY <1>3 DEF ReceiveSecrets
  <2>4. TypeOK'
    BY <2>1, <2>2, <2>3 DEF IInv, TypeOK
  <2>5. CopiesKnow'
    BY <2>1, <2>2, <2>3 DEF IInv, TypeOK, CopiesKnow, Knows
  <2> QED BY <2>3, <2>4, <2>5 DEF IInv
<1>4. CASE CachedSecrets(h)
  <2>1. /\ cached \in Version /\ Knows(cached.data, cached.revision)
        /\ handle' = [handle EXCEPT ![h] = NewRecordFromJson(cached)]
    BY <1>4 DEF CachedSecrets, IInv, TypeOK, CopiesKnow
  <2>2. /\ handle' \in [Handle -> Record \cup {None}]
        /\ \A g \in Handle : handle'[g] # None =>
             handle'[g].raw \subseteq handle'[g].dict
               /\ Knows(handle'[g].raw, handle'[g].revision)
    BY <1>2, <2>1
  <2>3. UNCHANGED <<stored, attached, answer, cached, wire, made>>
    BY <1>4 DEF CachedSecrets
  <2>4. TypeOK'
    BY <2>2, <2>3 DEF IInv, TypeOK
  <2>5. CopiesKnow'
    BY <2>2, <2>3 DEF IInv, TypeOK, CopiesKnow, Knows
  <2> QED BY <2>3, <2>4, <2>5 DEF IInv
<1>9. CASE AnswerLost(h)
  BY <1>9 DEF AnswerLost, IInv, TypeOK, CopiesKnow, Knows
<1>5. CASE Save(h)
  <2>1. /\ handle[h] \in Record /\ Knows(handle[h].raw, handle[h].revision)
        /\ wire' = wire \cup {PrepareUpdate(h)}
        /\ UNCHANGED <<stored, attached, answer, cached, handle, made>>
    BY <1>5 DEF Save, IInv, TypeOK, CopiesKnow
  <2>2. PrepareUpdate(h) \in UpdatePayload
    BY <2>1 DEF PrepareUpdate, UpdatePayload, Record
  <2>3. TypeOK'
    BY <2>1, <2>2 DEF IInv, TypeOK
  <2>4. CopiesKnow'
    BY <2>1 DEF IInv, TypeOK, CopiesKnow, Knows, PrepareUpdate
  <2> QED BY <2>1, <2>3, <2>4 DEF IInv
<1>6. ASSUME NEW c \in Change, NEW raw, handle[h] # None,
             raw \in {handle[h].raw, handle[h].dict \cup {c}},
             handle' = [handle EXCEPT ![h].dict = handle[h].dict \cup {c}, ![h].raw = raw]
      PROVE  /\ handle' \in [Handle -> Record \cup {None}]
             /\ \A g \in Handle : handle'[g] # None =>
                  handle'[g].raw \subseteq handle'[g].dict
                    /\ Knows(handle'[g].raw, handle'[g].revision)
             /\ Knows(handle[h].dict \cup {c}, handle[h].revision)
  <2>1. /\ handle[h] \in Record /\ handle[h].raw \subseteq handle[h].dict
        /\ Knows(handle[h].raw, handle[h].revision)
    BY <1>6 DEF IInv, TypeOK, CopiesKnow
  <2>2. handle'[h] = [dict |-> handle[h].dict \cup {c}, raw |-> raw,
                      revision |-> handle[h].revision]
    BY <1>6, <2>1 DEF Record, IInv, TypeOK
  <2>3. handle'[h] \in Record /\ raw \subseteq handle[h].dict \cup {c}
    <3>1. /\ handle[h].dict \in SUBSET Change /\ handle[h].raw \in SUBSET Change
          /\ handle[h].revision \in Nat
      BY <2>1 DEF Record
    <3>2. raw \in SUBSET Change /\ raw \subseteq handle[h].dict \cup {c}
      BY <1>6, <2>1, <3>1
    <3>3. handle[h].dict \cup {c} \in SUBSET Change
      BY <3>1
    <3> QED BY <2>2, <3>1, <3>2, <3>3 DEF Record
  <2>4. Knows(raw, handle[h].revision) /\ Knows(handle[h].dict \cup {c}, handle[h].revision)
    BY <1>6, <2>1 DEF Knows
  <2>5. /\ handle' \in [Handle -> Record \cup {None}]
        /\ \A g \in Handle \ {h} : handle'[g] = handle[g]
    BY <1>6, <2>3 DEF IInv, TypeOK
  <2>6. ASSUME NEW g \in Handle, handle'[g] # None
        PROVE  /\ handle'[g].raw \subseteq handle'[g].dict
               /\ Knows(handle'[g].raw, handle'[g].revision)
    <3>1. CASE g = h
      BY <2>2, <2>3, <2>4, <3>1
    <3>2. CASE g # h
      BY <2>5, <2>6, <3>2 DEF IInv, TypeOK, CopiesKnow
    <3> QED BY <3>1, <3>2
  <2> QED BY <2>4, <2>5, <2>6
<1>7. ASSUME NEW e \in Edit, SetValue(h, e) \/ ChangeField(h, e)
      PROVE  IInv' /\ UNCHANGED stored
  <2>1. /\ UNCHANGED <<stored, attached, answer, cached, wire>>
        /\ handle[h] # None /\ made' = made \cup {e} /\ e \in Change
    BY <1>7 DEF SetValue, ChangeField, Change
  <2>2. \E raw \in {handle[h].raw, handle[h].dict \cup {e}} :
          handle' = [handle EXCEPT ![h].dict = handle[h].dict \cup {e}, ![h].raw = raw]
    <3>1. CASE SetValue(h, e)
      BY <3>1 DEF SetValue
    <3>2. CASE ChangeField(h, e)
      <4>1. handle[h] \in Record
        BY <2>1 DEF IInv, TypeOK
      <4>2. handle' = [handle EXCEPT ![h].dict = handle[h].dict \cup {e},
                                     ![h].raw = handle[h].raw]
        BY <3>2, <4>1 DEF ChangeField, Record, IInv, TypeOK
      <4> QED BY <4>2
    <3> QED BY <1>7, <3>1, <3>2
  <2>3. /\ handle' \in [Handle -> Record \cup {None}]
        /\ \A g \in Handle : handle'[g] # None =>
             handle'[g].raw \subseteq handle'[g].dict
               /\ Knows(handle'[g].raw, handle'[g].revision)
    BY <1>6, <2>1, <2>2
  <2>4. TypeOK'
    BY <2>1, <2>3 DEF IInv, TypeOK
  <2>5. CopiesKnow'
    BY <2>1, <2>3 DEF IInv, CopiesKnow, Knows
  <2> QED BY <2>1, <2>4, <2>5 DEF IInv
<1>8. ASSUME NEW f \in File, UploadFile(h, f)
      PROVE  IInv' /\ UNCHANGED stored
  <2> DEFINE dict == handle[h].dict \cup {f}
             m == [data |-> dict, revision |-> handle[h].revision, file |-> f]
  <2>1. /\ UNCHANGED <<stored, attached, answer, cached>>
        /\ handle[h] # None /\ made' = made \cup {f} /\ f \in Change
        /\ wire' = wire \cup {m}
        /\ handle' = [handle EXCEPT ![h].dict = dict, ![h].raw = dict]
    BY <1>8 DEF UploadFile, Change
  <2>2. /\ handle' \in [Handle -> Record \cup {None}]
        /\ \A g \in Handle : handle'[g] # None =>
             handle'[g].raw \subseteq handle'[g].dict
               /\ Knows(handle'[g].raw, handle'[g].revision)
        /\ Knows(dict, handle[h].revision)
    BY <1>6, <2>1
  <2>3. m \in FileUploadPayload
    <3>1. handle[h] \in Record
      BY <2>1 DEF IInv, TypeOK
    <3> QED BY <2>1, <3>1 DEF Record, FileUploadPayload
  <2>4. TypeOK'
    BY <2>1, <2>2, <2>3 DEF IInv, TypeOK
  <2>5. CopiesKnow'
    BY <2>1, <2>2 DEF IInv, CopiesKnow, Knows
  <2> QED BY <2>1, <2>4, <2>5 DEF IInv
<1> QED BY <1>1, <1>3, <1>4, <1>5, <1>7, <1>8, <1>9

-----------------------------------------------------------------------------
(* The theorems *)

\* A step keeps the invariant, and takes changes away only by a stale upload.
LEMMA Step ==
  ASSUME IInv, [Next]_vars
  PROVE  /\ IInv'
         /\ \/ stored.data \subseteq stored'.data
            \/ \E m \in wire \ wire' : m.file # None /\ m.revision < stored.revision
<1>1. ASSUME NEW m \in wire, TakeUpdate(m) \/ TakeFile(m)
      PROVE  /\ IInv'
             /\ \/ stored.data \subseteq stored'.data
                \/ m \in wire \ wire' /\ m.file # None /\ m.revision < stored.revision
  BY <1>1, TakeStep DEF TakeUpdate, TakeFile
<1>2. ASSUME NEW m \in wire, Drop(m)
      PROVE  IInv' /\ UNCHANGED stored
  BY <1>2 DEF Drop, IInv, TypeOK, CopiesKnow, Knows
<1>3. ASSUME NEW e \in Edit, OtherSaves(e)
      PROVE  IInv' /\ stored.data \subseteq stored'.data
  <2>1. /\ Stores(stored.data \cup {e}) /\ made' = made \cup {e}
        /\ UNCHANGED <<attached, answer, cached, handle, wire>>
        /\ stored.data \cup {e} \in SUBSET Change /\ e \in Change
    BY <1>3 DEF OtherSaves, IInv, TypeOK, Version, Change
  <2>2. /\ stored' \in Version
        /\ \A r \in Nat : \A d : r <= stored.revision => Knows(d, r)'
    BY <2>1, StoresStep DEF IInv
  <2>3. TypeOK'
    BY <2>1, <2>2 DEF IInv, TypeOK
  <2>4. ASSUME NEW h \in Handle
        PROVE  /\ answer'[h] # None => Knows(answer[h].data, answer[h].revision)'
               /\ handle'[h] # None => Knows(handle[h].raw, handle[h].revision)'
    BY <2>1, <2>2 DEF IInv, TypeOK, CopiesKnow, Knows, Version, Record
  <2>5. cached' # None => Knows(cached.data, cached.revision)'
    BY <2>1, <2>2 DEF IInv, TypeOK, CopiesKnow, Knows, Version
  <2>6. \A x \in wire' : Knows(x.data, x.revision)'
    BY <2>1, <2>2 DEF IInv, TypeOK, CopiesKnow, Knows, UpdatePayload, FileUploadPayload
  <2>7. stored.data \subseteq stored'.data
    BY <2>1 DEF Stores
  <2> QED BY <2>3, <2>4, <2>5, <2>6, <2>7 DEF IInv, CopiesKnow
<1>4. ASSUME UNCHANGED vars
      PROVE  IInv' /\ UNCHANGED stored
  BY <1>4 DEF vars, IInv, TypeOK, CopiesKnow, Knows
<1> QED BY <1>1, <1>2, <1>3, <1>4, ClientStep DEF Next

LEMMA Inductive == Spec => []IInv
<1>1. Init => IInv
  BY RecordAssumption DEF Init, IInv, TypeOK, CopiesKnow, Version
<1>2. IInv /\ [Next]_vars => IInv'
  BY Step
<1> QED BY <1>1, <1>2, PTL DEF Spec

\* Every variable keeps its type.
THEOREM TypeCorrect == Spec => []TypeOK
<1>1. IInv => TypeOK
  BY DEF IInv
<1> QED BY <1>1, Inductive, PTL

\* A save never takes a change away that it does not know of.
THEOREM SavesLoseNothing == Spec => OnlyStaleUploadsLose
<1>1. IInv /\ [Next]_vars =>
        [stored.data \subseteq stored'.data
           \/ \E m \in wire \ wire' : m.file # None /\ m.revision < stored.revision]_vars
  BY Step
<1> QED BY <1>1, Inductive, PTL DEF Spec, OnlyStaleUploadsLose

-----------------------------------------------------------------------------
(* Files                                                                    *)

\* Every step of an upload is a step of Records or leaves the record alone.
LEMMA StepOfRecords == ASSUME FilesNext PROVE [Next]_vars
BY DEF FilesNext, StartUpload, ReceiveAddress, PostContent, Uploaded,
       UploadFails, ObjectCall, Elsewhere, Next

\* Files implements Records (the record, its objects and the requests).
THEOREM FilesAreRecords == FilesSpec => Spec
<1>1. FilesInit => Init
  BY DEF FilesInit
<1>2. [FilesNext]_<<vars, files>> => [Next]_vars
  BY StepOfRecords DEF vars, files
<1> QED BY <1>1, <1>2, PTL DEF FilesSpec, Spec

\* Only a stale upload loses changes, with the two posts of an upload too.
THEOREM UploadsLoseNothingElse == FilesSpec => OnlyStaleUploadsLose
BY FilesAreRecords, SavesLoseNothing, PTL

-----------------------------------------------------------------------------

\* The files a copy of the record refers to.
Resolved(data, sent) == data \cap File \subseteq attached \cup failed \cup sent

\* The reference an object has before its file is attached.
InCall(h) == IF Free(h) THEN {} ELSE {uploading[h].file}

ObjectsResolve ==
  \A h \in Handle :
    /\ handle[h] # None => Resolved(handle[h].dict, InCall(h))
    /\ answer[h] # None => Resolved(answer[h].data, {})

RequestsResolve ==
  \A m \in wire : Resolved(m.data, {m.file} \cap File)

Phases ==
  \A h \in Handle : ~Free(h) =>
    /\ uploading[h].phase \in {"content", "stored"} => uploading[h].file \in attached
    /\ uploading[h].phase = "stored" => uploading[h].file \in content

FInv ==
  /\ FilesTypeOK
  /\ ObjectsResolve /\ RequestsResolve
  /\ cached # None => Resolved(cached.data, {})
  /\ ReferencesResolve
  /\ Phases /\ UploadsComplete

\* The record as it was, with at least as much attached and failed.
LEMMA Unchanged ==
  ASSUME FInv, UNCHANGED vars, failed \subseteq failed'
  PROVE  /\ TypeOK'
         /\ \A h \in Handle :
              /\ answer'[h] # None => Resolved(answer[h].data, {})'
              /\ handle[h] # None => \A sent : Resolved(handle[h].dict, sent)
                                              => Resolved(handle[h].dict, sent)'
         /\ RequestsResolve'
         /\ cached' # None => Resolved(cached.data, {})'
         /\ ReferencesResolve'
<1>1. TypeOK'
  BY DEF FInv, FilesTypeOK, TypeOK, vars
<1>2. \A data, sent : Resolved(data, sent) => Resolved(data, sent)'
  BY DEF vars, Resolved
<1>3. RequestsResolve'
  BY <1>2 DEF FInv, RequestsResolve, vars
<1>4. ReferencesResolve'
  BY DEF FInv, ReferencesResolve, vars
<1> QED BY <1>1, <1>2, <1>3, <1>4 DEF FInv, ObjectsResolve, vars

\* The two posts of an upload.
LEMMA PostStep ==
  ASSUME FInv, NEW h \in Handle, ReceiveAddress(h) \/ PostContent(h)
  PROVE  FInv'
<1> USE UploadAssumption
<1> DEFINE f == uploading[h].file
<1>1. /\ ~Free(h) /\ uploading[h] \in Upload /\ f \in File
      /\ UNCHANGED vars /\ failed' = failed /\ content \subseteq content'
      /\ content' \subseteq File
  BY DEF ReceiveAddress, PostContent, InPhase, Free, FInv, FilesTypeOK, Upload
<1>2. PICK phase \in {"content", "stored"} :
        /\ uploading' = [uploading EXCEPT ![h].phase = phase]
        /\ f \in attached
        /\ phase = "stored" => f \in content'
  BY <1>1 DEF ReceiveAddress, PostContent, Enters, InPhase, FInv, Phases
<1>3. /\ uploading'[h] = [file |-> f, phase |-> phase]
      /\ uploading'[h] \in Upload /\ uploading'[h] # None
      /\ \A g \in Handle \ {h} : uploading'[g] = uploading[g]
      /\ uploading' \in [Handle -> Upload \cup {None}]
  BY <1>1, <1>2 DEF FInv, FilesTypeOK, Upload
<1>4. \A g \in Handle : Free(g)' = Free(g) /\ (~Free(g) => uploading'[g].file = uploading[g].file)
  BY <1>1, <1>3 DEF Free
<1>5. FilesTypeOK'
  BY <1>1, <1>3, Unchanged DEF FilesTypeOK, FInv
<1>6. ObjectsResolve'
  <2>1. \A g \in Handle : InCall(g)' = InCall(g)
    BY <1>4 DEF InCall
  <2> QED BY <1>1, <2>1, Unchanged DEF ObjectsResolve, FInv, vars
<1>7. Phases'
  <2>1. ASSUME NEW g \in Handle, ~Free(g)'
        PROVE  /\ uploading'[g].phase \in {"content", "stored"}
                    => uploading'[g].file \in attached'
               /\ uploading'[g].phase = "stored" => uploading'[g].file \in content'
    <3>1. CASE g = h
      BY <1>1, <1>2, <1>3, <3>1 DEF vars
    <3>2. CASE g # h
      BY <1>1, <1>3, <1>4, <2>1, <3>2 DEF Phases, FInv, vars
    <3> QED BY <3>1, <3>2
  <2> QED BY <2>1 DEF Phases
<1>8. UnderWay' = UnderWay
  BY <1>4 DEF UnderWay
<1>9. UploadsComplete'
  BY <1>1, <1>8 DEF UploadsComplete, FInv, vars
<1> QED BY <1>1, <1>5, <1>6, <1>7, <1>9, Unchanged DEF FInv

\* The end of an upload, good or bad.
LEMMA ReturnStep ==
  ASSUME FInv, NEW h \in Handle, Uploaded(h) \/ UploadFails(h)
  PROVE  FInv'
<1> DEFINE f == uploading[h].file
<1>1. /\ ~Free(h) /\ uploading[h] \in Upload /\ f \in File
      /\ UNCHANGED vars /\ content' = content
      /\ failed' \in {failed, failed \cup {f}}
      /\ f \in failed' \/ f \in attached \cap content
  BY DEF Uploaded, UploadFails, InPhase, Free, FInv, FilesTypeOK, Upload, Phases
<1>2. /\ uploading' = [uploading EXCEPT ![h] = None]
      /\ uploading'[h] = None
      /\ \A g \in Handle \ {h} : uploading'[g] = uploading[g]
      /\ uploading' \in [Handle -> Upload \cup {None}]
  BY DEF Uploaded, UploadFails, Returns, FInv, FilesTypeOK
<1>3. Free(h)' /\ \A g \in Handle \ {h} : Free(g)' = Free(g)
  BY <1>2 DEF Free
<1>4. FilesTypeOK'
  BY <1>1, <1>2, Unchanged DEF FilesTypeOK, FInv
<1>5. ObjectsResolve'
  <2>1. ASSUME NEW g \in Handle, handle'[g] # None
        PROVE  Resolved(handle[g].dict, InCall(g))'
    <3>1. Resolved(handle[g].dict, InCall(g))
      BY <1>1, <2>1 DEF FInv, ObjectsResolve, vars
    <3>2. InCall(g)' = InCall(g) \/ (InCall(g) = {f} /\ InCall(g)' = {})
      <4>1. CASE g = h
        BY <1>1, <1>3, <4>1 DEF InCall
      <4>2. CASE g # h
        BY <1>2, <2>1, <4>2 DEF InCall, Free
      <4> QED BY <4>1, <4>2
    <3> QED BY <1>1, <3>1, <3>2 DEF Resolved, vars
  <2> QED BY <1>1, <2>1, Unchanged DEF ObjectsResolve
<1>6. Phases'
  BY <1>1, <1>2, <1>3 DEF Phases, FInv, vars
<1>7. UnderWay \subseteq UnderWay' \cup {f}
  BY <1>2, <1>3 DEF UnderWay
<1>8. UploadsComplete'
  BY <1>1, <1>7 DEF UploadsComplete, FInv, vars
<1> QED BY <1>1, <1>4, <1>5, <1>6, <1>8, Unchanged DEF FInv

\* The reference goes into the object, and the first post on its way.
LEMMA StartStep ==
  ASSUME FInv, IInv, NEW h \in Handle, NEW f \in File, StartUpload(h, f)
  PROVE  FInv'
<1> USE UploadAssumption, RecordAssumption
<1>1. /\ Free(h) /\ handle[h] # None /\ f \notin made
      /\ handle[h] \in Record
      /\ made' = made \cup {f} /\ content' = content /\ failed' = failed
      /\ UNCHANGED <<stored, attached, answer, cached>>
  BY DEF StartUpload, UploadFile, FInv, FilesTypeOK, TypeOK
<1> DEFINE dict == handle[h].dict \cup {f}
           m == [data |-> dict, revision |-> handle[h].revision, file |-> f]
<1>2. /\ handle' = [handle EXCEPT ![h].dict = dict, ![h].raw = dict]
      /\ wire' = wire \cup {m}
      /\ uploading' = [uploading EXCEPT ![h] = [file |-> f, phase |-> "metadata"]]
  BY DEF StartUpload, UploadFile
<1>3. TypeOK'
  BY ClientStep DEF StartUpload, IInv
<1>4. /\ uploading'[h] = [file |-> f, phase |-> "metadata"]
      /\ uploading'[h] \in Upload /\ uploading'[h] # None
      /\ \A g \in Handle \ {h} : uploading'[g] = uploading[g]
      /\ uploading' \in [Handle -> Upload \cup {None}]
  BY <1>2 DEF FInv, FilesTypeOK, Upload
<1>5. /\ handle'[h].dict = dict
      /\ \A g \in Handle \ {h} : handle'[g] = handle[g]
  BY <1>1, <1>2 DEF FInv, FilesTypeOK, TypeOK, Record
<1>6. Resolved(dict, {f}) /\ \A g \in Handle \ {h} : InCall(g)' = InCall(g)
  BY <1>1, <1>4 DEF FInv, ObjectsResolve, Resolved, InCall, Free
<1>7. InCall(h)' = {f}
  BY <1>4 DEF InCall, Free
<1>8. FilesTypeOK'
  BY <1>1, <1>3, <1>4 DEF FilesTypeOK, FInv
<1>9. ObjectsResolve'
  BY <1>1, <1>5, <1>6, <1>7 DEF FInv, ObjectsResolve, Resolved
<1>10. RequestsResolve'
  <2>1. m.data = dict /\ m.file = f
    OBVIOUS
  <2> HIDE DEF m, dict
  <2> QED BY <1>1, <1>2, <1>6, <2>1 DEF FInv, RequestsResolve, Resolved
<1>11. Phases'
  BY <1>1, <1>4 DEF Phases, FInv, Free
<1>12. UnderWay' = UnderWay \cup {f}
  BY <1>1, <1>4 DEF UnderWay, Free
<1>13. UploadsComplete'
  BY <1>1, <1>12 DEF UploadsComplete, FInv
<1> QED BY <1>1, <1>8, <1>9, <1>10, <1>11, <1>13 DEF FInv, ReferencesResolve, Resolved

\* What the service stores refers to files that are attached by then, or to
\* failed uploads.
LEMMA ElsewhereResolves ==
  ASSUME FInv, Elsewhere, UNCHANGED files
  PROVE  Resolved(stored.data, {}) /\ Resolved(stored.data, {})'
<1> USE RecordAssumption
<1>1. Resolved(stored.data, {})
  BY DEF FInv, ReferencesResolve, Resolved
<1>2. ASSUME NEW m \in wire, TakeUpdate(m) PROVE Resolved(stored.data, {})'
  <2>1. /\ m.file = None /\ stored'.data = m.data /\ attached' = attached
    BY <1>2 DEF TakeUpdate, Stores
  <2>2. Resolved(m.data, {})
    BY <2>1 DEF FInv, RequestsResolve, Resolved
  <2> QED BY <2>1, <2>2 DEF Resolved, files
<1>3. ASSUME NEW m \in wire, TakeFile(m) PROVE Resolved(stored.data, {})'
  <2>1. stored'.data = m.data /\ attached' = attached \cup {m.file}
    BY <1>3 DEF TakeFile, Stores
  <2> QED BY <2>1 DEF FInv, RequestsResolve, Resolved, files
<1>4. ASSUME NEW e \in Edit, OtherSaves(e) PROVE Resolved(stored.data, {})'
  <2>1. stored'.data = stored.data \cup {e} /\ attached' = attached /\ e \notin File
    BY <1>4 DEF OtherSaves, Stores
  <2> QED BY <1>1, <2>1 DEF Resolved, files
<1>5. UNCHANGED stored => Resolved(stored.data, {})'
  <2>1. attached \subseteq attached'
    BY DEF Elsewhere, AnswerGet, AnswerLost, TakeUpdate, TakeFile, Drop, OtherSaves
  <2> QED BY <1>1, <2>1 DEF Resolved, files
<1> QED BY <1>1, <1>2, <1>3, <1>4, <1>5 DEF Elsewhere, AnswerGet, AnswerLost, Drop

\* A call for an object that is in no upload puts no file into any copy.
LEMMA CallResolves ==
  ASSUME FInv, UNCHANGED files, NEW h \in Handle, Free(h), ObjectCall(h)
  PROVE  ObjectsResolve' /\ RequestsResolve'
<1> USE RecordAssumption
<1>1. InCall(h) = {} /\ \A g \in Handle : InCall(g)' = InCall(g)
  BY DEF InCall, Free, files
<1>2. attached' = attached
  BY DEF ObjectCall, ReceiveSecrets, CachedSecrets, Save, SetValue, ChangeField
<1>3. \A data, sent : Resolved(data, sent) => Resolved(data, sent)'
  BY <1>2 DEF Resolved, files
<1>4. ASSUME NEW v, v \in {answer[h], cached}, v \in Version, Resolved(v.data, {}),
             handle' = [handle EXCEPT ![h] = NewRecordFromJson(v)]
      PROVE  \A g \in Handle : handle'[g] # None => Resolved(handle[g].dict, InCall(g))'
  <2>1. /\ handle'[h].dict = v.data
        /\ \A g \in Handle \ {h} : handle'[g] = handle[g]
    BY <1>4 DEF NewRecordFromJson, FInv, FilesTypeOK, TypeOK
  <2> QED BY <1>1, <1>3, <1>4, <2>1 DEF FInv, ObjectsResolve
<1>5. ASSUME NEW e \in Edit, NEW raw, handle[h] # None,
             handle' = [handle EXCEPT ![h].dict = handle[h].dict \cup {e}, ![h].raw = raw]
      PROVE  \A g \in Handle : handle'[g] # None => Resolved(handle[g].dict, InCall(g))'
  <2>1. /\ handle'[h].dict = handle[h].dict \cup {e}
        /\ \A g \in Handle \ {h} : handle'[g] = handle[g]
    BY <1>5 DEF FInv, FilesTypeOK, TypeOK, Record
  <2>2. Resolved(handle[h].dict \cup {e}, {})
    BY <1>1, <1>5 DEF FInv, ObjectsResolve, Resolved
  <2> QED BY <1>1, <1>3, <2>1, <2>2 DEF FInv, ObjectsResolve
<1>6. CASE ReceiveSecrets(h)
  <2>1. /\ answer[h] # None /\ answer[h] \in Version /\ Resolved(answer[h].data, {})
        /\ handle' = [handle EXCEPT ![h] = NewRecordFromJson(answer[h])]
        /\ wire' = wire /\ answer' = [answer EXCEPT ![h] = None]
    BY <1>6 DEF ReceiveSecrets, FInv, FilesTypeOK, TypeOK, ObjectsResolve
  <2>2. \A g \in Handle : answer'[g] # None => answer'[g] = answer[g]
    BY <2>1 DEF FInv, FilesTypeOK, TypeOK
  <2> QED BY <1>3, <1>4, <2>1, <2>2 DEF FInv, ObjectsResolve, RequestsResolve
<1>7. CASE CachedSecrets(h)
  <2>1. /\ cached \in Version /\ Resolved(cached.data, {})
        /\ handle' = [handle EXCEPT ![h] = NewRecordFromJson(cached)]
        /\ wire' = wire /\ answer' = answer
    BY <1>7 DEF CachedSecrets, FInv, FilesTypeOK, TypeOK
  <2> QED BY <1>3, <1>4, <2>1 DEF FInv, ObjectsResolve, RequestsResolve
<1>8. CASE Save(h)
  <2>1. /\ handle[h] # None /\ handle[h].raw \subseteq handle[h].dict
        /\ wire' = wire \cup {PrepareUpdate(h)} /\ UNCHANGED <<handle, answer>>
    BY <1>8 DEF Save, FInv, FilesTypeOK, TypeOK
  <2>2. Resolved(handle[h].raw, {})
    BY <1>1, <2>1 DEF FInv, ObjectsResolve, Resolved
  <2>3. PrepareUpdate(h).data = handle[h].raw
    BY DEF PrepareUpdate
  <2>4. Resolved(PrepareUpdate(h).data, {PrepareUpdate(h).file} \cap File)
    BY <2>2, <2>3 DEF Resolved
  <2> QED BY <1>1, <1>3, <2>1, <2>4 DEF FInv, ObjectsResolve, RequestsResolve
<1>9. CASE \E e \in Edit : SetValue(h, e) \/ ChangeField(h, e)
  <2>1. PICK e \in Edit : SetValue(h, e) \/ ChangeField(h, e)
    BY <1>9
  <2>2. PICK raw : /\ handle[h] # None
                   /\ handle' = [handle EXCEPT ![h].dict = handle[h].dict \cup {e}, ![h].raw = raw]
    <3>1. CASE SetValue(h, e)
      BY <3>1 DEF SetValue
    <3>2. CASE ChangeField(h, e)
      <4>1. handle[h] # None /\ handle' = [handle EXCEPT ![h].dict = handle[h].dict \cup {e}]
        BY <3>2 DEF ChangeField
      <4>2. handle[h] \in Record
        BY <4>1 DEF FInv, FilesTypeOK, TypeOK
      <4>3. handle' = [handle EXCEPT ![h].dict = handle[h].dict \cup {e}, ![h].raw = handle[h].raw]
        BY <4>1, <4>2 DEF FInv, FilesTypeOK, TypeOK, Record
      <4> QED BY <4>1, <4>3
    <3> QED BY <2>1, <3>1, <3>2
  <2>3. wire' = wire /\ answer' = answer
    BY <2>1 DEF SetValue, ChangeField
  <2> QED BY <1>3, <1>5, <2>2, <2>3 DEF FInv, ObjectsResolve, RequestsResolve
<1> QED BY <1>6, <1>7, <1>8, <1>9 DEF ObjectCall

\* Everything else that happens to the record and its objects.
LEMMA RecordStep ==
  ASSUME FInv, IInv, UNCHANGED files,
         Elsewhere \/ \E h \in Handle : Free(h) /\ ObjectCall(h)
  PROVE  FInv'
<1> USE RecordAssumption
<1>1. [Next]_vars
  BY DEF Elsewhere, ObjectCall, Next
<1>2. TypeOK' /\ FilesTypeOK'
  BY <1>1, Step DEF IInv, FilesTypeOK, FInv, files
<1>3. UNCHANGED files /\ \A h \in Handle : InCall(h)' = InCall(h) /\ Free(h)' = Free(h)
  BY DEF files, InCall, Free
<1>4. /\ attached \subseteq attached' /\ \A f \in made' \cap File : f \in made
  BY DEF Elsewhere, ObjectCall, AnswerGet, AnswerLost, TakeUpdate, TakeFile, Drop,
         OtherSaves, ReceiveSecrets, CachedSecrets, Save, SetValue, ChangeField
<1>5. \A data, sent : Resolved(data, sent) => Resolved(data, sent)'
  BY <1>4 DEF Resolved, files
<1>6. Phases'
  BY <1>3, <1>4 DEF Phases, FInv, files
<1>7. UploadsComplete'
  BY <1>3, <1>4 DEF UploadsComplete, FInv, UnderWay, files
<1>10. cached' # None => Resolved(cached.data, {})'
  <2>1. cached' = cached \/ \E h \in Handle : answer[h] # None /\ cached' = answer[h]
    BY DEF Elsewhere, ObjectCall, AnswerGet, AnswerLost, TakeUpdate, TakeFile,
       Drop, OtherSaves, ReceiveSecrets, CachedSecrets, Save, SetValue, ChangeField
  <2> QED BY <1>5, <2>1 DEF FInv, ObjectsResolve
<1>8. CASE Elsewhere
  <2>1. Resolved(stored.data, {}) /\ Resolved(stored.data, {})'
    BY <1>8, ElsewhereResolves
  <2>2. ObjectsResolve'
    <3>1. UNCHANGED handle /\ \A h \in Handle : answer'[h] # None => answer'[h] \in {answer[h], stored}
      BY <1>8 DEF Elsewhere, AnswerGet, AnswerLost, TakeUpdate, TakeFile, Drop, OtherSaves,
         FInv, FilesTypeOK, TypeOK
    <3> QED BY <1>3, <1>5, <2>1, <3>1 DEF FInv, ObjectsResolve
  <2>3. RequestsResolve'
    <3>1. wire' \subseteq wire
      BY <1>8 DEF Elsewhere, AnswerGet, AnswerLost, TakeUpdate, TakeFile, Drop, OtherSaves
    <3> QED BY <1>5, <3>1 DEF FInv, RequestsResolve
  <2>4. ReferencesResolve'
    BY <2>1 DEF ReferencesResolve, Resolved
  <2> QED BY <1>2, <1>6, <1>7, <1>10, <2>2, <2>3, <2>4 DEF FInv
<1>9. ASSUME NEW h \in Handle, Free(h), ObjectCall(h) PROVE FInv'
  <2>1. InCall(h) = {} /\ UNCHANGED stored
    BY <1>9 DEF InCall, ObjectCall, ReceiveSecrets, CachedSecrets, Save, SetValue, ChangeField
  <2>2. ObjectsResolve'
    BY <1>9, <2>1, CallResolves
  <2>3. RequestsResolve'
    BY <1>9, <2>1, CallResolves
  <2>4. ReferencesResolve'
    BY <1>5, <2>1 DEF FInv, ReferencesResolve, Resolved
  <2> QED BY <1>2, <1>6, <1>7, <1>10, <2>2, <2>3, <2>4 DEF FInv
<1> QED BY <1>8, <1>9

-----------------------------------------------------------------------------

\* The inductive invariant.
LEMMA FilesInductive ==
  /\ FilesInit => FInv
  /\ FInv /\ IInv /\ [FilesNext]_<<vars, files>> => FInv'
<1>1. FilesInit => FInv
  BY RecordAssumption DEF FilesInit, Init, FInv, FilesTypeOK, TypeOK, Version, Upload,
     ObjectsResolve, RequestsResolve, Resolved, ReferencesResolve, Phases,
     UploadsComplete, UnderWay, Free
<1>2. ASSUME FInv, IInv, FilesNext PROVE FInv'
  BY <1>2, StartStep, PostStep, ReturnStep, RecordStep DEF FilesNext
<1>3. ASSUME FInv, UNCHANGED <<vars, files>> PROVE FInv'
  <2>1. FilesTypeOK' /\ ObjectsResolve' /\ RequestsResolve'
    BY <1>3 DEF FInv, vars, files, FilesTypeOK, TypeOK, ObjectsResolve, RequestsResolve,
       Resolved, InCall, Free
  <2>2. (cached' # None => Resolved(cached.data, {})') /\ ReferencesResolve'
    BY <1>3 DEF FInv, vars, files, ReferencesResolve, Resolved
  <2>3. Phases' /\ UploadsComplete'
    BY <1>3 DEF FInv, vars, files, Phases, UploadsComplete, UnderWay, Free
  <2> QED BY <2>1, <2>2, <2>3 DEF FInv
<1> QED BY <1>1, <1>2, <1>3

\* The invariant holds of every state.
LEMMA FilesInvariant == FilesSpec => []FInv
BY Inductive, FilesAreRecords, FilesInductive, PTL DEF FilesSpec

\* Every variable of Files has its type.
THEOREM FilesTypeCorrect == FilesSpec => []FilesTypeOK
BY FilesInvariant, PTL DEF FInv

\* A file whose upload was reported as done is attached and has its content.
THEOREM UploadsAreComplete == FilesSpec => []UploadsComplete
BY FilesInvariant, PTL DEF FInv

\* The record refers to attached files, or to ones whose upload failed.
THEOREM ReferencesAlwaysResolve == FilesSpec => []ReferencesResolve
BY FilesInvariant, PTL DEF FInv

=============================================================================
