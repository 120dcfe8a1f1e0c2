--------------------------- MODULE FoldersProofs ----------------------------
(***************************************************************************)
(* What Folders and RecordCreation promise for every finite set of folders *)
(* and any set of records: the types, that what this client writes is      *)
(* readable by all, which folder keys GetFolders finds, and that records   *)
(* in folders stay readable with answers of any age.                       *)
(***************************************************************************)
EXTENDS RecordCreation, TLAPS, FiniteSetTheorems

-----------------------------------------------------------------------------
(* Folders                                                                  *)

Places == DOMAIN response

\* The key of a folder below a shared folder is under a key of a folder.
Wrapped == \A f \in here : parent[f] # None => wrap[f] \in Folder

\* A list held has right keys or none.
HeldRight == \A f \in Folder : held[f] \in {None, f}

\* A shared folder called f, or one below the shared folder "top": what the
\* answer says of f.
LeadsTo(f, top) ==
  /\ \A k \in Places : response[k].uid = f =>
       top = IF response[k].parent = None THEN f ELSE response[k].wrap
  /\ (\A k \in Places : response[k].uid # f) => top = f

\* An answer is a picture of a service that is readable by all.
AnswerRight ==
  /\ \A i, j \in Places : response[i].uid = response[j].uid => i = j
  /\ \A i \in Places :
       IF response[i].parent = None THEN response[i].wrap = None
         ELSE LeadsTo(response[i].parent, response[i].wrap)

\* Where the decoding is.
Progress ==
  /\ Idle => folders = <<>> /\ at = None
  /\ Len(folders) <= Len(response)
  /\ at # None => Len(folders) < Len(response)

\* The climb stays below the shared folder it looks for.
ClimbRight ==
  at # None => Current.parent # None /\ LeadsTo(at, Current.wrap)

ServiceInv == ReadableByAll /\ Wrapped
ClientInv  == AnswerRight /\ Progress /\ ClimbRight /\ KeysFound
IInv       == TypeOK /\ ServiceInv /\ HeldRight /\ ClientInv

-----------------------------------------------------------------------------
(* Sequences and lists *)

\* An enumeration of a finite set has every element at one place.
LEMMA Enumeration ==
  ASSUME NEW S, IsFiniteSet(S), NEW order \in SetToSeqs(S)
  PROVE  /\ order \in Seq(S)
         /\ \A i, j \in DOMAIN order : order[i] = order[j] => i = j
         /\ \A x \in S : \E i \in DOMAIN order : order[i] = x
         /\ (order = <<>>) <=> (S = {})
<1>1. Cardinality(S) \in Nat
  BY FS_CardinalityType
<1>2. /\ order \in [1..Cardinality(S) -> S]
      /\ \A i, j \in 1..Cardinality(S) : i # j => order[i] # order[j]
  BY DEF SetToSeqs
<1>3. order \in Seq(S) /\ Len(order) = Cardinality(S)
  BY <1>1, <1>2
<1>4. order \in Injection(1..Cardinality(S), S)
  BY <1>2 DEF Injection, IsInjective
<1>5. Cardinality(1..Cardinality(S)) = Cardinality(S)
  BY <1>1, FS_Interval
<1>6. order \in Surjection(1..Cardinality(S), S)
  BY <1>4, <1>5, FS_Injection
<1>7. \A x \in S : \E i \in 1..Cardinality(S) : order[i] = x
  BY <1>6 DEF Surjection
<1>8. (order = <<>>) <=> (S = {})
  BY <1>1, <1>2, <1>3, <1>7
<1> QED BY <1>2, <1>3, <1>7, <1>8

\* In a list without repeated uids the key of a folder is the one of its entry.
LEMMA KeyInList ==
  ASSUME NEW list \in Seq(KeeperFolder), NEW f,
         \A i, j \in 1..Len(list) : list[i].uid = list[j].uid => i = j
  PROVE  /\ \A i \in 1..Len(list) : list[i].uid = f => KeyIn(list, f) = list[i].key
         /\ (\A i \in 1..Len(list) : list[i].uid # f) => KeyIn(list, f) = None
<1>1. Range(list) = {list[i] : i \in 1..Len(list)}
  BY DEF Range
<1>2. ASSUME NEW i \in 1..Len(list), list[i].uid = f
      PROVE  KeyIn(list, f) = list[i].key
  <2>1. list[i] \in Range(list)
    BY <1>1
  <2>2. \A g \in Range(list) : g.uid = f => g = list[i]
    BY <1>1, <1>2
  <2> QED BY <1>2, <2>1, <2>2 DEF KeyIn
<1>3. ASSUME \A i \in 1..Len(list) : list[i].uid # f
      PROVE  KeyIn(list, f) = None
  BY <1>1, <1>3 DEF KeyIn
<1> QED BY <1>2, <1>3

-----------------------------------------------------------------------------
(* The service *)

\* A folder taken in under a folder that is there, with the right key.
LEMMA AddedStep ==
  ASSUME TypeOK, ServiceInv, NEW f \in Folder, Fresh(f), NEW p, NEW w,
         \/ p = None /\ w = None
         \/ p \in here /\ w = SharedOf(p),
         Added(f, p, w, f)
  PROVE  ServiceInv' /\ TypeOK'
<1> USE FolderAssumption
<1>1. f \notin here /\ f \notin gone
  BY DEF Fresh
<1>2. p \in FolderOrNone /\ w \in FolderOrNone /\ (p # None => w \in Folder)
  BY DEF TypeOK, SharedOf, ServiceInv, Wrapped, FolderOrNone
<1>3. TypeOK'
  BY <1>1, <1>2 DEF TypeOK, Added, client, FolderOrNone
<1>4. ASSUME NEW g \in here
      PROVE  /\ g # f /\ g \in Folder
             /\ parent'[g] = parent[g] /\ wrap'[g] = wrap[g] /\ label'[g] = label[g]
             /\ SharedOf(g)' = SharedOf(g)
  BY <1>1 DEF TypeOK, Added, SharedOf
<1>5. parent'[f] = p /\ wrap'[f] = w /\ label'[f] = f /\ here' = here \cup {f}
  BY DEF TypeOK, Added
<1>6. Wrapped'
  BY <1>2, <1>4, <1>5 DEF ServiceInv, Wrapped
<1>7. ASSUME NEW g \in here'
      PROVE  /\ label'[g] = g
             /\ IF parent'[g] = None THEN wrap'[g] = None
                  ELSE /\ parent'[g] \in here'
                       /\ wrap'[g] = SharedOf(parent[g])'
  <2>1. CASE g = f
    <3>1. p = None => wrap'[g] = None
      BY <1>2, <1>5, <2>1 DEF TypeOK
    <3>2. p # None => p \in here /\ w = SharedOf(p)
      OBVIOUS
    <3> QED BY <1>4, <1>5, <2>1, <3>1, <3>2 DEF SharedOf
  <2>2. CASE g \in here
    <3>1. parent[g] # None => parent[g] \in here
      BY <2>2 DEF ServiceInv, ReadableByAll
    <3> QED BY <1>4, <1>5, <2>2, <3>1 DEF ServiceInv, ReadableByAll, SharedOf
  <2> QED BY <1>5, <2>1, <2>2
<1>8. ReadableByAll'
  BY <1>7 DEF ReadableByAll
<1> QED BY <1>3, <1>6, <1>8 DEF ServiceInv

\* A move takes the folders below along and gives all of them the new key.
LEMMA MoveStep ==
  ASSUME TypeOK, ServiceInv, NEW f \in Folder, NEW p \in Folder, OtherMoves(f, p)
  PROVE  ServiceInv' /\ TypeOK'
<1> USE FolderAssumption
<1>1. f \in here /\ p \in here /\ parent[f] # None
  BY DEF OtherMoves
<1>2. PICK s \in SUBSET here :
        /\ IsSubtree(s, f) /\ p \notin s
        /\ wrap' = [g \in Folder |-> IF g \in s THEN SharedOf(p) ELSE wrap[g]]
  BY DEF OtherMoves
<1>3. parent' = [parent EXCEPT ![f] = p] /\ UNCHANGED <<here, gone, label, client>>
  BY DEF OtherMoves
<1>4. SharedOf(p) \in Folder
  BY <1>1 DEF SharedOf, ServiceInv, Wrapped
<1>5. TypeOK'
  BY <1>2, <1>3, <1>4 DEF TypeOK, client, FolderOrNone
<1>6. ASSUME NEW g \in here
      PROVE  /\ g \in Folder
             /\ parent'[g] = (IF g = f THEN p ELSE parent[g])
             /\ wrap'[g] = (IF g \in s THEN SharedOf(p) ELSE wrap[g])
  BY <1>3, <1>2 DEF TypeOK
<1>7. f \in s /\ \A g \in here : g # f => (g \in s <=> parent[g] \in s)
  BY <1>2 DEF IsSubtree
<1>8. SharedOf(p)' = SharedOf(p)
  BY <1>1, <1>2, <1>6, <1>7 DEF SharedOf
<1>9. ASSUME NEW g \in here
      PROVE  /\ label'[g] = g
             /\ IF parent'[g] = None THEN wrap'[g] = None
                  ELSE /\ parent'[g] \in here
                       /\ wrap'[g] = SharedOf(parent[g])'
             /\ parent'[g] # None => wrap'[g] \in Folder
  <2>1. label'[g] = g
    BY <1>3 DEF ServiceInv, ReadableByAll
  <2>2. CASE g = f
    BY <1>1, <1>4, <1>6, <1>7, <1>8, <2>1, <2>2 DEF SharedOf
  <2>3. CASE g # f /\ g \in s
    <3>1. parent[g] \in s
      BY <1>7, <2>3
    <3>2. parent'[parent[g]] # None
      BY <1>1, <1>6, <1>7, <3>1 DEF TypeOK
    <3> QED BY <1>4, <1>6, <2>1, <2>3, <3>1, <3>2 DEF SharedOf, TypeOK
  <2>4. CASE g \notin s
    <3>1. g # f /\ parent[g] \notin s
      BY <1>7, <2>4
    <3>2. parent[g] # None => parent[g] \in here /\ SharedOf(parent[g])' = SharedOf(parent[g])
      BY <1>6, <1>7, <3>1 DEF SharedOf, ServiceInv, ReadableByAll
    <3>3. parent'[g] = parent[g] /\ wrap'[g] = wrap[g]
      BY <1>6, <2>4, <3>1
    <3> QED BY <2>1, <3>2, <3>3 DEF ServiceInv, ReadableByAll, Wrapped, SharedOf
  <2> QED BY <2>2, <2>3, <2>4
<1>10. here' = here
  BY <1>3
<1> QED BY <1>5, <1>9, <1>10 DEF ServiceInv, ReadableByAll, Wrapped

\* A deletion leaves no folder without the folders above it.
LEMMA RemovedStep ==
  ASSUME TypeOK, ServiceInv, DeleteFolder
  PROVE  ServiceInv' /\ TypeOK'
<1>1. PICK s \in SUBSET here : Removed(s)
  BY DEF DeleteFolder
<1>2. TypeOK'
  BY <1>1 DEF Removed, TypeOK, client
<1>3. /\ here' = here \ s /\ UNCHANGED <<parent, wrap, label>>
      /\ \A f \in here : parent[f] \in s => f \in s
  BY <1>1 DEF Removed, Closed
<1> QED BY <1>2, <1>3 DEF ServiceInv, ReadableByAll, Wrapped, SharedOf

\* Every step of the service, whoever asks for it.
LEMMA ServiceStep ==
  ASSUME TypeOK, ServiceInv, HeldRight, Edit \/ Others
  PROVE  ServiceInv' /\ TypeOK' /\ UNCHANGED client
<1> USE FolderAssumption
<1>1. ASSUME NEW f \in Folder, NEW top \in Folder, NEW sub \in Folder,
             CreateFolder(f, top, sub)
      PROVE  ServiceInv' /\ TypeOK' /\ UNCHANGED client
  <2>1. held[top] = top
    BY <1>1 DEF CreateFolder, HeldRight
  <2>2. Fresh(f) /\ sub \in here /\ SharedOf(sub) = top /\ Added(f, sub, top, f)
    BY <1>1, <2>1 DEF CreateFolder
  <2>3. ServiceInv' /\ TypeOK'
    BY <2>2, AddedStep
  <2> QED BY <2>2, <2>3 DEF Added
<1>2. ASSUME NEW f \in Folder, UpdateFolder(f)
      PROVE  ServiceInv' /\ TypeOK' /\ UNCHANGED client
  <2>1. held[f] = f
    BY <1>2 DEF UpdateFolder, Relabelled, HeldRight
  <2>2. label' = [label EXCEPT ![f] = f] /\ UNCHANGED <<here, gone, parent, wrap, client>>
    BY <1>2, <2>1 DEF UpdateFolder, Relabelled
  <2>3. TypeOK'
    BY <2>2 DEF TypeOK, client, FolderOrNone
  <2>4. \A g \in here : label'[g] = g
    BY <2>2 DEF TypeOK, ServiceInv, ReadableByAll
  <2> QED BY <2>2, <2>3, <2>4 DEF ServiceInv, ReadableByAll, Wrapped, SharedOf
<1>3. ASSUME DeleteFolder
      PROVE  ServiceInv' /\ TypeOK' /\ UNCHANGED client
  BY <1>3, RemovedStep DEF DeleteFolder, Removed
<1>4. ASSUME NEW f \in Folder, OtherShares(f)
      PROVE  ServiceInv' /\ TypeOK' /\ UNCHANGED client
  <2>1. Fresh(f) /\ Added(f, None, None, f)
    BY <1>4 DEF OtherShares
  <2>2. ServiceInv' /\ TypeOK'
    BY <2>1, AddedStep
  <2> QED BY <2>1, <2>2 DEF Added
<1>5. ASSUME NEW f \in Folder, NEW p \in Folder, OtherCreates(f, p)
      PROVE  ServiceInv' /\ TypeOK' /\ UNCHANGED client
  <2>1. Fresh(f) /\ p \in here /\ Added(f, p, SharedOf(p), f)
    BY <1>5 DEF OtherCreates
  <2>2. ServiceInv' /\ TypeOK'
    BY <2>1, AddedStep
  <2> QED BY <2>1, <2>2 DEF Added
<1>6. ASSUME NEW f \in Folder, NEW p \in Folder, OtherMoves(f, p)
      PROVE  ServiceInv' /\ TypeOK' /\ UNCHANGED client
  BY <1>6, MoveStep DEF OtherMoves
<1> QED BY <1>1, <1>2, <1>3, <1>4, <1>5, <1>6 DEF Edit, Others

-----------------------------------------------------------------------------
(* The client *)

\* The answer of GetFolders is right because the service is.
LEMMA AnswerStep ==
  ASSUME IInv, GetFolders
  PROVE  TypeOK' /\ HeldRight' /\ ClientInv' /\ UNCHANGED service
<1> USE FolderAssumption
<1>1. PICK unsent \in SUBSET SharedFolders :
        /\ \E order \in SetToSeqs(here \ unsent) :
             response' = [i \in DOMAIN order |-> EntryOf(order[i])]
        /\ held' = IF here = unsent THEN NoKeys ELSE held
  BY DEF GetFolders
<1>2. PICK order \in SetToSeqs(here \ unsent) :
        response' = [i \in DOMAIN order |-> EntryOf(order[i])]
  BY <1>1
<1>3. /\ Idle /\ folders' = <<>> /\ UNCHANGED <<service, at>>
      /\ unsent \subseteq here /\ \A f \in unsent : parent[f] = None
  BY <1>1 DEF GetFolders, SharedFolders
<1>4. IsFiniteSet(here \ unsent) /\ here \ unsent \subseteq Folder
  BY FS_Subset DEF IInv, TypeOK
<1>5. /\ order \in Seq(here \ unsent)
      /\ \A i, j \in DOMAIN order : order[i] = order[j] => i = j
      /\ \A x \in here \ unsent : \E i \in DOMAIN order : order[i] = x
      /\ (order = <<>>) <=> (here \ unsent = {})
  BY <1>4, Enumeration
<1>6. ASSUME NEW f \in here \ unsent
      PROVE  EntryOf(f) \in Entry
  BY <1>4, <1>6 DEF EntryOf, Entry, IInv, TypeOK
<1>7. /\ response' \in Seq(Entry) /\ DOMAIN response' = DOMAIN order
      /\ Len(response') = Len(order)
      /\ \A i \in DOMAIN order : order[i] \in here \ unsent /\ response'[i] = EntryOf(order[i])
  BY <1>2, <1>5, <1>6
<1>8. ASSUME NEW i \in DOMAIN order
      PROVE  IF response'[i].parent = None THEN response'[i].wrap = None
               ELSE LeadsTo(response[i].parent, response[i].wrap)'
  <2> DEFINE f == order[i]
  <2>1. /\ f \in here \ unsent /\ response'[i].parent = parent[f]
        /\ response'[i].wrap = wrap[f]
    BY <1>7 DEF EntryOf
  <2>2. CASE parent[f] = None
    BY <2>1, <2>2 DEF IInv, ServiceInv, ReadableByAll
  <2>3. CASE parent[f] # None
    <3>1. parent[f] \in here /\ wrap[f] = SharedOf(parent[f])
      BY <2>1, <2>3 DEF IInv, ServiceInv, ReadableByAll
    <3>2. ASSUME NEW k \in DOMAIN order, response'[k].uid = parent[f]
          PROVE  wrap[f] = IF response'[k].parent = None THEN parent[f] ELSE response'[k].wrap
      <4>1. order[k] = parent[f]
        BY <1>7, <3>2 DEF EntryOf
      <4> QED BY <1>7, <3>1, <4>1 DEF EntryOf, SharedOf
    <3>3. ASSUME \A k \in DOMAIN order : response'[k].uid # parent[f]
          PROVE  wrap[f] = parent[f]
      <4>1. \A k \in DOMAIN order : order[k] # parent[f]
        BY <1>7, <3>3 DEF EntryOf
      <4>2. parent[f] \in unsent
        BY <1>5, <3>1, <4>1
      <4> QED BY <1>3, <3>1, <4>2 DEF SharedOf
    <3> QED BY <1>7, <2>1, <2>3, <3>2, <3>3 DEF LeadsTo, Places
  <2> QED BY <2>2, <2>3
<1>9. \A i, j \in DOMAIN order : response'[i].uid = response'[j].uid => i = j
  BY <1>5, <1>7 DEF EntryOf
<1>10. AnswerRight'
  BY <1>7, <1>8, <1>9 DEF AnswerRight, Places
<1>11. at = None
  BY <1>3 DEF IInv, ClientInv, Progress
<1>12. Progress' /\ ClimbRight' /\ KeysFound'
  BY <1>3, <1>7, <1>11 DEF Progress, Idle, ClimbRight, KeysFound
<1>13. held' \in [Folder -> FolderOrNone] /\ HeldRight'
  BY <1>1 DEF IInv, TypeOK, HeldRight, NoKeys, FolderOrNone
<1>14. TypeOK'
  BY <1>3, <1>7, <1>13 DEF IInv, TypeOK, service
<1> QED BY <1>3, <1>10, <1>12, <1>13, <1>14 DEF ClientInv

\* What the next folder's key must be.
RightKey ==
  IF Current.parent = None
       \/ \E i \in 1..Len(folders) : response[i].uid = Current.wrap
    THEN Current.uid ELSE None

\* A folder with the right key joins the list.
LEMMA ListedStep ==
  ASSUME IInv, Len(folders) < Len(response), Listed(RightKey)
  PROVE  TypeOK' /\ HeldRight' /\ ClientInv' /\ UNCHANGED service
<1> USE FolderAssumption
<1> DEFINE n == Len(folders) + 1
           all == Append(folders, [uid |-> Current.uid, key |-> RightKey])
<1>1. /\ n \in 1..Len(response) /\ Current = response[n] /\ response \in Seq(Entry)
      /\ folders \in Seq(KeeperFolder) /\ Len(folders) \in Nat
  BY DEF IInv, TypeOK, ClientInv, Progress, Current
<1>2. Current \in Entry /\ Current.uid \in Folder
  <2>1. response[n] \in Entry
    BY <1>1
  <2> QED BY <1>1, <2>1 DEF Entry
<1>3. RightKey \in FolderOrNone /\ RightKey \in {None, Current.uid}
  BY <1>2 DEF RightKey, FolderOrNone
<1>4. [uid |-> Current.uid, key |-> RightKey] \in KeeperFolder
  BY <1>2, <1>3 DEF KeeperFolder
<1>5. /\ all \in Seq(KeeperFolder) /\ Len(all) = n
      /\ all[n] = [uid |-> Current.uid, key |-> RightKey]
      /\ \A j \in 1..Len(folders) : all[j] = folders[j]
  BY <1>1, <1>4
<1>6. ASSUME NEW j \in 1..n
      PROVE  /\ all[j].uid = response[j].uid
             /\ all[j].key =
                  IF response[j].parent = None
                       \/ \E i \in 1..(j - 1) : response[i].uid = response[j].wrap
                    THEN response[j].uid ELSE None
  <2>1. CASE j = n
    BY <1>1, <1>5, <2>1 DEF RightKey
  <2>2. CASE j # n
    <3>1. j \in 1..Len(folders)
      BY <1>1, <2>2
    <3> QED BY <1>5, <3>1 DEF IInv, ClientInv, KeysFound
  <2> QED BY <2>1, <2>2
<1>7. /\ at' = None /\ folders' = all
      /\ UNCHANGED <<service, response, held>>
  BY DEF Listed
<1> HIDE DEF all
<1>8. TypeOK' /\ HeldRight'
  BY <1>5, <1>7 DEF IInv, TypeOK, HeldRight, service, FolderOrNone
<1>9. AnswerRight'
  BY <1>7 DEF IInv, ClientInv, AnswerRight, Places, LeadsTo
<1>10. KeysFound'
  BY <1>5, <1>6, <1>7 DEF KeysFound
<1>11. Progress' /\ ClimbRight'
  BY <1>1, <1>5, <1>7 DEF Progress, Idle, ClimbRight
<1> QED BY <1>7, <1>8, <1>9, <1>10, <1>11 DEF ClientInv

\* The list that is handed over has right keys or none.
LEMMA ReturnStep ==
  ASSUME IInv, Return
  PROVE  TypeOK' /\ HeldRight' /\ ClientInv' /\ UNCHANGED service
<1> USE FolderAssumption
<1>1. /\ folders \in Seq(KeeperFolder) /\ Len(folders) = Len(response)
      /\ response' = <<>> /\ folders' = <<>>
      /\ held' = [f \in Folder |-> KeyIn(folders, f)]
      /\ at' = at /\ UNCHANGED service
  BY DEF Return, IInv, TypeOK
<1>2. at = None
  BY <1>1 DEF IInv, ClientInv, Progress
<1>3. \A i, j \in 1..Len(folders) : folders[i].uid = folders[j].uid => i = j
  BY <1>1 DEF IInv, TypeOK, ClientInv, KeysFound, AnswerRight, Places
<1>4. \A f \in Folder : KeyIn(folders, f) \in {None, f}
  <2> TAKE f \in Folder
  <2>1. \A i \in 1..Len(folders) : folders[i].uid = f => folders[i].key \in {None, f}
    BY DEF IInv, ClientInv, KeysFound
  <2>2. /\ \A i \in 1..Len(folders) : folders[i].uid = f => KeyIn(folders, f) = folders[i].key
        /\ (\A i \in 1..Len(folders) : folders[i].uid # f) => KeyIn(folders, f) = None
    BY <1>1, <1>3, KeyInList
  <2> QED BY <2>1, <2>2
<1>5. HeldRight' /\ held' \in [Folder -> FolderOrNone]
  BY <1>1, <1>4 DEF HeldRight, FolderOrNone
<1>6. TypeOK'
  BY <1>1, <1>2, <1>5 DEF IInv, TypeOK, service, FolderOrNone
<1>7. ClientInv'
  BY <1>1, <1>2 DEF ClientInv, AnswerRight, Places, Progress, Idle, ClimbRight, KeysFound
<1> QED BY <1>1, <1>5, <1>6, <1>7

\* A turn of the search stays below the shared folder it looks for.
LEMMA TurnStep ==
  ASSUME IInv, StartClimb \/ Climb
  PROVE  TypeOK' /\ HeldRight' /\ ClientInv' /\ UNCHANGED service
<1> USE FolderAssumption
<1>1. Len(folders) < Len(response) /\ UNCHANGED <<service, response, folders, held>>
  BY DEF StartClimb, Climb, Climbing, Decoding, IInv, ClientInv, Progress
<1>2. /\ Len(folders) + 1 \in Places /\ Current = response[Len(folders) + 1]
      /\ Current' = Current
      /\ \A i \in Places : response[i] \in Entry
  BY <1>1 DEF IInv, TypeOK, ClientInv, Progress, Current, Places
<1>3. /\ at' \in FolderOrNone
      /\ Current.parent # None /\ LeadsTo(at', Current.wrap)
  <2>1. CASE StartClimb
    BY <1>2, <2>1 DEF StartClimb, IInv, ClientInv, AnswerRight, Entry
  <2>2. CASE Climb
    <3>1. PICK e \in Range(response) : e.uid = at /\ e.parent # None /\ at' = e.parent
      BY <2>2 DEF Climb, Above
    <3>2. PICK k \in Places : response[k] = e
      BY DEF Range, Places
    <3>3. Current.wrap = e.wrap /\ Current.parent # None
      BY <2>2, <3>1, <3>2 DEF IInv, ClientInv, ClimbRight, LeadsTo, Climb, Climbing
    <3>4. LeadsTo(e.parent, e.wrap)
      BY <3>1, <3>2 DEF IInv, ClientInv, AnswerRight
    <3> QED BY <1>2, <3>1, <3>2, <3>3, <3>4 DEF Entry
  <2> QED BY <2>1, <2>2
<1>4. AnswerRight' /\ Progress' /\ KeysFound'
  BY <1>1 DEF IInv, ClientInv, AnswerRight, Places, LeadsTo, Progress, Idle, KeysFound
<1>5. ClimbRight'
  BY <1>1, <1>2, <1>3 DEF ClimbRight, LeadsTo, Places
<1>6. TypeOK' /\ HeldRight'
  BY <1>1, <1>3 DEF IInv, TypeOK, HeldRight, service
<1> QED BY <1>1, <1>4, <1>5, <1>6 DEF ClientInv

\* Each way to leave the search leaves it with the right key.
LEMMA DecodeStep ==
  ASSUME IInv, Decode
  PROVE  TypeOK' /\ HeldRight' /\ ClientInv' /\ UNCHANGED service
<1> USE FolderAssumption
<1> DEFINE n == Len(folders) + 1
<1>1. /\ Len(folders) < Len(response) => n \in Places /\ Current = response[n] /\ Current \in Entry
      /\ 1..Len(folders) \subseteq Places /\ Len(folders) \in Nat
      /\ \A i \in Places : response[i] \in Entry
  BY DEF IInv, TypeOK, ClientInv, Progress, Idle, Current, Places
<1>2. CASE DecryptSharedFolder
  <2>1. Len(folders) < Len(response) /\ Current.parent = None /\ Current.wrap = None
    BY <1>1, <1>2 DEF DecryptSharedFolder, Decoding, IInv, ClientInv, AnswerRight
  <2>2. KeyFrom(None, Current) = RightKey
    BY <2>1 DEF KeyFrom, RightKey
  <2> QED BY <1>2, <2>1, <2>2, ListedStep DEF DecryptSharedFolder
<1>3. CASE StartClimb \/ Climb
  BY <1>3, TurnStep
<1>4. CASE ParentUnknown
  <2>1. /\ Len(folders) < Len(response)
        /\ Current.parent # None /\ LeadsTo(at, Current.wrap)
    BY <1>4 DEF ParentUnknown, Climbing, IInv, ClientInv, Progress, ClimbRight
  <2>2. \A k \in Places : response[k].uid # at
    BY <1>4 DEF ParentUnknown, Above, Range, Places
  <2>3. RightKey = None
    BY <1>1, <2>1, <2>2 DEF LeadsTo, RightKey
  <2> QED BY <1>4, <2>1, <2>3, ListedStep DEF ParentUnknown
<1>5. CASE DecryptSubfolder
  <2>1. /\ Len(folders) < Len(response)
        /\ Current.parent # None /\ LeadsTo(at, Current.wrap) /\ at \in Folder
    BY <1>5 DEF DecryptSubfolder, Climbing, IInv, TypeOK, FolderOrNone, ClientInv, Progress, ClimbRight
  <2>2. PICK k \in Places : response[k].uid = at /\ response[k].parent = None
    BY <1>5 DEF DecryptSubfolder, Above, Range, Places
  <2>3. Current.wrap = at
    BY <2>1, <2>2 DEF LeadsTo
  <2>4. \A i, j \in 1..Len(folders) : folders[i].uid = folders[j].uid => i = j
    BY <1>1 DEF IInv, ClientInv, KeysFound, AnswerRight
  <2>5. /\ \A i \in 1..Len(folders) : folders[i].uid = at => SharedFolderKey = folders[i].key
        /\ (\A i \in 1..Len(folders) : folders[i].uid # at) => SharedFolderKey = None
    BY <2>4, KeyInList DEF SharedFolderKey, IInv, TypeOK
  <2>6. \A i \in 1..Len(folders) : folders[i].uid = at => folders[i].key = at
    BY <1>1, <2>2 DEF IInv, ClientInv, KeysFound, AnswerRight
  <2>7. SharedFolderKey =
          IF \E i \in 1..Len(folders) : folders[i].uid = at THEN at ELSE None
    BY <2>5, <2>6
  <2>8. (IF SharedFolderKey = None THEN None ELSE KeyFrom(SharedFolderKey, Current))
          = RightKey
    BY <2>1, <2>3, <2>7 DEF RightKey, KeyFrom, IInv, ClientInv, KeysFound
  <2> QED BY <1>5, <2>1, <2>8, ListedStep DEF DecryptSubfolder
<1>6. CASE Return
  BY <1>6, ReturnStep
<1> QED BY <1>2, <1>3, <1>4, <1>5, <1>6 DEF Decode

-----------------------------------------------------------------------------
(* The theorems *)

LEMMA Inductive == Spec => []IInv
<1>1. Init => IInv
  BY FolderAssumption
  DEF Init, NoKeys, IInv, TypeOK, FolderOrNone, ServiceInv, ReadableByAll, Wrapped,
      HeldRight, ClientInv, AnswerRight, Places, Progress, Idle, ClimbRight, KeysFound
<1>2. IInv /\ [Next]_vars => IInv'
  <2> SUFFICES ASSUME IInv, [Next]_vars
               PROVE  IInv'
    OBVIOUS
  <2>1. CASE Edit \/ Others
    <3>1. ServiceInv' /\ TypeOK' /\ UNCHANGED client
      BY <2>1, ServiceStep DEF IInv
    <3>2. HeldRight' /\ ClientInv'
      BY <3>1 DEF client, IInv, HeldRight, ClientInv, AnswerRight, Places, LeadsTo,
                  Progress, Idle, ClimbRight, Current, KeysFound
    <3> QED BY <3>1, <3>2 DEF IInv
  <2>2. CASE GetFolders \/ Decode
    <3>1. TypeOK' /\ HeldRight' /\ ClientInv' /\ UNCHANGED service
      BY <2>2, AnswerStep, DecodeStep
    <3>2. ServiceInv'
      BY <3>1 DEF service, IInv, ServiceInv, ReadableByAll, Wrapped, SharedOf
    <3> QED BY <3>1, <3>2 DEF IInv
  <2>3. CASE UNCHANGED vars
    BY <2>3 DEF vars, service, client, IInv, TypeOK, ServiceInv, ReadableByAll, Wrapped,
                SharedOf, HeldRight, ClientInv, AnswerRight, Places, LeadsTo, Progress,
                Idle, ClimbRight, Current, KeysFound
  <2> QED BY <2>1, <2>2, <2>3 DEF Next
<1> QED BY <1>1, <1>2, PTL DEF Spec

\* Every variable keeps its type.
THEOREM TypeCorrect == Spec => []TypeOK
<1>1. IInv => TypeOK
  BY DEF IInv
<1> QED BY <1>1, Inductive, PTL

\* CreateFolder and UpdateFolder write what every user can read, with a list
\* of folders of any age.
THEOREM WritesReadable == Spec => []ReadableByAll
<1>1. IInv => ReadableByAll
  BY DEF IInv, ServiceInv
<1> QED BY <1>1, Inductive, PTL

\* GetFolders finds the keys of the folders that come after their shared
\* folder, at any depth, and no wrong key.
THEOREM KeysFoundInOrder == Spec => []KeysFound
<1>1. IInv => KeysFound
  BY DEF IInv, ClientInv
<1> QED BY <1>1, Inductive, PTL

-----------------------------------------------------------------------------
(* Records in folders                                                       *)

\* What was fetched were shared folders, and a shared folder stays one.
FetchedShared == \A f \in fetched : f \in here \cup gone /\ parent[f] = None

CreationTypes ==
  /\ place \in [Record -> FolderOrNone]
  /\ under \in [Record -> FolderOrNone]
  /\ fetched \subseteq Folder

CreationInv == CreationTypes /\ FetchedShared /\ RecordsReadable

\* The shared folder of a folder after a step.
SharedNext(f) == IF parent'[f] = None THEN f ELSE wrap'[f]

\* Seen from the folders, a call for a record is no step: everything Folders
\* promises holds here too.
THEOREM CreationIsFolders == CreationSpec => Spec
<1>1. CreationInit => Init
  BY DEF CreationInit
<1>2. [CreationNext]_<<vars, creation>> => [Next]_vars
  BY DEF CreationNext, GetSecrets, CreateRecord, CreateSecret, CreateSecretWithRecordData,
         CreateSecretWithOptions, DeleteSecrets, OtherCreatesRecord, OtherMovesRecord,
         Created, DecodeTurn, FolderEdit, Next, Edit, Others
<1> QED BY <1>1, <1>2, PTL DEF CreationSpec, Spec

-----------------------------------------------------------------------------
(* The steps *)

\* A record that is created, with a key that is the shared folder's.
LEMMA CreatedStep ==
  ASSUME CreationInv, NEW r \in Record, NEW f \in Folder, Created(r, f, SharedOf(f)),
         SharedOf(f) \in FolderOrNone
  PROVE  CreationInv'
<1> USE FolderAssumption
<1>1. /\ UNCHANGED <<here, gone, parent, wrap, fetched>>
      /\ f \in here /\ f # None
      /\ place' = [place EXCEPT ![r] = f]
      /\ under' = [under EXCEPT ![r] = SharedOf(f)]
  BY DEF Created, vars, service
<1>2. CreationTypes' /\ FetchedShared'
  BY <1>1 DEF CreationInv, CreationTypes, FetchedShared, FolderOrNone
<1>3. RecordsReadable'
  <2> SUFFICES ASSUME NEW q \in Record
               PROVE  IF place'[q] = None THEN under'[q] = None
                        ELSE place'[q] \in here' /\ under'[q] = SharedNext(place'[q])
    BY DEF RecordsReadable, SharedOf, SharedNext
  <2>1. SharedNext(place'[q]) = SharedOf(place'[q])
    BY <1>1 DEF SharedNext, SharedOf
  <2>2. CASE q = r
    BY <1>1, <2>1, <2>2 DEF CreationInv, CreationTypes
  <2>3. CASE q # r
    BY <1>1, <2>1, <2>3 DEF CreationInv, CreationTypes, RecordsReadable
  <2> QED BY <2>2, <2>3
<1> QED BY <1>2, <1>3 DEF CreationInv

LEMMA ProgramCreates ==
  ASSUME IInv, CreationInv, CreateRecord
  PROVE  CreationInv'
<1> USE FolderAssumption
<1>1. ASSUME NEW r \in Record, NEW f \in Folder,
             CreateSecret(r, f) \/ CreateSecretWithRecordData(r, f)
      PROVE  Created(r, f, SharedOf(f)) /\ SharedOf(f) \in FolderOrNone
  BY <1>1 DEF CreateSecret, CreateSecretWithRecordData, CreationInv, FetchedShared,
              SharedOf, FolderOrNone
<1>2. ASSUME NEW r \in Record, NEW top \in Folder, NEW sub \in Folder,
             CreateSecretWithOptions(r, top, sub)
      PROVE  Created(r, sub, SharedOf(sub)) /\ SharedOf(sub) \in FolderOrNone
  <2>1. held[top] # None /\ SharedOf(sub) = top /\ Created(r, sub, held[top])
    BY <1>2 DEF CreateSecretWithOptions, Created
  <2>2. held[top] = top
    BY <2>1 DEF IInv, HeldRight
  <2> QED BY <2>1, <2>2 DEF FolderOrNone
<1> QED BY <1>1, <1>2, CreatedStep DEF CreateRecord

LEMMA RecordsStep ==
  ASSUME IInv, CreationInv,
         \/ GetSecrets
         \/ DeleteSecrets
         \/ \E r \in Record, f \in Folder : OtherCreatesRecord(r, f) \/ OtherMovesRecord(r, f)
  PROVE  CreationInv'
<1> USE FolderAssumption
<1>1. \A f \in here : SharedOf(f) \in FolderOrNone
  BY DEF IInv, TypeOK, SharedOf, FolderOrNone
<1>2. CASE GetSecrets
  BY <1>2 DEF GetSecrets, SharedFolders, CreationInv, CreationTypes, FetchedShared,
              RecordsReadable, vars, service, records, SharedOf, IInv, TypeOK
<1>3. CASE DeleteSecrets
  BY <1>3 DEF DeleteSecrets, Gone, CreationInv, CreationTypes, FetchedShared,
              RecordsReadable, FolderOrNone, vars, service, SharedOf
<1>4. ASSUME NEW r \in Record, NEW f \in Folder, OtherCreatesRecord(r, f)
      PROVE  CreationInv'
  BY <1>1, <1>4, CreatedStep DEF OtherCreatesRecord
<1>5. ASSUME NEW r \in Record, NEW f \in Folder, OtherMovesRecord(r, f)
      PROVE  CreationInv'
  BY <1>1, <1>5 DEF OtherMovesRecord, CreationInv, CreationTypes, FetchedShared,
              RecordsReadable, FolderOrNone, vars, service, SharedOf
<1> QED BY <1>2, <1>3, <1>4, <1>5

\* A folder that is added is none that a record is in or that was fetched.
LEMMA FolderAddedStep ==
  ASSUME CreationInv, TypeOK, UNCHANGED creation, NEW f, Fresh(f), NEW p, NEW w, NEW l,
         Added(f, p, w, l)
  PROVE  CreationInv'
<1> USE FolderAssumption
<1>1. /\ here' = here \cup {f} /\ gone' = gone
      /\ \A g \in Folder \ {f} : parent'[g] = parent[g] /\ wrap'[g] = wrap[g]
  BY DEF Added, TypeOK
<1>2. f \notin here \cup gone
  BY DEF Fresh
<1>3. \A g \in here : SharedNext(g) = SharedOf(g)
  BY <1>1, <1>2 DEF SharedNext, SharedOf, TypeOK
<1>4. FetchedShared'
  BY <1>1, <1>2 DEF creation, CreationInv, CreationTypes, FetchedShared
<1>5. RecordsReadable'
  <2> SUFFICES ASSUME NEW r \in Record
               PROVE  IF place[r] = None THEN under[r] = None
                        ELSE place[r] \in here' /\ under[r] = SharedNext(place[r])
    BY DEF creation, records, RecordsReadable, SharedOf, SharedNext
  <2> QED BY <1>1, <1>3 DEF CreationInv, RecordsReadable
<1> QED BY <1>4, <1>5 DEF creation, records, CreationInv, CreationTypes

LEMMA FolderEditStep ==
  ASSUME IInv, CreationInv, FolderEdit, UNCHANGED creation
  PROVE  CreationInv'
<1>1. ASSUME NEW f \in Folder, UpdateFolder(f)
      PROVE  CreationInv'
  BY <1>1 DEF UpdateFolder, client, creation, records, CreationInv, CreationTypes,
              FetchedShared, RecordsReadable, SharedOf
<1>2. ASSUME NEW f \in Folder, NEW top \in Folder, NEW sub \in Folder,
             CreateFolder(f, top, sub)
      PROVE  CreationInv'
  BY <1>2, FolderAddedStep DEF CreateFolder, IInv
<1>3. ASSUME NEW f \in Folder, OtherShares(f)
      PROVE  CreationInv'
  BY <1>3, FolderAddedStep DEF OtherShares, IInv
<1>4. ASSUME NEW f \in Folder, NEW p \in Folder, OtherCreates(f, p)
      PROVE  CreationInv'
  BY <1>4, FolderAddedStep DEF OtherCreates, IInv
<1> QED BY <1>1, <1>2, <1>3, <1>4 DEF FolderEdit

LEMMA FolderGoneStep ==
  ASSUME IInv, CreationInv, DeleteFolder, GoneWithFolder
  PROVE  CreationInv'
<1> USE FolderAssumption
<1>1. here \subseteq here' \cup gone' /\ gone \subseteq gone' /\ UNCHANGED <<parent, wrap>>
  BY DEF DeleteFolder, Removed
<1>2. None \notin here'
  BY DEF DeleteFolder, Removed, IInv, TypeOK
<1>3. CreationTypes' /\ FetchedShared'
  BY <1>1 DEF GoneWithFolder, Gone, CreationInv, CreationTypes, FetchedShared, FolderOrNone
<1>4. RecordsReadable'
  BY <1>1, <1>2 DEF GoneWithFolder, Gone, CreationInv, RecordsReadable, SharedOf
<1> QED BY <1>3, <1>4 DEF CreationInv

\* The records in a folder that is moved, and all others, stay readable.
LEMMA FolderMovedStep ==
  ASSUME IInv, CreationInv, NEW f \in Folder, NEW p \in Folder, OtherMoves(f, p),
         MovedWithFolder
  PROVE  CreationInv'
<1> USE FolderAssumption
<1>1. PICK s \in SUBSET here :
        /\ IsSubtree(s, f) /\ p \notin s
        /\ wrap' = [g \in Folder |-> IF g \in s THEN SharedOf(p) ELSE wrap[g]]
  BY DEF OtherMoves
<1>2. /\ parent[f] # None /\ f \in here /\ p \in here
      /\ parent' = [parent EXCEPT ![f] = p]
      /\ UNCHANGED <<here, gone>>
  BY DEF OtherMoves
<1>3. /\ here \subseteq Folder /\ parent \in [Folder -> FolderOrNone]
      /\ wrap \in [Folder -> FolderOrNone]
  BY DEF IInv, TypeOK
<1>4. \A g \in s : parent[g] # None /\ parent'[g] # None
  BY <1>1, <1>2, <1>3 DEF IsSubtree
<1>5. \A g \in here \ s : parent'[g] = parent[g] /\ wrap'[g] = wrap[g]
  BY <1>1, <1>2, <1>3 DEF IsSubtree
<1>6. \A g \in here : IF wrap'[g] # wrap[g] THEN SharedNext(g) = wrap'[g]
                                             ELSE SharedNext(g) = SharedOf(g)
  BY <1>4, <1>5 DEF SharedOf, SharedNext
<1>7. SharedOf(p) \in FolderOrNone
  BY <1>2, <1>3 DEF SharedOf, FolderOrNone
<1>8. \A g \in Folder : wrap'[g] \in FolderOrNone
  BY <1>1, <1>3, <1>7
<1>9. CreationTypes'
  BY <1>8 DEF MovedWithFolder, CreationInv, CreationTypes, FolderOrNone
<1>10. FetchedShared'
  BY <1>2, <1>3 DEF MovedWithFolder, CreationInv, CreationTypes, FetchedShared
<1>11. RecordsReadable'
  <2> SUFFICES ASSUME NEW r \in Record
               PROVE  IF place[r] = None THEN under'[r] = None
                        ELSE place[r] \in here /\ under'[r] = SharedNext(place[r])
    BY <1>2 DEF MovedWithFolder, RecordsReadable, SharedOf, SharedNext
  <2>1. under'[r] = IF place[r] # None /\ wrap'[place[r]] # wrap[place[r]]
                      THEN wrap'[place[r]] ELSE under[r]
    BY DEF MovedWithFolder
  <2> QED BY <2>1, <1>6 DEF CreationInv, RecordsReadable
<1> QED BY <1>9, <1>10, <1>11 DEF CreationInv

-----------------------------------------------------------------------------
(* The theorems *)

LEMMA CreationInductive == CreationSpec => []CreationInv
<1>1. CreationInit => CreationInv
  BY DEF CreationInit, CreationInv, CreationTypes, FetchedShared, RecordsReadable, FolderOrNone
<1>2. IInv /\ CreationInv /\ [CreationNext]_<<vars, creation>> => CreationInv'
  <2> SUFFICES ASSUME IInv, CreationInv, [CreationNext]_<<vars, creation>>
               PROVE  CreationInv'
    OBVIOUS
  <2>1. CASE (GetFolders \/ Decode) /\ UNCHANGED creation
    <3>1. UNCHANGED service
      BY <2>1, AnswerStep, DecodeStep
    <3> QED BY <2>1, <3>1 DEF service, creation, records, CreationInv, CreationTypes,
                 FetchedShared, RecordsReadable, SharedOf
  <2>2. CASE UNCHANGED <<vars, creation>>
    BY <2>2 DEF vars, service, creation, records, CreationInv, CreationTypes,
                FetchedShared, RecordsReadable, SharedOf
  <2> QED BY <2>1, <2>2, ProgramCreates, RecordsStep, FolderEditStep, FolderGoneStep,
             FolderMovedStep
          DEF CreationNext, DecodeTurn
<1> QED BY <1>1, <1>2, CreationIsFolders, Inductive, PTL DEF CreationSpec

\* Every variable keeps its type.
THEOREM CreationTypeCorrect == CreationSpec => []CreationTypeOK
<1>1. TypeOK /\ CreationInv => CreationTypeOK
  BY DEF CreationInv, CreationTypes, CreationTypeOK
<1> QED BY <1>1, CreationIsFolders, TypeCorrect, CreationInductive, PTL

\* CreateSecret and its variants write records that every user of the folder
\* can read, whatever is moved before and after.
THEOREM RecordsStayReadable == CreationSpec => []RecordsReadable
<1>1. CreationInv => RecordsReadable
  BY DEF CreationInv
<1> QED BY <1>1, CreationInductive, PTL

=============================================================================
