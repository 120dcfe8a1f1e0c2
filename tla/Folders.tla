------------------------------- MODULE Folders -------------------------------
(***************************************************************************)
(* Shared folders and their subfolders (core/core.go): GetFolders with the *)
(* search for the shared folder's key, CreateFolder, UpdateFolder and      *)
(* DeleteFolder of one client, which keeps the list it got and uses it for *)
(* as long as it likes, while other users create, move, rename and delete. *)
(*                                                                         *)
(* Data abstraction.  A folder's key is the folder itself.  "wrap" names   *)
(* the key a folder's key is encrypted under: None, the application key,   *)
(* for a shared folder, and its shared folder's key for every folder below *)
(* it, at any depth.  "label" names the key its name is encrypted under.   *)
(* Decrypting under any other key fails.  The service leaves the parent of *)
(* a shared folder out of its answers, and never sends it blank.           *)
(***************************************************************************)
EXTENDS Naturals, Sequences, FiniteSets, SequencesExt

CONSTANTS
  Folder,  \* folder uids
  None     \* no folder; the application key; an empty key

ASSUME FolderAssumption == IsFiniteSet(Folder) /\ None \notin Folder

VARIABLES
  here, gone,           \* the service's folders, and the deleted ones
  parent, wrap, label,  \* of each folder
  response,             \* the answer being decoded: entries [uid, parent, wrap]
  folders,              \* the folders decoded so far: [uid, key]
  at,                   \* parent in GetSharedFolderKey, or None outside it
  held                  \* the keys in the list the calling program keeps

service == <<here, gone, parent, wrap, label>>
client  == <<response, folders, at, held>>
vars    == <<service, client>>

FolderOrNone == Folder \cup {None}
Entry        == [uid : Folder, parent : FolderOrNone, wrap : FolderOrNone]
KeeperFolder == [uid : Folder, key : FolderOrNone]

\* Which of two lists of the same keys is the longer does not matter.
NoKeys == [f \in Folder |-> None]

Idle     == response = <<>>
Decoding == at = None /\ Len(folders) < Len(response)
Climbing == at # None

Init ==
  /\ here = {} /\ gone = {}
  /\ parent = [f \in Folder |-> None]
  /\ wrap = [f \in Folder |-> None]
  /\ label = [f \in Folder |-> None]
  /\ response = <<>> /\ folders = <<>> /\ at = None
  /\ held = NoKeys

-----------------------------------------------------------------------------
(* fetchAndDecryptFolders                                                   *)

EntryOf(f) == [uid |-> f, parent |-> parent[f], wrap |-> wrap[f]]

SharedFolders == {f \in here : parent[f] = None}

\* The answer is one moment of the service, in an order nothing promises, and
\* may lack shared folders whose subfolders it has.
GetFolders ==
  /\ Idle
  /\ \E unsent \in SUBSET SharedFolders :
       /\ \E order \in SetToSeqs(here \ unsent) :
            response' = [i \in DOMAIN order |-> EntryOf(order[i])]
       /\ held' = IF here = unsent THEN NoKeys ELSE held
  /\ folders' = <<>>
  /\ UNCHANGED <<service, at>>

Current == response[Len(folders) + 1]

\* The key a list has for a folder, or None.
KeyIn(list, f) ==
  IF \E g \in Range(list) : g.uid = f
    THEN (CHOOSE g \in Range(list) : g.uid = f).key ELSE None

\* The next folder of the list.
Listed(key) ==
  /\ folders' = Append(folders, [uid |-> Current.uid, key |-> key])
  /\ at' = None
  /\ UNCHANGED <<service, response, held>>

\* Decrypt: the folder's key if the key at hand is the right one.
KeyFrom(key, entry) == IF key = entry.wrap THEN entry.uid ELSE None

DecryptSharedFolder ==
  /\ Decoding
  /\ Current.parent = None
  /\ Listed(KeyFrom(None, Current))

StartClimb ==
  /\ Decoding
  /\ Current.parent # None
  /\ at' = Current.parent
  /\ UNCHANGED <<service, response, folders, held>>

\* GetSharedFolderKey, one turn of its loop: the entry of the folder it is at.
Above == {e \in Range(response) : e.uid = at}

ParentUnknown ==
  /\ Climbing
  /\ Above = {}
  /\ Listed(None)

\* Broken variant: the loop looks at the same folder again.
ClimbNot ==
  /\ Climbing
  /\ \E e \in Above : e.parent # None
  /\ UNCHANGED vars

Climb ==
  /\ Climbing
  /\ \E e \in Above : e.parent # None /\ at' = e.parent
  /\ UNCHANGED <<service, response, folders, held>>

\* Broken variant: the key of the folder right above is taken for the shared
\* folder's.
NearestKey == KeyIn(folders, Current.parent)

\* The shared folder's key, if the list has come to the shared folder yet.
SharedFolderKey == KeyIn(folders, at)

\* An empty key decrypts nothing.
DecryptSubfolder ==
  /\ Climbing
  /\ \E e \in Above : e.parent = None
  /\ Listed(IF SharedFolderKey = None THEN None
                                       ELSE KeyFrom(SharedFolderKey, Current))

\* After the last folder the caller has the list.
Return ==
  /\ ~Idle /\ Len(folders) = Len(response)
  /\ held' = [f \in Folder |-> KeyIn(folders, f)]
  /\ response' = <<>> /\ folders' = <<>>
  /\ UNCHANGED <<service, at>>

-----------------------------------------------------------------------------
(* CreateFolder, UpdateFolder and DeleteFolder, with the list held          *)

\* Broken variant: a uid that was in use once is taken again.
UidUsedBefore(f) == f \in Folder \ here

\* GenerateUid: a uid no folder ever had.
Fresh(f) == f \in Folder \ (here \cup gone)

SharedOf(f) == IF parent[f] = None THEN f ELSE wrap[f]

\* A folder the service takes in.
Added(f, p, w, l) ==
  /\ here' = here \cup {f}
  /\ parent' = [parent EXCEPT ![f] = p]
  /\ wrap' = [wrap EXCEPT ![f] = w]
  /\ label' = [label EXCEPT ![f] = l]
  /\ UNCHANGED <<gone, client>>

\* Broken variant: the key is encrypted under the key of the folder it is
\* created in.
CreateUnderSubfolderKey(f, top, sub) ==
  /\ Fresh(f)
  /\ held[sub] # None
  /\ sub \in here /\ SharedOf(sub) = top
  /\ Added(f, sub, held[sub], f)

\* "top" is createOptions.FolderUid, a shared folder, "sub" is SubFolderUid
\* or again "top".  Without the key of "top" in the list there is nothing to
\* send; the service takes a pair it knows to belong together.
CreateFolder(f, top, sub) ==
  /\ Fresh(f)
  /\ held[top] # None
  /\ sub \in here /\ SharedOf(sub) = top
  /\ Added(f, sub, held[top], f)

\* The name encrypted under the key held for the folder.
Relabelled(f) == label' = [label EXCEPT ![f] = held[f]]

UpdateFolder(f) ==
  /\ held[f] # None
  /\ f \in here
  /\ Relabelled(f)
  /\ UNCHANGED <<here, gone, parent, wrap, client>>

\* What goes takes everything below it along (forceDeletion), or had nothing
\* below it left; some of the folders asked for may be refused.
Closed(s) == \A f \in here : parent[f] \in s => f \in s

Removed(s) ==
  /\ s # {} /\ s \subseteq here /\ Closed(s)
  /\ here' = here \ s
  /\ gone' = gone \cup s
  /\ UNCHANGED <<parent, wrap, label, client>>

DeleteFolder == \E s \in SUBSET here : Removed(s)

-----------------------------------------------------------------------------
(* Other users and clients (external)                                       *)

OtherShares(f) == Fresh(f) /\ Added(f, None, None, f)

OtherCreates(f, p) ==
  /\ Fresh(f)
  /\ p \in here
  /\ Added(f, p, SharedOf(p), f)

\* The folders below and at f: what moves with it.
IsSubtree(s, f) ==
  /\ s \subseteq here /\ f \in s
  /\ \A g \in here \ {f} : g \in s <=> parent[g] \in s

\* The one who moves a folder encrypts its key, and the keys below, anew.
OtherMoves(f, p) ==
  /\ f \in here /\ p \in here /\ parent[f] # None
  /\ \E s \in SUBSET here :
       /\ IsSubtree(s, f) /\ p \notin s
       /\ wrap' = [g \in Folder |-> IF g \in s THEN SharedOf(p) ELSE wrap[g]]
  /\ parent' = [parent EXCEPT ![f] = p]
  /\ UNCHANGED <<here, gone, label, client>>

-----------------------------------------------------------------------------

Decode ==
  \/ DecryptSharedFolder \/ StartClimb
  \/ ParentUnknown \/ Climb \/ DecryptSubfolder
  \/ Return

Edit ==
  \/ \E f, top, sub \in Folder : CreateFolder(f, top, sub)
  \/ \E f \in Folder : UpdateFolder(f)
  \/ DeleteFolder

Others ==
  \/ \E f \in Folder : OtherShares(f)
  \/ \E f, p \in Folder : OtherCreates(f, p) \/ OtherMoves(f, p)

Next == GetFolders \/ Decode \/ Edit \/ Others

Spec == Init /\ [][Next]_vars

\* Once it has its answer the client decodes it to the end.
FairSpec == Spec /\ WF_vars(Decode)

-----------------------------------------------------------------------------
(* Properties *)

\* Every variable has its type.
TypeOK ==
  /\ here \subseteq Folder /\ gone \subseteq Folder /\ here \cap gone = {}
  /\ parent \in [Folder -> FolderOrNone]
  /\ wrap \in [Folder -> FolderOrNone]
  /\ label \in [Folder -> FolderOrNone]
  /\ response \in Seq(Entry)
  /\ folders \in Seq(KeeperFolder)
  /\ at \in FolderOrNone
  /\ held \in [Folder -> FolderOrNone]

\* Whatever the depth of a folder and the order of the answer, its key is
\* found if and only if it is shared itself or its shared folder came before
\* it; a key that is found is the right one.
KeysFound ==
  \A j \in 1..Len(folders) :
    /\ folders[j].uid = response[j].uid
    /\ folders[j].key =
         IF response[j].parent = None
              \/ \E i \in 1..(j - 1) : response[i].uid = response[j].wrap
           THEN response[j].uid ELSE None

\* What this client writes anybody can read: through any list it held, and
\* whatever was moved since, a folder's key is encrypted under its shared
\* folder's key and its name under its own.
ReadableByAll ==
  \A f \in here :
    /\ label[f] = f
    /\ IF parent[f] = None THEN wrap[f] = None
         ELSE /\ parent[f] \in here
              /\ wrap[f] = SharedOf(parent[f])

\* The search for the shared folder's key ends for every folder.
DecodingEnds == [](~Idle => <>Idle)

=============================================================================
