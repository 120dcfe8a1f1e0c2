---------------------------- MODULE RecordCreation ----------------------------
(***************************************************************************)
(* Records in folders (core/core.go): the three calls that create a record *)
(* and where each takes the folder's key from, and DeleteSecrets, while    *)
(* other users create, move and delete records and folders.  The folders   *)
(* are those of the module Folders.                                        *)
(*                                                                         *)
(* Data abstraction.  "under" names the key a record's key is encrypted    *)
(* under, by folder.  Of the records the program fetched only the shared   *)
(* folders they came in matter, with their keys; what a new record copies  *)
(* from its template is in RecordFields.  The application has its owner    *)
(* key.  The uid of a record that is gone may be used again: the program   *)
(* may choose uids, and nothing here tells the two records apart.          *)
(***************************************************************************)
EXTENDS Folders

CONSTANT Record    \* record uids

VARIABLES
  place,     \* the folder each record is in, or None
  under,     \* the key its key is encrypted under, or None
  fetched    \* shared folders in the answer to get_secret the program keeps

records  == <<place, under>>
creation == <<records, fetched>>

CreationInit ==
  /\ Init
  /\ place = [r \in Record |-> None]
  /\ under = [r \in Record |-> None]
  /\ fetched = {}

-----------------------------------------------------------------------------

\* NewFolderFromJson: the folder's key is decrypted with the application key,
\* and the folder comes if there is a record in it or below it.
GetSecrets ==
  /\ fetched' = {f \in SharedFolders :
                   /\ KeyFrom(None, EntryOf(f)) # None
                   /\ \E r \in Record : place[r] # None /\ SharedOf(place[r]) = f}
  /\ UNCHANGED <<vars, records>>

\* prepareCreatePayload: without a folder key nothing is sent.  The service
\* takes a new record into a folder it has.
Created(r, f, key) ==
  /\ key # None
  /\ place[r] = None /\ f \in here
  /\ place' = [place EXCEPT ![r] = f]
  /\ under' = [under EXCEPT ![r] = key]
  /\ UNCHANGED <<vars, fetched>>

\* With a record of findTemplateRecord, which is in a shared folder: its key
\* and its uid are those of the template.
CreateSecret(r, template) ==
  /\ template \in fetched
  /\ Created(r, template, template)

\* Into a folder of the answer; the fetch and the post are two queries.
CreateSecretWithRecordData(r, f) ==
  /\ f \in fetched
  /\ Created(r, f, f)

\* Broken variant: the key of the folder the record goes into is used.
CreateUnderFolderKey(r, top, sub) ==
  /\ sub \in here /\ SharedOf(sub) = top
  /\ Created(r, sub, held[sub])

\* "top" is createOptions.FolderUid, "sub" is SubFolderUid or again "top".
CreateSecretWithOptions(r, top, sub) ==
  /\ sub \in here /\ SharedOf(sub) = top
  /\ Created(r, sub, held[top])

Gone(s) ==
  /\ place' = [r \in Record |-> IF r \in s THEN None ELSE place[r]]
  /\ under' = [r \in Record |-> IF r \in s THEN None ELSE under[r]]

\* The records that go, of those that were asked for.
DeleteSecrets ==
  /\ \E s \in SUBSET {r \in Record : place[r] # None} : s # {} /\ Gone(s)
  /\ UNCHANGED <<vars, fetched>>

-----------------------------------------------------------------------------
(* Other users and clients, and what happens to records with their folder   *)

OtherCreatesRecord(r, f) == f \in here /\ Created(r, f, SharedOf(f))

OtherMovesRecord(r, f) ==
  /\ place[r] # None /\ f \in here
  /\ place' = [place EXCEPT ![r] = f]
  /\ under' = [under EXCEPT ![r] = SharedOf(f)]
  /\ UNCHANGED <<vars, fetched>>

GoneWithFolder ==
  /\ Gone({r \in Record : place[r] \notin here'})
  /\ UNCHANGED fetched

\* Whoever moves a folder to another shared folder encrypts the keys of the
\* records in it anew.
MovedWithFolder ==
  LET moved(r) == place[r] # None /\ wrap'[place[r]] # wrap[place[r]]
  IN  /\ under' = [r \in Record |-> IF moved(r) THEN wrap'[place[r]] ELSE under[r]]
      /\ UNCHANGED <<place, fetched>>

-----------------------------------------------------------------------------

DecodeTurn == Decode /\ UNCHANGED creation

CreateRecord ==
  \E r \in Record, f \in Folder :
    \/ CreateSecret(r, f)
    \/ CreateSecretWithRecordData(r, f)
    \/ \E sub \in Folder : CreateSecretWithOptions(r, f, sub)

FolderEdit ==
  \/ \E f, top, sub \in Folder : CreateFolder(f, top, sub)
  \/ \E f \in Folder : UpdateFolder(f) \/ OtherShares(f)
  \/ \E f, p \in Folder : OtherCreates(f, p)

CreationNext ==
  \/ GetSecrets
  \/ CreateRecord
  \/ DeleteSecrets
  \/ \E r \in Record, f \in Folder : OtherCreatesRecord(r, f) \/ OtherMovesRecord(r, f)
  \/ GetFolders /\ UNCHANGED creation
  \/ DecodeTurn
  \/ FolderEdit /\ UNCHANGED creation
  \/ DeleteFolder /\ GoneWithFolder
  \/ (\E f, p \in Folder : OtherMoves(f, p)) /\ MovedWithFolder

CreationSpec == CreationInit /\ [][CreationNext]_<<vars, creation>>

\* Once it has its answer the client decodes it to the end.
CreationFairSpec == CreationSpec /\ WF_<<vars, creation>>(DecodeTurn)

-----------------------------------------------------------------------------
(* Properties *)

\* Every variable has its type.
CreationTypeOK ==
  /\ TypeOK
  /\ place \in [Record -> FolderOrNone]
  /\ under \in [Record -> FolderOrNone]
  /\ fetched \subseteq Folder

\* Every record can be read by whoever the folder is shared with: through any
\* template, answer or list of folders it was created, and wherever it or its
\* folder was moved since, its key is encrypted under the key of the shared
\* folder it is in.
RecordsReadable ==
  \A r \in Record :
    IF place[r] = None THEN under[r] = None
      ELSE place[r] \in here /\ under[r] = SharedOf(place[r])

=============================================================================
