-------------------------------- MODULE Files --------------------------------
(***************************************************************************)
(* Files of a record (core/core.go): UploadFile puts a reference into the  *)
(* object, posts the file's metadata with the whole record, and posts the  *)
(* content to the address it gets back.  Each post can fail, be lost or be *)
(* done without the client learning of it, and the process can stop at any *)
(* point.  The record itself, and everything else that happens to it, is   *)
(* the module Records.                                                     *)
(*                                                                         *)
(* A program makes one call at a time for one object: nothing in the code  *)
(* locks a Record.                                                         *)
(***************************************************************************)
EXTENDS Records

VARIABLES
  uploading,   \* the upload each object is in: [file, phase], or None
  content,     \* files whose content is in the store
  failed       \* files whose upload ended with an error, or not at all

files == <<uploading, content, failed>>

Upload == [file : File, phase : {"metadata", "content", "stored"}]

ASSUME UploadAssumption == None \notin Upload

Free(h) == uploading[h] = None

FilesInit ==
  /\ Init
  /\ uploading = [h \in Handle |-> None]
  /\ content = {} /\ failed = {}

-----------------------------------------------------------------------------

InPhase(h, phase) == ~Free(h) /\ uploading[h].phase = phase

Enters(h, phase) == uploading' = [uploading EXCEPT ![h].phase = phase]

Returns(h) == uploading' = [uploading EXCEPT ![h] = None]

\* prepareFileUploadPayload and the first post.
StartUpload(h, f) ==
  /\ Free(h)
  /\ UploadFile(h, f)
  /\ uploading' = [uploading EXCEPT ![h] = [file |-> f, phase |-> "metadata"]]
  /\ UNCHANGED <<content, failed>>

\* Broken variant: the error of the first post is overlooked.
AnyAddress(h) ==
  /\ InPhase(h, "metadata")
  /\ Enters(h, "content")
  /\ UNCHANGED <<vars, content, failed>>

\* The answer of add_file with the address for the content.
ReceiveAddress(h) ==
  /\ InPhase(h, "metadata")
  /\ uploading[h].file \in attached
  /\ Enters(h, "content")
  /\ UNCHANGED <<vars, content, failed>>

\* fileUpload: the store takes the content.
PostContent(h) ==
  /\ InPhase(h, "content")
  /\ content' = content \cup {uploading[h].file}
  /\ Enters(h, "stored")
  /\ UNCHANGED <<vars, failed>>

\* Broken variant: the status of the second post is not looked at.
UploadedUnchecked(h) ==
  /\ InPhase(h, "content") \/ InPhase(h, "stored")
  /\ Returns(h)
  /\ UNCHANGED <<vars, content, failed>>

\* The expected status, and an answer that is not empty: the uid is returned.
Uploaded(h) ==
  /\ InPhase(h, "stored")
  /\ Returns(h)
  /\ UNCHANGED <<vars, content, failed>>

\* Any error, an answer that does not come, the end of the process: the
\* reference stays in the object, and what was posted may be done yet.
UploadFails(h) ==
  /\ ~Free(h)
  /\ failed' = failed \cup {uploading[h].file}
  /\ Returns(h)
  /\ UNCHANGED <<vars, content>>

ObjectCall(h) ==
  \/ ReceiveSecrets(h) \/ CachedSecrets(h) \/ Save(h)
  \/ \E e \in Edit : SetValue(h, e) \/ ChangeField(h, e)

Elsewhere ==
  \/ \E h \in Handle : AnswerGet(h) \/ AnswerLost(h)
  \/ \E m \in wire : TakeUpdate(m) \/ TakeFile(m) \/ Drop(m)
  \/ \E e \in Edit : OtherSaves(e)

FilesNext ==
  \/ \E h \in Handle :
       \/ \E f \in File : StartUpload(h, f)
       \/ ReceiveAddress(h) \/ PostContent(h) \/ Uploaded(h) \/ UploadFails(h)
       \/ Free(h) /\ ObjectCall(h) /\ UNCHANGED files
  \/ Elsewhere /\ UNCHANGED files

FilesSpec == FilesInit /\ [][FilesNext]_<<vars, files>>

-----------------------------------------------------------------------------
(* Properties *)

\* Every variable has its type.
FilesTypeOK ==
  /\ TypeOK
  /\ uploading \in [Handle -> Upload \cup {None}]
  /\ content \subseteq File /\ failed \subseteq File

UnderWay == {uploading[h].file : h \in {g \in Handle : ~Free(g)}}

\* A file whose upload was reported as done is attached to the record and has
\* its content, whichever posts were late, lost or repeated before.
UploadsComplete ==
  \A f \in made \cap File :
    f \in UnderWay \cup failed \cup (attached \cap content)

\* The record refers to a file that is not there only after an upload of it
\* that failed: the reference is in the object before anything is posted.
ReferencesResolve ==
  stored.data \cap File \subseteq attached \cup failed

=============================================================================
