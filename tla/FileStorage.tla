----------------------------- MODULE FileStorage -----------------------------
(***************************************************************************)
(* The configuration file (fileKeyValueStorage, core/storage.go) shared by *)
(* processes that only read it and processes that change it.  Every call   *)
(* of the file system is a step and may fail: the test whether the file is *)
(* there, its creation, the braces put into it, the read, and the          *)
(* truncation and the write of WriteFile.  Nothing locks the file and      *)
(* nothing is written aside and renamed.                                   *)
(*                                                                         *)
(* Data abstraction.  A file that parses is the map it holds.  One that    *)
(* does not parse, two contents written over each other or a part of one,  *)
(* is "garbled"; which of two overlapping writes is the longer is left     *)
(* open.  A "blank" file has nothing in it, or the first brace only: every *)
(* content starts with it and covers it.                                   *)
(***************************************************************************)
EXTENDS ConfigMap, Naturals

CONSTANTS
  Writer,        \* processes that call Set, Delete and DeleteAll
  Reader,        \* processes that call Get, Contains and IsEmpty only
  EarlyReaders,  \* whether a reader may start before the file is there
  MaxFaults      \* bound on crashes and failing calls of the file system

ASSUME FileAssumption ==
  /\ None \notin Value
  /\ Writer \cap Reader = {}
  /\ EarlyReaders \in BOOLEAN
  /\ MaxFaults \in Nat

VARIABLES
  file,    \* [state, map]
  pc,      \* where each process is in its call
  saving,  \* FALSE in ReadStorage, TRUE in SaveStorage
  op,      \* the call
  local,   \* the map in the memory of the call
  blind,   \* history: who creates a file that it could not test for
  faults

vars == <<file, pc, saving, op, local, blind, faults>>

Process == Writer \cup Reader

\* Only a whole file has a map to read; ReadStorage makes of the others one
\* that is empty.
File == {f \in [state : {"missing", "blank", "garbled", "whole"}, map : Map] :
           f.state # "whole" => f.map = EmptyMap}

Missing  == [state |-> "missing", map |-> EmptyMap]
Blank    == [state |-> "blank",   map |-> EmptyMap]
Garbled  == [state |-> "garbled", map |-> EmptyMap]
Whole(m) == [state |-> "whole",   map |-> m]

Pc == {"idle", "probe", "create", "init", "load", "truncate", "write"}

Init ==
  /\ file \in {Missing, Blank, Garbled} \cup {Whole(m) : m \in Map}
  /\ pc = [p \in Process |-> "idle"]
  /\ saving = [p \in Process |-> FALSE]
  /\ op = [p \in Process |-> Get]
  /\ local = [p \in Process |-> EmptyMap]
  /\ blind = {}
  /\ faults = 0

-----------------------------------------------------------------------------
(* A call: ReadStorage, then for a change SaveStorage                       *)

Goto(p, l) == pc' = [pc EXCEPT ![p] = l]

Call(p, o) ==
  /\ pc[p] = "idle"
  /\ op' = [op EXCEPT ![p] = o]
  /\ saving' = [saving EXCEPT ![p] = FALSE]
  /\ Goto(p, "probe")
  /\ UNCHANGED <<file, local, blind, faults>>

BeginChange(p) == \E o \in Change : Call(p, o)
BeginGet(p)    == (EarlyReaders \/ file.state # "missing") /\ Call(p, Get)

AfterProbe(p) == IF saving[p] THEN "truncate" ELSE "load"

\* Broken variant: the file is created whether or not it is there.
AlwaysCreate(p) ==
  /\ pc[p] = "probe"
  /\ Goto(p, "create")
  /\ UNCHANGED <<file, saving, op, local, blind, faults>>

\* createConfigFileIfMissing: nothing holds between the test and what follows.
Probe(p) ==
  /\ pc[p] = "probe"
  /\ Goto(p, IF file.state = "missing" THEN "create" ELSE AfterProbe(p))
  /\ UNCHANGED <<file, saving, op, local, blind, faults>>

\* A test that fails is logged, and the file created whether or not it is there.
ProbeFails(p) ==
  /\ pc[p] = "probe"
  /\ faults < MaxFaults
  /\ faults' = faults + 1
  /\ Goto(p, "create")
  /\ blind' = blind \cup {p}
  /\ UNCHANGED <<file, saving, op, local>>

\* os.Create empties a file that is there.
Create(p) ==
  /\ pc[p] = "create"
  /\ file' = Blank
  /\ Goto(p, "init")
  /\ UNCHANGED <<saving, op, local, blind, faults>>

\* No file is created, or no braces are put into it: the call goes on.
CreateFails(p) ==
  /\ pc[p] \in {"create", "init"}
  /\ faults < MaxFaults
  /\ faults' = faults + 1
  /\ Goto(p, AfterProbe(p))
  /\ blind' = blind \ {p}
  /\ UNCHANGED <<file, saving, op, local>>

\* "{}" at the start of the file: over anything longer it does not parse.
WriteBraces(p) ==
  /\ pc[p] = "init"
  /\ \/ file.map = EmptyMap /\ file' = Whole(EmptyMap)
     \/ /\ file.state = "garbled" \/ file.map # EmptyMap
        /\ file' = Garbled
  /\ Goto(p, AfterProbe(p))
  /\ blind' = blind \ {p}
  /\ UNCHANGED <<saving, op, local, faults>>

Loaded(p, m) ==
  /\ local' = [local EXCEPT ![p] = Applied(op[p], m)]
  /\ IF op[p] = Get
       THEN Goto(p, "idle") /\ UNCHANGED saving
       ELSE Goto(p, "probe") /\ saving' = [saving EXCEPT ![p] = TRUE]
  /\ UNCHANGED <<file, op>>

Load(p) ==
  /\ pc[p] = "load"
  /\ Loaded(p, file.map)
  /\ UNCHANGED <<blind, faults>>

\* A file that cannot be read is an empty configuration, and a change of it
\* goes on from there.
LoadFails(p) ==
  /\ pc[p] = "load"
  /\ faults < MaxFaults
  /\ faults' = faults + 1
  /\ Loaded(p, EmptyMap)
  /\ UNCHANGED blind

\* Broken variant: the old content is written over instead of cut off.
TruncateNot(p) ==
  /\ pc[p] = "truncate"
  /\ Goto(p, "write")
  /\ UNCHANGED <<file, saving, op, local, blind, faults>>

Truncate(p) ==
  /\ pc[p] = "truncate"
  /\ file' = Blank
  /\ Goto(p, "write")
  /\ UNCHANGED <<saving, op, local, blind, faults>>

Write(p) ==
  /\ pc[p] = "write"
  /\ \/ file' = Whole(local[p])
     \/ /\ file.state = "garbled" \/ file.map # EmptyMap
        /\ file' = Garbled
  /\ Goto(p, "idle")
  /\ UNCHANGED <<saving, op, local, blind, faults>>

\* SaveStorage logs what WriteFile fails with and the call returns the map
\* as if it had been saved: the file cannot be opened for writing ...
OpenFails(p) ==
  /\ pc[p] = "truncate"
  /\ faults < MaxFaults
  /\ faults' = faults + 1
  /\ Goto(p, "idle")
  /\ UNCHANGED <<file, saving, op, local, blind>>

\* ... or takes nothing or a part of the content.
WriteFails(p) ==
  /\ pc[p] = "write"
  /\ faults < MaxFaults
  /\ faults' = faults + 1
  /\ file' \in {file, Garbled}
  /\ Goto(p, "idle")
  /\ UNCHANGED <<saving, op, local, blind>>

Crash(p) ==
  /\ pc[p] # "idle"
  /\ faults < MaxFaults
  /\ faults' = faults + 1
  /\ Goto(p, "idle")
  /\ blind' = blind \ {p}
  /\ UNCHANGED <<file, saving, op, local>>

Step(p) ==
  \/ Probe(p) \/ Create(p) \/ WriteBraces(p) \/ Load(p)
  \/ Truncate(p) \/ Write(p)

Fault(p) ==
  \/ ProbeFails(p) \/ CreateFails(p) \/ LoadFails(p)
  \/ OpenFails(p) \/ WriteFails(p) \/ Crash(p)

Next ==
  \/ \E p \in Writer  : BeginChange(p)
  \/ \E p \in Reader  : BeginGet(p)
  \/ \E p \in Process : Step(p) \/ Fault(p)

Spec == Init /\ [][Next]_vars

-----------------------------------------------------------------------------
(* Properties *)

\* Every variable has its type; what is not whole reads as an empty map.
TypeOK ==
  /\ file \in File
  /\ pc \in [Process -> Pc]
  /\ saving \in [Process -> BOOLEAN]
  /\ op \in [Process -> Change \cup {Get}]
  /\ local \in [Process -> Map]
  /\ blind \subseteq Process
  /\ faults \in 0..MaxFaults

\* With one writer, and readers that start when the file is there, no file
\* comes to hold a mixture of two contents: what does not parse was there at
\* the start, or is the part of a content that a failed write left, or has the
\* braces in it of a reader whose test for the file had failed.
Parses == file.state # "garbled"
GarbledByFaultOnly ==
  [][Parses /\ ~Parses' => \/ faults' > faults
                           \/ \E r \in blind \ Writer : WriteBraces(r)]_vars

\* The map as the one writer knows it: what it is about to write, from the
\* moment the old content is cut off; and the map its call will leave, which
\* is settled once the old one was read.
TheWriter == CHOOSE w \in Writer : TRUE
StoredMap == IF pc[TheWriter] = "write" THEN local[TheWriter] ELSE file.map
Requested == IF pc[TheWriter] \in {"idle", "write"} THEN Get
                                                   ELSE op[TheWriter]
Outcome   == IF saving[TheWriter] /\ Requested # Get
               THEN local[TheWriter] ELSE Applied(Requested, StoredMap)
Due       == blind # {}

\* Towards its one writer, and whatever its readers do, the file is the map
\* of KeyValueStore: it changes by the writer's calls, each as a whole, and
\* what a failure can take, at once or later where the test for the file
\* failed, is everything and nothing less.
Promise == INSTANCE KeyValueStore
             WITH store <- StoredMap, request <- Requested,
                  outcome <- Outcome, due <- Due
ImplementsStore == Promise!Spec

=============================================================================
