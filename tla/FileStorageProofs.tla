-------------------------- MODULE FileStorageProofs --------------------------
(***************************************************************************)
(* What FileStorage keeps for one writer, however many readers, keys and   *)
(* values there are.                                                       *)
(***************************************************************************)
EXTENDS FileStorage, TLAPS

\* The case the theorems are about.
OneWriter == Writer = {TheWriter} /\ ~EarlyReaders

-----------------------------------------------------------------------------
(* Maps and files *)

\* A call turns a map into a map.
LEMMA AppliedIsMap ==
  ASSUME NEW m \in Map, NEW o \in Change \cup {Get}
  PROVE  Applied(o, m) \in Map
  <1>1. CASE o = Get
    BY <1>1 DEF Applied, Get
  <1>2. CASE o \in Change /\ o.kind = "set"
    <2>1. o.key \in Key /\ o.value \in Value
      BY <1>2 DEF Change
    <2> QED BY <1>2, <2>1 DEF Applied, Map
  <1>3. CASE o \in Change /\ o.kind = "delete"
    <2>1. o.key \in Key
      BY <1>3 DEF Change
    <2> QED BY <1>3, <2>1 DEF Applied, Map
  <1>4. CASE o \in Change /\ o.kind = "deleteAll"
    BY <1>4 DEF Applied, Map, EmptyMap
  <1> QED BY <1>1, <1>2, <1>3, <1>4 DEF Change

\* The files there are.
LEMMA FilesAreFiles ==
  /\ EmptyMap \in Map
  /\ Missing \in File /\ Blank \in File /\ Garbled \in File
  /\ \A m \in Map : Whole(m) \in File
  /\ \A f \in File : f.map \in Map
  BY DEF File, Missing, Blank, Garbled, Whole, Map, EmptyMap

\* No change is a Get.
LEMMA ChangeIsNoGet == \A o \in Change : o # Get
  <1> SUFFICES ASSUME NEW o \in Change PROVE o.kind # "get"
    BY DEF Get
  <1> QED BY DEF Change

-----------------------------------------------------------------------------
(* Types *)

LEMMA InitTypeOK == Init => TypeOK
  BY FilesAreFiles, FileAssumption DEF Init, TypeOK, Pc

LEMMA LoadedTypeOK ==
  ASSUME TypeOK, NEW p \in Process, NEW m \in Map, Loaded(p, m)
  PROVE  /\ local' \in [Process -> Map]
         /\ pc' \in [Process -> Pc]
         /\ saving' \in [Process -> BOOLEAN]
         /\ file' = file /\ op' = op
  <1>1. Applied(op[p], m) \in Map
    BY AppliedIsMap DEF TypeOK
  <1> QED BY <1>1 DEF TypeOK, Loaded, Goto, Pc

LEMMA StepTypeOK == TypeOK /\ [Next]_vars => TypeOK'
  <1> SUFFICES ASSUME TypeOK, [Next]_vars PROVE TypeOK'
    OBVIOUS
  <1> USE FilesAreFiles, FileAssumption DEF TypeOK, Goto, Pc
  <1>1. ASSUME NEW p \in Process, NEW o \in Change \cup {Get}, Call(p, o)
        PROVE  TypeOK'
    BY <1>1 DEF Call
  <1>2. CASE \E p \in Writer : BeginChange(p)
    BY <1>1, <1>2 DEF BeginChange, Process
  <1>3. CASE \E p \in Reader : BeginGet(p)
    BY <1>1, <1>3 DEF BeginGet, Process
  <1>4. ASSUME NEW p \in Process, Step(p) PROVE TypeOK'
    <2>1. CASE Probe(p)       BY <2>1 DEF Probe, AfterProbe
    <2>2. CASE Create(p)      BY <2>2 DEF Create
    <2>3. CASE WriteBraces(p) BY <2>3 DEF WriteBraces, AfterProbe
    <2>4. CASE Load(p)
      <3>1. Loaded(p, file.map) /\ file.map \in Map
        BY <2>4 DEF Load
      <3>2. blind' = blind /\ faults' = faults
        BY <2>4 DEF Load
      <3> QED BY <3>1, <3>2, LoadedTypeOK
    <2>5. CASE Truncate(p)    BY <2>5 DEF Truncate
    <2>6. CASE Write(p)       BY <2>6 DEF Write
    <2> QED BY <1>4, <2>1, <2>2, <2>3, <2>4, <2>5, <2>6 DEF Step
  <1>5. ASSUME NEW p \in Process, Fault(p) PROVE TypeOK'
    <2>1. CASE LoadFails(p)
      <3>1. Loaded(p, EmptyMap)
        BY <2>1 DEF LoadFails
      <3>2. blind' = blind /\ faults' \in 0..MaxFaults
        BY <2>1 DEF LoadFails
      <3> QED BY <3>1, <3>2, LoadedTypeOK
    <2>2. CASE OpenFails(p)   BY <2>2 DEF OpenFails
    <2>3. CASE WriteFails(p)  BY <2>3 DEF WriteFails
    <2>4. CASE Crash(p)       BY <2>4 DEF Crash
    <2>5. CASE ProbeFails(p)  BY <2>5 DEF ProbeFails
    <2>6. CASE CreateFails(p) BY <2>6 DEF CreateFails, AfterProbe
    <2> QED BY <1>5, <2>1, <2>2, <2>3, <2>4, <2>5, <2>6 DEF Fault
  <1>6. CASE UNCHANGED vars
    BY <1>6 DEF vars
  <1> QED BY <1>2, <1>3, <1>4, <1>5, <1>6 DEF Next

\* Every variable keeps its type, with any number of writers and readers.
THEOREM TypeCorrect == Spec => []TypeOK
  <1> QED BY InitTypeOK, StepTypeOK, PTL DEF Spec

-----------------------------------------------------------------------------
(* One writer *)

\* What the writer's steps rest on: a reader creates the file only if its test
\* failed, and then the file is there; so what the writer finds missing stays
\* so until it goes on, and what it has emptied holds braces at most.
ReaderInv(r) ==
  /\ pc[r] \in {"idle", "probe", "create", "init", "load"}
  /\ pc[r] \in {"create", "init"} <=> r \in blind
  /\ ~saving[r]
  /\ op[r] = Get
  /\ pc[r] # "idle" => file.state # "missing"

WriterInv(w) ==
  /\ pc[w] # "idle" => op[w] \in Change
  /\ pc[w] = "load" => ~saving[w]
  /\ pc[w] \in {"truncate", "write"} => saving[w]
  /\ w \in blind => pc[w] \in {"create", "init"}
  /\ pc[w] = "create" /\ w \notin blind => file.state = "missing"
  /\ pc[w] \in {"init", "write"} =>
       file.state \in {"blank", "whole"} /\ file.map = EmptyMap

AbstractVars == <<StoredMap, Requested, Outcome, Due, faults>>

OneWriterInv ==
  /\ TypeOK
  /\ \A r \in Reader : ReaderInv(r)
  /\ \A w \in Writer : WriterInv(w)

LEMMA InitOneWriterInv == OneWriter /\ Init => OneWriterInv
  <1> SUFFICES ASSUME OneWriter, Init PROVE OneWriterInv
    OBVIOUS
  <1>1. TypeOK
    BY InitTypeOK
  <1>2. \A r \in Reader : ReaderInv(r)
    BY DEF Init, ReaderInv, Process
  <1>3. \A w \in Writer : WriterInv(w)
    BY DEF Init, WriterInv, Process
  <1> QED BY <1>1, <1>2, <1>3 DEF OneWriterInv

\* A reader changes nothing of the file, or its test for the file had failed:
\* it then empties it, or leaves braces in it.
LEMMA ReaderStep ==
  ASSUME OneWriter, OneWriterInv, NEW r \in Reader,
         BeginGet(r) \/ Step(r) \/ Fault(r)
  PROVE  /\ ReaderInv(r)'
         /\ \/ file' = file
            \/ /\ r \in blind /\ faults' = faults /\ file.state # "missing"
               /\ \/ file' \in {Blank, Whole(EmptyMap)}
                  \/ /\ file' = Garbled /\ WriteBraces(r)
                     /\ file.state = "garbled" \/ file.map # EmptyMap
         /\ \A q \in Process \ {r} :
              /\ pc'[q] = pc[q] /\ saving'[q] = saving[q] /\ op'[q] = op[q]
              /\ local'[q] = local[q] /\ (q \in blind' <=> q \in blind)
         /\ \/ faults' = faults /\ (blind' = blind \/ r \in blind)
            \/ faults < MaxFaults /\ faults' = faults + 1
  <1> USE DEF OneWriterInv, TypeOK, Goto, Process
  <1>0. ReaderInv(r) /\ r \in Process
    OBVIOUS
  <1>1. CASE BeginGet(r)
    <2>1. file.state # "missing"
      BY <1>1 DEF BeginGet, OneWriter
    <2> QED BY <1>0, <1>1, <2>1 DEF BeginGet, Call, ReaderInv
  <1>2. CASE Probe(r)
    BY <1>0, <1>2 DEF Probe, AfterProbe, ReaderInv
  <1>3. CASE Create(r)
    BY <1>0, <1>3 DEF Create, Blank, ReaderInv
  <1>4. CASE WriteBraces(r)
    BY <1>0, <1>4 DEF WriteBraces, AfterProbe, Garbled, Whole, ReaderInv
  <1>5. CASE Load(r)
    BY <1>0, <1>5 DEF Load, Loaded, ReaderInv
  <1>6. CASE ProbeFails(r)
    BY <1>0, <1>6 DEF ProbeFails, ReaderInv
  <1>7. CASE CreateFails(r)
    BY <1>0, <1>7 DEF CreateFails, AfterProbe, ReaderInv
  <1>8. CASE LoadFails(r)
    BY <1>0, <1>8 DEF LoadFails, Loaded, ReaderInv
  <1>9. CASE Crash(r)
    BY <1>0, <1>9 DEF Crash, ReaderInv
  <1>10. ~Truncate(r) /\ ~Write(r) /\ ~OpenFails(r) /\ ~WriteFails(r)
    BY <1>0 DEF ReaderInv, Truncate, Write, OpenFails, WriteFails
  <1> QED BY <1>1, <1>2, <1>3, <1>4, <1>5, <1>6, <1>7, <1>8, <1>9, <1>10
          DEF Step, Fault

\* What a reader does to the file is in the terms of KeyValueStore a loss that
\* was due, and it does not disturb the writer.
LEMMA ReaderSeen ==
  ASSUME OneWriter, OneWriterInv, NEW r \in Reader,
         BeginGet(r) \/ Step(r) \/ Fault(r)
  PROVE  /\ WriterInv(TheWriter)'
         /\ [Promise!Next]_AbstractVars
  <1> DEFINE w == TheWriter
  <1>1. w \in Process \ {r} /\ w \in Writer
    BY FileAssumption DEF OneWriter, Process
  <1>2. TypeOK /\ WriterInv(w)
    BY <1>1 DEF OneWriterInv
  <1>3. /\ pc'[w] = pc[w] /\ saving'[w] = saving[w] /\ op'[w] = op[w]
        /\ local'[w] = local[w] /\ (w \in blind' <=> w \in blind)
    BY <1>1, ReaderStep
  <1>4. \/ file' = file
        \/ /\ r \in blind /\ faults' = faults /\ file.state # "missing"
           /\ file'.map = EmptyMap
           /\ \/ file'.state \in {"blank", "whole"}
              \/ file.state = "garbled" \/ file.map # EmptyMap
    BY ReaderStep DEF Blank, Whole, Garbled
  <1>5. WriterInv(w)'
    BY <1>2, <1>3, <1>4 DEF WriterInv
  <1>6. /\ StoredMap = IF pc[w] = "write" THEN local[w] ELSE file.map
        /\ StoredMap' = IF pc[w] = "write" THEN local[w] ELSE file'.map
        /\ Requested' = Requested
        /\ \/ Outcome' = Outcome
           \/ Outcome' = Applied(Requested', StoredMap')
    BY <1>3 DEF StoredMap, Requested, Outcome
  <1>7. ASSUME file' = file PROVE StoredMap' = StoredMap /\ Outcome' = Outcome
    BY <1>3, <1>7 DEF StoredMap, Requested, Outcome
  <1>8. StoredMap' \in {StoredMap, EmptyMap}
    BY <1>4, <1>6
  <1>9. /\ Promise!EmptyMap = EmptyMap
        /\ \A o, m : Promise!Applied(o, m) = Applied(o, m)
    BY DEF EmptyMap, Promise!EmptyMap, Applied, Promise!Applied
  <1>10. Promise!Forget
    BY <1>6, <1>8, <1>9 DEF Promise!Forget, Due
  <1>11. CASE faults < MaxFaults /\ faults' = faults + 1
    BY <1>5, <1>6, <1>10, <1>11 DEF Promise!Next, Promise!Fault
  <1>12. CASE faults' = faults /\ r \in blind
    <2>1. Due
      BY <1>12 DEF Due
    <2> QED BY <1>5, <1>6, <1>10, <1>12, <2>1 DEF Promise!Next, Promise!LateLoss
  <1>13. CASE faults' = faults /\ blind' = blind /\ r \notin blind
    <2>1. file' = file
      BY <1>4, <1>13
    <2> QED BY <1>5, <1>6, <1>7, <1>13, <2>1 DEF AbstractVars, Due
  <1> QED BY <1>5, <1>11, <1>12, <1>13, ReaderStep

\* A step of the writer, in the terms of KeyValueStore.
LEMMA WriterStep ==
  ASSUME OneWriter, OneWriterInv, NEW w \in Writer,
         BeginChange(w) \/ Step(w) \/ Fault(w)
  PROVE  /\ WriterInv(w)'
         /\ file.state # "missing" => file'.state # "missing"
         /\ file.state # "garbled" /\ file'.state = "garbled"
              => faults' > faults
         /\ \A q \in Process \ {w} :
              /\ pc'[q] = pc[q] /\ saving'[q] = saving[q] /\ op'[q] = op[q]
              /\ local'[q] = local[q] /\ (q \in blind' <=> q \in blind)
         /\ [Promise!Next]_AbstractVars
  <1> DEFINE Others == \A q \in Process \ {w} :
                         /\ pc'[q] = pc[q] /\ saving'[q] = saving[q]
                         /\ op'[q] = op[q] /\ local'[q] = local[q]
                         /\ (q \in blind' <=> q \in blind)
             Stays == file.state # "missing" => file'.state # "missing"
             Clean == file.state # "garbled" /\ file'.state = "garbled"
                        => faults' > faults
             Abs == [Promise!Next]_AbstractVars
             Goal == WriterInv(w)' /\ Stays /\ Clean /\ Others /\ Abs
  <1>t. TypeOK
    BY DEF OneWriterInv
  <1>w. w = TheWriter /\ w \in Process /\ WriterInv(w)
    BY DEF OneWriter, OneWriterInv, Process
  <1>f. /\ file \in File /\ file.map \in Map /\ EmptyMap \in Map
        /\ file.state # "whole" => file.map = EmptyMap
        /\ faults \in Nat /\ local[w] \in Map
    BY <1>t, <1>w, FilesAreFiles, FileAssumption DEF TypeOK, File
  <1>g. /\ pc[w] # "idle" => op[w] \in Change /\ op[w] # Get
        /\ \A m : Applied(Get, m) = m
    BY <1>w, ChangeIsNoGet DEF WriterInv, Applied, Get
  <1>e. /\ Promise!EmptyMap = EmptyMap /\ Promise!Change = Change
        /\ Promise!Get = Get
        /\ \A o, m : Promise!Applied(o, m) = Applied(o, m)
    BY DEF EmptyMap, Promise!EmptyMap, Change, Promise!Change, Get, Promise!Get,
           Applied, Promise!Applied
  <1>v. /\ StoredMap = IF pc[w] = "write" THEN local[w] ELSE file.map
        /\ StoredMap' = IF pc'[w] = "write" THEN local'[w] ELSE file'.map
        /\ Requested = IF pc[w] \in {"idle", "write"} THEN Get ELSE op[w]
        /\ Requested' = IF pc'[w] \in {"idle", "write"} THEN Get ELSE op'[w]
    BY <1>w DEF StoredMap, Requested
  <1>o. /\ Outcome = IF saving[w] /\ Requested # Get THEN local[w]
                     ELSE Applied(Requested, StoredMap)
        /\ Outcome' = IF saving'[w] /\ Requested' # Get THEN local'[w]
                      ELSE Applied(Requested', StoredMap')
    BY <1>w DEF Outcome
  <1>s. ASSUME StoredMap' = StoredMap, Requested' = Requested,
               Outcome' = Outcome, blind' = blind, faults' = faults
        PROVE  Abs
    BY <1>s DEF AbstractVars, Due
  <1>x. ASSUME faults < MaxFaults, faults' = faults + 1,
               StoredMap' \in {StoredMap, EmptyMap},
               Requested' \in {Requested, Get},
               Outcome' \in {Outcome, Applied(Requested', StoredMap')}
        PROVE  Abs
    BY <1>x, <1>e DEF Promise!Next, Promise!Fault, Promise!Forget, Due
  <1>l. ASSUME w \in blind, faults' = faults,
               StoredMap' \in {StoredMap, EmptyMap}, Requested' = Requested,
               Outcome' \in {Outcome, Applied(Requested', StoredMap')}
        PROVE  Abs
    <2>1. Due
      BY <1>l DEF Due
    <2> QED BY <1>l, <1>e, <2>1 DEF Promise!Next, Promise!LateLoss, Promise!Forget, Due
  <1> USE DEF TypeOK, Goto, WriterInv
  <1>1. CASE BeginChange(w)
    <2>1. PICK o \in Change : Call(w, o)
      BY <1>1 DEF BeginChange
    <2>2. WriterInv(w)' /\ Stays /\ Clean /\ Others
      BY <2>1, <1>t, <1>w, <1>f DEF Call
    <2>3. /\ StoredMap' = StoredMap /\ Requested = Get /\ Requested' = o
          /\ ~saving'[w] /\ blind' = blind /\ faults' = faults
      BY <2>1, <1>t, <1>w, <1>v DEF Call
    <2>4. Outcome' = Applied(o, StoredMap)
      BY <1>o, <2>3
    <2>5. Promise!Ask
      BY <2>3, <2>4, <1>e DEF Promise!Ask, Due
    <2> QED BY <2>2, <2>5 DEF Promise!Next
  <1>2. CASE Probe(w)
    <2>1. WriterInv(w)' /\ Stays /\ Clean /\ Others
      BY <1>2, <1>t, <1>w, <1>f DEF Probe, AfterProbe
    <2>2. StoredMap' = StoredMap /\ Requested' = Requested
      BY <1>2, <1>t, <1>w, <1>v DEF Probe, AfterProbe
    <2>3. /\ Outcome' = Outcome /\ blind' = blind /\ faults' = faults
      BY <1>2, <2>2, <1>o DEF Probe
    <2> QED BY <2>1, <2>2, <2>3, <1>s
  <1>3. CASE Create(w)
    <2>1. WriterInv(w)' /\ Stays /\ Clean /\ Others
      BY <1>3, <1>t, <1>w, <1>f DEF Create, Blank
    <2>2. /\ StoredMap = file.map /\ StoredMap' = EmptyMap
          /\ Requested' = Requested /\ blind' = blind /\ faults' = faults
          /\ saving' = saving /\ local' = local
      BY <1>3, <1>t, <1>w, <1>v DEF Create, Blank
    <2>3. Outcome' \in {Outcome, Applied(Requested', StoredMap')}
      BY <2>2, <1>o
    <2>4. CASE w \in blind
      BY <2>1, <2>2, <2>3, <2>4, <1>l
    <2>5. CASE w \notin blind
      <3>1. file.map = EmptyMap
        BY <1>3, <2>5, <1>w, <1>f DEF Create
      <3>2. StoredMap' = StoredMap /\ Outcome' = Outcome
        BY <2>2, <3>1, <1>o
      <3> QED BY <2>1, <2>2, <3>2, <1>s
    <2> QED BY <2>4, <2>5
  <1>4. CASE WriteBraces(w)
    <2>1. file' = Whole(EmptyMap) /\ file.map = EmptyMap
      BY <1>4, <1>w, <1>f DEF WriteBraces
    <2>2. WriterInv(w)' /\ Stays /\ Clean /\ Others
      BY <1>4, <2>1, <1>t, <1>w, <1>f DEF WriteBraces, AfterProbe, Whole
    <2>3. /\ StoredMap' = StoredMap /\ Requested' = Requested /\ faults' = faults
          /\ saving' = saving /\ local' = local
      BY <1>4, <2>1, <1>t, <1>w, <1>f, <1>v DEF WriteBraces, AfterProbe, Whole
    <2>4. Outcome' = Outcome
      BY <2>3, <1>o
    <2>5. CASE w \in blind
      BY <2>2, <2>3, <2>4, <2>5, <1>l
    <2>6. CASE w \notin blind
      <3>1. blind' = blind
        BY <1>4, <2>6 DEF WriteBraces
      <3> QED BY <2>2, <2>3, <2>4, <3>1, <1>s
    <2> QED BY <2>5, <2>6
  <1>5. CASE Load(w)
    <2>1. op[w] \in Change /\ op[w] # Get /\ ~saving[w]
      BY <1>5, <1>w, <1>g DEF Load
    <2>2. WriterInv(w)' /\ Stays /\ Clean /\ Others
      BY <1>5, <2>1, <1>t, <1>w, <1>f DEF Load, Loaded
    <2>3. /\ StoredMap = file.map /\ StoredMap' = StoredMap
          /\ Requested = op[w] /\ Requested' = Requested
          /\ blind' = blind /\ faults' = faults
          /\ saving'[w] /\ local'[w] = Applied(op[w], file.map)
      BY <1>5, <2>1, <1>t, <1>w, <1>v DEF Load, Loaded
    <2>4. Outcome' = Outcome
      BY <2>1, <2>3, <1>o
    <2> QED BY <2>2, <2>3, <2>4, <1>s
  <1>6. CASE Truncate(w)
    <2>1. saving[w] /\ op[w] # Get
      BY <1>6, <1>w, <1>g DEF Truncate
    <2>2. WriterInv(w)' /\ Stays /\ Clean /\ Others
      BY <1>6, <1>t, <1>w, <1>f DEF Truncate, Blank
    <2>3. /\ StoredMap' = local[w] /\ Requested = op[w] /\ Requested' = Get
          /\ blind' = blind /\ faults' = faults
      BY <1>6, <1>t, <1>w, <1>v DEF Truncate
    <2>4. Outcome = local[w] /\ Outcome' = StoredMap'
      BY <2>1, <2>3, <1>g, <1>o
    <2>5. Promise!Perform
      BY <2>1, <2>3, <2>4, <1>e DEF Promise!Perform, Due
    <2> QED BY <2>2, <2>5 DEF Promise!Next
  <1>7. CASE Write(w)
    <2>1. file' = Whole(local[w])
      BY <1>7, <1>w, <1>f DEF Write
    <2>2. WriterInv(w)' /\ Stays /\ Clean /\ Others
      BY <1>7, <2>1, <1>t, <1>w, <1>f DEF Write, Whole
    <2>3. /\ StoredMap' = StoredMap /\ Requested = Get /\ Requested' = Get
          /\ blind' = blind /\ faults' = faults
      BY <1>7, <2>1, <1>t, <1>w, <1>f, <1>v DEF Write, Whole
    <2>4. Outcome' = Outcome
      BY <2>3, <1>o
    <2> QED BY <2>2, <2>3, <2>4, <1>s
  <1>8. CASE LoadFails(w)
    <2>1. op[w] \in Change /\ op[w] # Get
      BY <1>8, <1>w, <1>g DEF LoadFails
    <2>2. WriterInv(w)' /\ Stays /\ Clean /\ Others
      BY <1>8, <2>1, <1>t, <1>w, <1>f DEF LoadFails, Loaded
    <2>3. /\ StoredMap' = StoredMap /\ Requested = op[w] /\ Requested' = Requested
          /\ blind' = blind /\ faults < MaxFaults /\ faults' = faults + 1
          /\ saving'[w] /\ local'[w] = Applied(op[w], EmptyMap)
      BY <1>8, <2>1, <1>t, <1>w, <1>v DEF LoadFails, Loaded
    <2>4. Outcome' = Applied(Requested, EmptyMap)
      BY <2>1, <2>3, <1>o
    <2>5. Promise!Fault
      BY <2>3, <2>4, <1>e DEF Promise!Fault, Promise!Misread, Due
    <2> QED BY <2>2, <2>5 DEF Promise!Next
  <1>9. CASE ProbeFails(w)
    <2>1. WriterInv(w)' /\ Stays /\ Clean /\ Others
      BY <1>9, <1>t, <1>w, <1>f DEF ProbeFails
    <2>2. /\ StoredMap' = StoredMap /\ Requested' = Requested
          /\ saving' = saving /\ local' = local
      BY <1>9, <1>t, <1>w, <1>v DEF ProbeFails
    <2>3. Outcome' = Outcome
      BY <2>2, <1>o
    <2> QED BY <1>9, <2>1, <2>2, <2>3, <1>x DEF ProbeFails
  <1>10. CASE CreateFails(w)
    <2>1. WriterInv(w)' /\ Stays /\ Clean /\ Others
      BY <1>10, <1>t, <1>w, <1>f DEF CreateFails, AfterProbe
    <2>2. /\ StoredMap' = StoredMap /\ Requested' = Requested
          /\ saving' = saving /\ local' = local
      BY <1>10, <1>t, <1>w, <1>v DEF CreateFails, AfterProbe
    <2>3. Outcome' = Outcome
      BY <2>2, <1>o
    <2> QED BY <1>10, <2>1, <2>2, <2>3, <1>x DEF CreateFails
  <1>11. CASE OpenFails(w)
    <2>1. WriterInv(w)' /\ Stays /\ Clean /\ Others
      BY <1>11, <1>t, <1>w, <1>f DEF OpenFails
    <2>2. StoredMap' = StoredMap /\ Requested' = Get
      BY <1>11, <1>t, <1>w, <1>v DEF OpenFails
    <2>3. Outcome' = Applied(Requested', StoredMap')
      BY <2>2, <1>o
    <2> QED BY <1>11, <2>1, <2>2, <2>3, <1>x DEF OpenFails
  <1>12. CASE WriteFails(w)
    <2>1. file' \in {file, Garbled} /\ file.map = EmptyMap /\ file'.map = EmptyMap
      BY <1>12, <1>w, <1>f DEF WriteFails, Garbled
    <2>2. WriterInv(w)' /\ Stays /\ Clean /\ Others
      BY <1>12, <2>1, <1>t, <1>w, <1>f DEF WriteFails, Garbled
    <2>3. StoredMap' = EmptyMap /\ Requested' = Get
      BY <1>12, <2>1, <1>t, <1>w, <1>v DEF WriteFails
    <2>4. Outcome' = Applied(Requested', StoredMap')
      BY <2>3, <1>o
    <2> QED BY <1>12, <2>2, <2>3, <2>4, <1>x DEF WriteFails
  <1>13. CASE Crash(w)
    <2>1. WriterInv(w)' /\ Stays /\ Clean /\ Others
      BY <1>13, <1>t, <1>w, <1>f DEF Crash
    <2>2. StoredMap' \in {StoredMap, EmptyMap} /\ Requested' = Get
      BY <1>13, <1>t, <1>w, <1>f, <1>v DEF Crash
    <2>3. Outcome' = Applied(Requested', StoredMap')
      BY <2>2, <1>o
    <2> QED BY <1>13, <2>1, <2>2, <2>3, <1>x DEF Crash
  <1> QED BY <1>1, <1>2, <1>3, <1>4, <1>5, <1>6, <1>7, <1>8, <1>9, <1>10, <1>11,
             <1>12, <1>13
          DEF Step, Fault

LEMMA StepOneWriterInv ==
  ASSUME OneWriter, OneWriterInv, [Next]_vars
  PROVE  /\ OneWriterInv'
         /\ [Promise!Next]_AbstractVars
         /\ Parses /\ ~Parses' => \/ faults' > faults
                                  \/ \E r \in blind \ Writer : WriteBraces(r)
  <1> DEFINE Clean == Parses /\ ~Parses' =>
                        \/ faults' > faults
                        \/ \E r \in blind \ Writer : WriteBraces(r)
  <1>t. TypeOK'
    BY StepTypeOK DEF OneWriterInv
  <1>p. Writer = {TheWriter} /\ Writer \cap Reader = {}
    BY FileAssumption DEF OneWriter
  <1>1. ASSUME NEW w \in Writer, BeginChange(w) \/ Step(w) \/ Fault(w)
        PROVE  OneWriterInv' /\ [Promise!Next]_AbstractVars /\ Clean
    <2>1. /\ WriterInv(w)'
          /\ file.state # "missing" => file'.state # "missing"
          /\ file.state # "garbled" /\ file'.state = "garbled"
               => faults' > faults
          /\ [Promise!Next]_AbstractVars
      BY <1>1, WriterStep
    <2>2. ASSUME NEW r \in Reader PROVE ReaderInv(r)'
      <3>1. /\ pc'[r] = pc[r] /\ saving'[r] = saving[r] /\ op'[r] = op[r]
            /\ (r \in blind' <=> r \in blind)
        BY <1>1, <1>p, WriterStep DEF Process
      <3>2. ReaderInv(r)
        BY DEF OneWriterInv
      <3> QED BY <2>1, <3>1, <3>2 DEF ReaderInv
    <2> QED BY <1>t, <1>p, <2>1, <2>2 DEF OneWriterInv, Parses
  <1>2. ASSUME NEW r \in Reader, BeginGet(r) \/ Step(r) \/ Fault(r)
        PROVE  OneWriterInv' /\ [Promise!Next]_AbstractVars /\ Clean
    <2>1. /\ ReaderInv(r)'
          /\ \A q \in Process \ {r} :
               /\ pc'[q] = pc[q] /\ saving'[q] = saving[q] /\ op'[q] = op[q]
               /\ local'[q] = local[q] /\ (q \in blind' <=> q \in blind)
      BY <1>2, ReaderStep
    <2>2. \/ file' = file
          \/ /\ r \in blind /\ file.state # "missing" /\ file'.state # "missing"
             /\ file'.state = "garbled" => WriteBraces(r)
      BY <1>2, ReaderStep DEF Blank, Whole, Garbled
    <2>3. WriterInv(TheWriter)' /\ [Promise!Next]_AbstractVars
      BY <1>2, ReaderSeen
    <2>4. ASSUME NEW q \in Reader PROVE ReaderInv(q)'
      <3>1. CASE q = r BY <2>1, <3>1
      <3>2. CASE q # r
        <4>1. ReaderInv(q) /\ q \in Process \ {r}
          BY <3>2 DEF OneWriterInv, Process
        <4> QED BY <2>1, <2>2, <4>1 DEF ReaderInv
      <3> QED BY <3>1, <3>2
    <2>5. Clean
      BY <2>2, <1>p DEF Parses
    <2> QED BY <1>t, <1>p, <2>3, <2>4, <2>5 DEF OneWriterInv
  <1>3. CASE UNCHANGED vars
    <2>1. AbstractVars' = AbstractVars
      BY <1>3 DEF vars, AbstractVars, StoredMap, Requested, Outcome, Due
    <2>2. ASSUME NEW r \in Reader PROVE ReaderInv(r)'
      <3>1. ReaderInv(r) BY DEF OneWriterInv
      <3> QED BY <1>3, <3>1 DEF ReaderInv, vars
    <2>3. ASSUME NEW w \in Writer PROVE WriterInv(w)'
      <3>1. WriterInv(w) BY DEF OneWriterInv
      <3> QED BY <1>3, <3>1 DEF WriterInv, vars
    <2> QED BY <1>3, <1>t, <2>1, <2>2, <2>3 DEF OneWriterInv, Parses, vars
  <1>4. \/ \E w \in Writer : BeginChange(w) \/ Step(w) \/ Fault(w)
        \/ \E r \in Reader : BeginGet(r) \/ Step(r) \/ Fault(r)
        \/ UNCHANGED vars
    BY DEF Next, Process
  <1> QED BY <1>1, <1>2, <1>3, <1>4

\* With one writer a file that parses is made into one that does not only by a
\* step that fails, or by the braces of a reader whose test for the file had
\* failed (createConfigFileIfMissing, WriteFile over a file that was cut off).
THEOREM OnlyFaultsGarble == ASSUME OneWriter PROVE Spec => GarbledByFaultOnly
  <1>1. Init => OneWriterInv
    BY InitOneWriterInv
  <1>2. OneWriterInv /\ [Next]_vars => OneWriterInv'
    BY StepOneWriterInv
  <1>3. OneWriterInv /\ [Next]_vars
          => [Parses /\ ~Parses' => \/ faults' > faults
                                   \/ \E r \in blind \ Writer : WriteBraces(r)]_vars
    BY StepOneWriterInv
  <1> QED BY <1>1, <1>2, <1>3, PTL DEF Spec, GarbledByFaultOnly

\* The file is a KeyValueStore for its one writer: fileKeyValueStorage keeps
\* the promise of IKeyValueStorage, and a failure loses all or nothing, at once
\* or when the file that could not be tested for is created.
THEOREM StoreImplemented == ASSUME OneWriter PROVE Spec => ImplementsStore
  <1>1. Init => OneWriterInv
    BY InitOneWriterInv
  <1>2. Init => Promise!Init
    <2> SUFFICES ASSUME Init PROVE Promise!Init
      OBVIOUS
    <2>1. TheWriter \in Process
      BY DEF OneWriter, Process
    <2>2. file.map \in Map
      BY FilesAreFiles DEF Init, Missing, Blank, Garbled, Whole
    <2> QED BY <2>1, <2>2
            DEF Init, Promise!Init, Promise!Map, Map, Promise!Get, Get,
                StoredMap, Requested, Outcome, Due, Applied
  <1>3. OneWriterInv /\ [Next]_vars => OneWriterInv'
    BY StepOneWriterInv
  <1>4. OneWriterInv /\ [Next]_vars
          => [Promise!Next]_AbstractVars
    BY StepOneWriterInv
  <1> QED BY <1>1, <1>2, <1>3, <1>4, PTL
          DEF Spec, ImplementsStore, Promise!Spec, Promise!vars, AbstractVars

=============================================================================
