---------------------------- MODULE KeyValueStore ----------------------------
(***************************************************************************)
(* What IKeyValueStorage promises its one writer: a map that changes by    *)
(* the calls it is asked for, one at a time.  The memory storage is this   *)
(* map.  A storage that can fail may forget: what it holds survives as a   *)
(* whole or not at all, and a failure may take it later, too, between any  *)
(* two calls or within one.                                                *)
(***************************************************************************)
EXTENDS ConfigMap, Naturals

CONSTANT MaxFaults

VARIABLES
  store,    \* the map
  request,  \* the change asked for, or Get
  outcome,  \* the map the change will leave
  due,      \* whether a failure may still take the map
  faults

vars == <<store, request, outcome, due, faults>>

Init ==
  /\ store \in Map
  /\ request = Get
  /\ outcome = store
  /\ ~due
  /\ faults = 0

Ask ==
  /\ request = Get
  /\ request' \in Change
  /\ outcome' = Applied(request', store)
  /\ UNCHANGED <<store, due, faults>>

Perform ==
  /\ request # Get
  /\ store' = outcome
  /\ request' = Get
  /\ UNCHANGED <<outcome, due, faults>>

\* The map is lost, or it is not; a change under way keeps what it has read,
\* or goes on from what is left.
Forget ==
  /\ store' \in {store, EmptyMap}
  /\ outcome' \in {outcome, Applied(request', store')}
  /\ due' \in BOOLEAN

Misread ==
  /\ outcome' = Applied(request, EmptyMap)
  /\ UNCHANGED <<store, request, due>>

Fault ==
  /\ faults < MaxFaults
  /\ faults' = faults + 1
  /\ \/ request' \in {request, Get} /\ Forget
     \/ Misread

\* What an earlier failure still takes.
LateLoss ==
  /\ due
  /\ Forget
  /\ UNCHANGED <<request, faults>>

Next == Ask \/ Perform \/ Fault \/ LateLoss

Spec == Init /\ [][Next]_vars

=============================================================================
