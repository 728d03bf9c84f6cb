--------------------------- MODULE RehearsalProofs ---------------------------
(***************************************************************************)
(* Proofs about the isolation of rehearsals, for any set of keys and of    *)
(* execution names and any number of invocations of one process.           *)
(*                                                                         *)
(* The type invariant is inductive as it stands: it says that the active   *)
(* context is the running rehearsal's.  Everything else follows from what  *)
(* it makes of a call: under a rehearsal every call is re-keyed into the   *)
(* rehearsal's own namespace, and in production none is.                   *)
(***************************************************************************)
EXTENDS Rehearsal, TLAPS

\* The active context in plain terms.
Shape ==
    /\ run \in Rehearsals => active = {[id |-> count, name |-> run]}
    /\ run \notin Rehearsals => active = {}

LEMMA ActiveShape == TypeOK => Shape
<1>1. ASSUME TypeOK, run \in Rehearsals PROVE active = {[id |-> count, name |-> run]}
  BY <1>1 DEF TypeOK
<1>2. ASSUME TypeOK, run \notin Rehearsals PROVE active = {}
  BY <1>2 DEF TypeOK
<1> QED BY <1>1, <1>2 DEF Shape

LEMMA ShapeIsActive ==
  ASSUME Shape
  PROVE  active = {h \in [id : {count}, name : Rehearsals] : h.name = run}
<1>1. CASE run \in Rehearsals BY <1>1 DEF Shape
<1>2. CASE run \notin Rehearsals BY <1>2 DEF Shape
<1> QED BY <1>1, <1>2

\* Under a rehearsal every call is re-keyed into the rehearsal's namespace;
\* in production none is, whichever client it goes through.
LEMMA Routing ==
  ASSUME RehearsalAssumption, TypeOK, NEW hooks \in ClientHooks
  PROVE  /\ run \in Rehearsals => Rekeyed(hooks) /\ Namespace(hooks) = run
         /\ run \notin Rehearsals => ~Rekeyed(hooks)
<1>1. Shape BY ActiveShape
<1>2. CASE run \in Rehearsals
  <2>1. hooks = active BY <1>2 DEF ClientHooks, TypeOK, RehearsalAssumption
  <2>2. Acting(hooks) = {[id |-> count, name |-> run]} BY <2>1, <1>1, <1>2 DEF Acting, Shape
  <2>3. Rekeyed(hooks) BY <2>2 DEF Rekeyed
  <2>4. (CHOOSE h \in {[id |-> count, name |-> run]} : TRUE) = [id |-> count, name |-> run]
    OBVIOUS
  <2>5. (CHOOSE h \in Acting(hooks) : TRUE) = [id |-> count, name |-> run]
    BY <2>2, <2>4
  <2>6. [id |-> count, name |-> run].name = run OBVIOUS
  <2>7. Namespace(hooks) = [id |-> count, name |-> run].name
    BY ONLY <2>5, Zenon DEF Namespace
  <2> QED BY <2>3, <2>6, <2>7, <1>2
<1>3. CASE run \notin Rehearsals
  BY <1>1, <1>3 DEF Shape, Rekeyed, Acting
<1> QED BY <1>2, <1>3

\* Past its first invocation a process has counted one.
Counted == run # Idle => 1 <= count

Inv == TypeOK /\ Counted

\* A kept client carries only hooks of this process's invocations.
LEMMA KeptStaysTyped ==
  ASSUME RehearsalAssumption, Inv, run # Idle,
         NEW hooks \in ClientHooks, Keep(hooks)
  PROVE  kept' \subseteq [id : 1 .. count, name : Rehearsals]
<1>1. Shape BY ActiveShape DEF Inv
<1>2. active \subseteq [id : 1 .. count, name : Rehearsals]
  <2>1. CASE run \in Rehearsals
    <3>1. count \in 1 .. count BY DEF Inv, Counted, TypeOK, RehearsalAssumption
    <3> QED BY <2>1, <1>1, <3>1 DEF Shape
  <2>2. CASE run \notin Rehearsals BY <2>2, <1>1 DEF Shape
  <2> QED BY <2>1, <2>2
<1>3. hooks \subseteq [id : 1 .. count, name : Rehearsals]
  BY <1>2 DEF ClientHooks, Inv, TypeOK
<1> QED BY <1>3 DEF Keep, Inv, TypeOK

LEMMA InvInit == ASSUME RehearsalAssumption, Init PROVE Inv
<1>1. active = {h \in [id : {count}, name : Rehearsals] : h.name = run}
  BY DEF Init, RehearsalAssumption
<1>2. space \in [Rehearsals -> [Keys -> Objects]] /\ live \in [Keys -> Objects]
  BY DEF Init, Objects
<1>3. count \in 0 .. MaxInvocations BY DEF Init, RehearsalAssumption
<1>4. overlay \subseteq Keys /\ kept \subseteq [id : 1 .. count, name : Rehearsals]
  BY DEF Init
<1>5. registered = active /\ run = Idle /\ degraded = FALSE BY DEF Init
<1> QED BY <1>1, <1>2, <1>3, <1>4, <1>5 DEF Inv, TypeOK, Counted

\* Leaving an invocation leaves no context and no hook.
LEMMA InvExit ==
  ASSUME RehearsalAssumption, Inv, Exit \/ (run' = Idle /\ active' = {} /\ registered' = {}),
         count' = count
  PROVE  /\ active' = {h \in [id : {count'}, name : Rehearsals] : h.name = run'}
         /\ registered' = active'
         /\ Counted'
<1>1. active' = {} /\ run' = Idle /\ registered' = {}
  BY DEF Exit, Inv, TypeOK
<1> QED BY <1>1 DEF RehearsalAssumption, Counted

\* What a call leaves at its keys are objects.
LEMMA ServedTyped ==
  ASSUME RehearsalAssumption, TypeOK, NEW hooks \in ClientHooks, NEW k \in Keys
  PROVE  Served(k, hooks) \in Objects
<1>1. CASE run \in Rehearsals
  BY <1>1, Routing DEF Served, TypeOK
<1>2. CASE run \notin Rehearsals
  BY <1>2, Routing DEF Served, TypeOK
<1> QED BY <1>1, <1>2

LEMMA StoreTyped ==
  ASSUME RehearsalAssumption, TypeOK, NEW hooks \in ClientHooks, NEW k \in Keys,
         NEW v \in Objects, Store(k, v, hooks)
  PROVE  /\ live' \in [Keys -> Objects]
         /\ space' \in [Rehearsals -> [Keys -> Objects]]
         /\ overlay' \subseteq Keys
<1>1. CASE run \in Rehearsals
  <2>1. Rekeyed(hooks) /\ Namespace(hooks) = run BY <1>1, Routing
  <2>2. space' = [space EXCEPT ![run][k] = v] /\ overlay' = overlay \cup {k} /\ live' = live
    BY <2>1 DEF Store
  <2> QED BY <2>2, <1>1 DEF TypeOK
<1>2. CASE run \notin Rehearsals
  <2>1. ~Rekeyed(hooks) BY <1>2, Routing
  <2> QED BY <2>1 DEF Store, TypeOK
<1> QED BY <1>1, <1>2

LEMMA DeleteTyped ==
  ASSUME RehearsalAssumption, TypeOK, NEW hooks \in ClientHooks, NEW K \in SUBSET Keys,
         Delete(K, hooks)
  PROVE  /\ live' \in [Keys -> Objects]
         /\ space' \in [Rehearsals -> [Keys -> Objects]]
         /\ overlay' \subseteq Keys
<1>1. CASE run \in Rehearsals
  <2>1. Rekeyed(hooks) /\ Namespace(hooks) = run BY <1>1, Routing
  <2>2. /\ space' = [space EXCEPT ![run] = [k \in Keys |-> IF k \in K THEN Absent ELSE @[k]]]
        /\ overlay' = overlay \ K /\ live' = live
    BY <2>1 DEF Delete
  <2>3. [k \in Keys |-> IF k \in K THEN Absent ELSE space[run][k]] \in [Keys -> Objects]
    BY <1>1 DEF TypeOK, Objects
  <2> QED BY <2>2, <2>3, <1>1 DEF TypeOK
<1>2. CASE run \notin Rehearsals
  <2>1. ~Rekeyed(hooks) BY <1>2, Routing
  <2> QED BY <2>1 DEF Delete, TypeOK, Objects
<1> QED BY <1>1, <1>2

LEMMA InvNext == ASSUME RehearsalAssumption, Inv, [Next]_vars PROVE Inv'
<1> USE DEF Inv
<1>1. CASE Invoke
  <2>1. count' = count + 1 /\ count' \in 1 .. MaxInvocations /\ run = Idle
    BY <1>1 DEF Invoke, TypeOK, RehearsalAssumption
  <2>2. kept' \subseteq [id : 1 .. count', name : Rehearsals]
    BY <1>1, <2>1 DEF Invoke, TypeOK
  <2>3. active = {} /\ registered = {}
    BY <2>1, ActiveShape DEF Shape, TypeOK, RehearsalAssumption
  <2>4. /\ active' = {h \in [id : {count'}, name : Rehearsals] : h.name = run'}
        /\ registered' = active' /\ overlay' \subseteq Keys
        /\ run' \in Rehearsals \cup {Production}
    <3>1. CASE run' = Production /\ UNCHANGED <<active, overlay, registered>>
      BY <3>1, <2>3 DEF TypeOK, RehearsalAssumption
    <3>2. CASE \E r \in Rehearsals : Enter(r)
      BY <3>2, <2>1, <2>3 DEF Enter, Hook, Primed
    <3> QED BY <1>1, <3>1, <3>2 DEF Invoke, RehearsalName
  <2>5. /\ live' \in [Keys -> Objects]
        /\ space' \in [Rehearsals -> [Keys -> Objects]]
        /\ degraded' \in BOOLEAN
    BY <1>1 DEF Invoke, TypeOK
  <2> QED BY <2>1, <2>2, <2>4, <2>5 DEF TypeOK, Counted
<1>2. CASE Finish
  BY <1>2, InvExit DEF Finish, TypeOK, Exit
<1>3. CASE Die
  BY <1>3, InvExit DEF Die, TypeOK
<1>4. CASE Write
  <2>1. PICK hooks \in ClientHooks :
          /\ Keep(hooks)
          /\ \/ \E k \in Keys : Put(k, hooks) \/ FailedPut(k, hooks) \/ PutPrefixed(k)
             \/ \E from, k \in Keys : Copy(from, k, hooks)
             \/ \E K \in SUBSET Keys : Delete(K, hooks)
    BY <1>4 DEF Write
  <2>2. run # Idle /\ UNCHANGED <<run, active, registered, count, degraded>>
    BY <1>4 DEF Write
  <2>3. kept' \subseteq [id : 1 .. count', name : Rehearsals]
    BY <2>1, <2>2, KeptStaysTyped
  <2>4. /\ live' \in [Keys -> Objects]
        /\ space' \in [Rehearsals -> [Keys -> Objects]]
        /\ overlay' \subseteq Keys
    <3>1. ASSUME NEW k \in Keys, Put(k, hooks) PROVE <2>4!:
      <4>1. run \in Objects BY <2>2 DEF TypeOK, Objects
      <4> QED BY <3>1, <4>1, StoreTyped DEF Put
    <3>2. ASSUME NEW k \in Keys, FailedPut(k, hooks) PROVE <2>4!:
      BY <3>2 DEF FailedPut, TypeOK
    <3>3. ASSUME NEW k \in Keys, PutPrefixed(k) PROVE <2>4!:
      BY <3>3 DEF PutPrefixed, TypeOK, Objects
    <3>4. ASSUME NEW from \in Keys, NEW k \in Keys, Copy(from, k, hooks) PROVE <2>4!:
      BY <3>4, ServedTyped, StoreTyped DEF Copy
    <3>5. ASSUME NEW K \in SUBSET Keys, Delete(K, hooks) PROVE <2>4!:
      BY <3>5, DeleteTyped
    <3> QED BY <2>1, <3>1, <3>2, <3>3, <3>4, <3>5
  <2> QED BY <2>2, <2>3, <2>4 DEF TypeOK, Counted
<1>5. CASE Get
  <2>1. PICK hooks \in ClientHooks : Keep(hooks) BY <1>5 DEF Get
  <2>2. run # Idle BY <1>5 DEF Get
  <2>3. kept' \subseteq [id : 1 .. count, name : Rehearsals]
    BY <2>1, <2>2, KeptStaysTyped
  <2> QED BY <2>3, <1>5 DEF Get, TypeOK, Counted
<1>6. CASE Refuse
  BY <1>6, InvExit DEF Refuse, TypeOK, Exit
<1>7. CASE StaleInput
  <2>1. CASE did'[1] = "note"
    <3>1. UNCHANGED <<live, space, run, active, overlay, registered, kept, count>>
      BY <1>7, <2>1 DEF StaleInput, Exit, Did
    <3>2. \E b : degraded' = (degraded \/ b)
      BY <1>7, <2>1 DEF StaleInput, Exit, Did
    <3>3. degraded' \in BOOLEAN
      BY <3>2
    <3> QED BY <3>1, <3>3 DEF TypeOK, Counted
  <2>2. CASE did'[1] # "note"
    BY <1>7, <2>2, InvExit DEF StaleInput, Did, TypeOK, Exit
  <2> QED BY <2>1, <2>2
<1>8. CASE OthersWrite
  <2>1. UNCHANGED <<run, active, overlay, registered, kept, count, degraded>>
    BY <1>8 DEF OthersWrite, process
  <2>2. /\ live' \in [Keys -> Objects]
        /\ space' \in [Rehearsals -> [Keys -> Objects]]
    BY <1>8 DEF OthersWrite, TypeOK, Objects
  <2> QED BY <2>1, <2>2 DEF TypeOK, Counted
<1>9. CASE UNCHANGED vars
  BY <1>9 DEF vars, process, TypeOK, Counted
<1> QED BY <1>1, <1>2, <1>3, <1>4, <1>5, <1>6, <1>7, <1>8, <1>9 DEF Next

\* The state keeps its types, and a context is active exactly during a
\* rehearsal and is that rehearsal's (rehearsal.isolate and its finally).
THEOREM RehearsalTypeCorrect == Spec => []TypeOK
<1>1. Spec => []Inv
  <2>1. Init => Inv BY InvInit, RehearsalAssumption
  <2>2. Inv /\ [Next]_vars => Inv' BY InvNext, RehearsalAssumption
  <2> QED BY <2>1, <2>2, PTL DEF Spec
<1>2. Inv => TypeOK BY DEF Inv
<1> QED BY <1>1, <1>2, PTL

-----------------------------------------------------------------------------
(* Production and the live objects. *)

\* What one call changes: in a rehearsal nothing live, in production no
\* namespace.
LEMMA WriteStaysHome ==
  ASSUME RehearsalAssumption, TypeOK, Write
  PROVE  /\ run \in Rehearsals => live' = live
         /\ run = Production => space' = space
<1>1. PICK hooks \in ClientHooks :
        \/ \E k \in Keys : Put(k, hooks) \/ FailedPut(k, hooks) \/ PutPrefixed(k)
        \/ \E from, k \in Keys : Copy(from, k, hooks)
        \/ \E K \in SUBSET Keys : Delete(K, hooks)
  BY DEF Write
<1>2. CASE run \in Rehearsals
  <2>1. Rekeyed(hooks) BY <1>2, Routing
  <2> QED BY <1>1, <1>2, <2>1 DEF Put, FailedPut, PutPrefixed, Copy, Delete, Store,
                                  RehearsalAssumption
<1>3. CASE run \notin Rehearsals
  <2>1. ~Rekeyed(hooks) BY <1>3, Routing
  <2> QED BY <1>1, <1>3, <2>1 DEF Put, FailedPut, PutPrefixed, Copy, Delete, Store
<1> QED BY <1>2, <1>3

\* Only a rehearsal is degraded while it runs.
DegradedIsRehearsal == degraded /\ run # Idle => run \in Rehearsals

LEMMA DegradedNext ==
  ASSUME RehearsalAssumption, Inv, DegradedIsRehearsal, [Next]_vars
  PROVE  DegradedIsRehearsal'
<1>1. CASE StaleInput
  <2>1. TolerateStale => run \in Rehearsals
    BY ActiveShape DEF TolerateStale, Shape, Inv
  <2> QED BY <2>1, <1>1 DEF StaleInput, Exit, DegradedIsRehearsal
<1>2. CASE Invoke BY <1>2 DEF Invoke, DegradedIsRehearsal
<1>3. CASE Finish \/ Refuse BY <1>3 DEF Finish, Refuse, Exit, DegradedIsRehearsal
<1>4. CASE Die BY <1>4 DEF Die, DegradedIsRehearsal
<1>5. CASE Write BY <1>5 DEF Write, DegradedIsRehearsal
<1>6. CASE Get BY <1>6 DEF Get, DegradedIsRehearsal
<1>7. CASE OthersWrite BY <1>7 DEF OthersWrite, process, DegradedIsRehearsal
<1>8. CASE UNCHANGED vars BY <1>8 DEF vars, process, DegradedIsRehearsal
<1> QED BY <1>1, <1>2, <1>3, <1>4, <1>5, <1>6, <1>7, <1>8 DEF Next

\* Steps of this process other than its S3 writes change no object.
LEMMA OnlyWritesWrite ==
  ASSUME Next, ~Write, ~OthersWrite
  PROVE  live' = live /\ space' = space
BY DEF Next, Invoke, Finish, Die, Get, Refuse, StaleInput

\* A rehearsal that went on past a stale or missing input, and is recorded as
\* degraded for it, never changes a live object.
THEOREM DegradedRunsStayPrivate == Spec => DegradedStaysPrivate
<1>1. Init => Inv BY InvInit, RehearsalAssumption
<1>2. Inv /\ [Next]_vars => Inv' BY InvNext, RehearsalAssumption
<1>3. Init => DegradedIsRehearsal BY DEF Init, DegradedIsRehearsal
<1>4. Inv /\ DegradedIsRehearsal /\ [Next]_vars => DegradedIsRehearsal'
  BY DegradedNext, RehearsalAssumption
<1>5. Inv /\ DegradedIsRehearsal /\ [Next]_vars
        => [degraded /\ run # Idle /\ did'[1] # "others" => live' = live]_vars
  <2> SUFFICES ASSUME Inv, DegradedIsRehearsal, Next, degraded, run # Idle,
                      did'[1] # "others"
               PROVE  live' = live
    BY DEF vars
  <2>1. run \in Rehearsals BY DEF DegradedIsRehearsal
  <2>2. ~OthersWrite BY DEF OthersWrite, Did
  <2>3. CASE Write BY <2>1, <2>3, WriteStaysHome, RehearsalAssumption DEF Inv
  <2>4. CASE ~Write BY <2>2, <2>4, OnlyWritesWrite
  <2> QED BY <2>3, <2>4
<1> QED BY <1>1, <1>2, <1>3, <1>4, <1>5, PTL DEF Spec, DegradedStaysPrivate

\* A production invocation changes no rehearsal's namespace, whatever client
\* it goes through.
THEOREM ProductionKeepsOut == Spec => ProductionLeavesNamespaces
<1>1. Init => Inv BY InvInit, RehearsalAssumption
<1>2. Inv /\ [Next]_vars => Inv' BY InvNext, RehearsalAssumption
<1>3. Inv /\ [Next]_vars
        => [run = Production /\ did'[1] # "others" => space' = space]_vars
  <2> SUFFICES ASSUME Inv, Next, run = Production, did'[1] # "others"
               PROVE  space' = space
    BY DEF vars
  <2>1. ~OthersWrite BY DEF OthersWrite, Did
  <2>2. CASE Write BY <2>2, WriteStaysHome, RehearsalAssumption DEF Inv
  <2>3. CASE ~Write BY <2>1, <2>3, OnlyWritesWrite
  <2> QED BY <2>2, <2>3
<1> QED BY <1>1, <1>2, <1>3, PTL DEF Spec, ProductionLeavesNamespaces

-----------------------------------------------------------------------------
(* The isolation implements the private view. *)

\* Outside a rehearsal nothing is covered.
Uncovered == run \notin Rehearsals => overlay = {}

LEMMA UncoveredNext ==
  ASSUME RehearsalAssumption, Inv, Uncovered, [Next]_vars
  PROVE  Uncovered'
<1>1. CASE Invoke
  BY <1>1 DEF Invoke, Uncovered, Enter, RehearsalName, RehearsalAssumption
<1>2. CASE Finish \/ Refuse BY <1>2 DEF Finish, Refuse, Exit, Uncovered
<1>3. CASE Die BY <1>3 DEF Die, Uncovered
<1>4. CASE Write
  <2>1. CASE run \in Rehearsals BY <1>4, <2>1 DEF Write, Uncovered
  <2>2. CASE run \notin Rehearsals
    <3>1. PICK hooks \in ClientHooks :
            \/ \E k \in Keys : Put(k, hooks) \/ FailedPut(k, hooks) \/ PutPrefixed(k)
            \/ \E from, k \in Keys : Copy(from, k, hooks)
            \/ \E K \in SUBSET Keys : Delete(K, hooks)
      BY <1>4 DEF Write
    <3>2. ~Rekeyed(hooks) BY <2>2, Routing DEF Inv
    <3> QED BY <3>1, <3>2, <1>4, <2>2
            DEF Write, Put, FailedPut, PutPrefixed, Copy, Delete, Store, Uncovered
  <2> QED BY <2>1, <2>2
<1>5. CASE Get BY <1>5 DEF Get, Uncovered
<1>6. CASE StaleInput BY <1>6 DEF StaleInput, Exit, Uncovered
<1>7. CASE OthersWrite BY <1>7 DEF OthersWrite, process, Uncovered
<1>8. CASE UNCHANGED vars BY <1>8 DEF vars, process, Uncovered
<1> QED BY <1>1, <1>2, <1>3, <1>4, <1>5, <1>6, <1>7, <1>8 DEF Next

\* The object a read is served is the one the private view shows.
LEMMA ServedIsSeen ==
  ASSUME RehearsalAssumption, Inv, Uncovered, NEW hooks \in ClientHooks, NEW k \in Keys
  PROVE  Served(k, hooks) = Isolation!Seen(k)
<1>1. CASE run \in Rehearsals
  <2>1. Rekeyed(hooks) /\ Namespace(hooks) = run BY <1>1, Routing DEF Inv
  <2> QED BY <2>1 DEF Served, Isolation!Seen, Mine
<1>2. CASE run \notin Rehearsals
  <2>1. ~Rekeyed(hooks) /\ overlay = {} BY <1>2, Routing DEF Inv, Uncovered
  <2> QED BY <2>1 DEF Served, Isolation!Seen, Mine
<1> QED BY <1>1, <1>2

LEMMA StoreIsStore ==
  ASSUME RehearsalAssumption, Inv, Uncovered, run # Idle, run' = run,
         NEW hooks \in ClientHooks, NEW k \in Keys, NEW v \in Objects, Store(k, v, hooks)
  PROVE  Isolation!Store(k, v)
<1>1. CASE run \in Rehearsals
  <2>1. Rekeyed(hooks) /\ Namespace(hooks) = run BY <1>1, Routing DEF Inv
  <2>2. space' = [space EXCEPT ![run][k] = v] /\ overlay' = overlay \cup {k} /\ live' = live
    BY <2>1 DEF Store
  <2>3. \A x \in Keys : space'[run][x] = IF x = k THEN v ELSE space[run][x]
    BY <2>2, <1>1 DEF Inv, TypeOK
  <2>4. overlay \subseteq Keys BY DEF Inv, TypeOK
  <2>5. Mine' = [x \in overlay \cup {k} |-> IF x = k THEN v ELSE space[run][x]]
    BY <2>2, <2>3, <2>4 DEF Mine
  <2>6. Mine' = Isolation!Changed(Mine, k, v)
    BY <2>5 DEF Mine, Isolation!Changed
  <2> QED BY <2>2, <2>6, <1>1 DEF Isolation!Store
<1>2. CASE run \notin Rehearsals
  <2>1. ~Rekeyed(hooks) /\ overlay = {} BY <1>2, Routing DEF Inv, Uncovered
  <2>2. run = Production BY <1>2 DEF Inv, TypeOK
  <2>3. live' = [live EXCEPT ![k] = v] /\ overlay' = overlay BY <2>1 DEF Store
  <2>4. Mine' = Mine BY <2>1, <2>3 DEF Mine
  <2> QED BY <2>2, <2>3, <2>4 DEF Isolation!Store
<1> QED BY <1>1, <1>2

\* Every write a call makes is one of the abstract operations.
LEMMA WriteIsOperation ==
  ASSUME RehearsalAssumption, Inv, Uncovered, Write
  PROVE  Isolation!Next
<1>0. run # Idle /\ run' = run BY DEF Write
<1>1. PICK hooks \in ClientHooks :
        \/ \E k \in Keys : Put(k, hooks) \/ FailedPut(k, hooks) \/ PutPrefixed(k)
        \/ \E from, k \in Keys : Copy(from, k, hooks)
        \/ \E K \in SUBSET Keys : Delete(K, hooks)
  BY DEF Write
<1>2. ASSUME NEW k \in Keys, Put(k, hooks) PROVE Isolation!Put(k)
  <2>1. run \in Objects /\ run # Absent
    BY <1>0 DEF Inv, TypeOK, Objects, RehearsalAssumption
  <2>2. Isolation!Store(k, run) BY <1>0, <1>2, <2>1, StoreIsStore DEF Put
  <2> QED BY <1>0, <1>2, <2>1, <2>2 DEF Put, Did, Isolation!Put
<1>3. ASSUME NEW k \in Keys, FailedPut(k, hooks) PROVE Isolation!FailedPut(k)
  <2>1. live' = live /\ space' = space /\ did' = <<"failed", {k}, Absent>>
    BY <1>3 DEF FailedPut, Did
  <2>2. CASE overlay' = overlay
    <3>1. Mine' = Mine BY <1>0, <2>1, <2>2 DEF Mine
    <3> QED BY <1>0, <2>1, <3>1 DEF Isolation!FailedPut
  <2>3. CASE overlay' # overlay
    <3>1. Rekeyed(hooks) /\ overlay' = overlay \cup {k} BY <1>3, <2>3 DEF FailedPut
    <3>2. run \in Rehearsals BY <3>1, Routing DEF Inv
    <3>3. space[run][k] \in Objects BY <3>2 DEF Inv, TypeOK
    <3>4. Mine' = Isolation!Changed(Mine, k, space[run][k])
      BY <1>0, <2>1, <3>1 DEF Mine, Isolation!Changed
    <3> QED BY <1>0, <2>1, <3>2, <3>3, <3>4 DEF Isolation!FailedPut
  <2> QED BY <2>2, <2>3
<1>4. ASSUME NEW k \in Keys, PutPrefixed(k) PROVE Isolation!PutPrefixed(k)
  <2>1. /\ run \in Rehearsals /\ space' = [space EXCEPT ![run][k] = run]
        /\ live' = live /\ overlay' = overlay /\ did' = <<"prefixed", {k}, run>>
    BY <1>4 DEF PutPrefixed, Did
  <2>2. \A x \in Keys : space'[run][x] = IF x = k THEN run ELSE space[run][x]
    BY <2>1 DEF Inv, TypeOK
  <2>3. overlay \subseteq Keys BY DEF Inv, TypeOK
  <2>4. Mine' = [x \in overlay |-> IF x = k THEN run ELSE space[run][x]]
    BY <1>0, <2>1, <2>2, <2>3 DEF Mine
  <2>5. Mine' = IF k \in DOMAIN Mine THEN [Mine EXCEPT ![k] = run] ELSE Mine
    BY <2>4 DEF Mine
  <2> QED BY <1>0, <2>1, <2>5 DEF Isolation!PutPrefixed
<1>5. ASSUME NEW from \in Keys, NEW k \in Keys, Copy(from, k, hooks)
      PROVE  Isolation!Copy(from, k)
  <2>1. Served(from, hooks) = Isolation!Seen(from) BY ServedIsSeen
  <2>2. Served(from, hooks) \in Objects BY ServedTyped DEF Inv
  <2>3. Isolation!Store(k, Served(from, hooks))
    BY <1>0, <1>5, <2>2, StoreIsStore DEF Copy
  <2> QED BY <1>0, <1>5, <2>1, <2>3 DEF Copy, Did, Isolation!Copy
<1>6. ASSUME NEW K \in SUBSET Keys, Delete(K, hooks) PROVE Isolation!Delete(K)
  <2>1. did' = <<"delete", K, Absent>> BY <1>6 DEF Delete, Did
  <2>2. CASE run \in Rehearsals
    <3>1. Rekeyed(hooks) /\ Namespace(hooks) = run BY <2>2, Routing DEF Inv
    <3>2. /\ space' = [space EXCEPT ![run] = [k \in Keys |-> IF k \in K THEN Absent ELSE @[k]]]
          /\ overlay' = overlay \ K /\ live' = live
      BY <1>6, <3>1 DEF Delete
    <3>3. overlay \subseteq Keys BY DEF Inv, TypeOK
    <3>4. \A x \in overlay \ K : space'[run][x] = space[run][x]
      BY <2>2, <3>2, <3>3 DEF Inv, TypeOK
    <3>5. Mine' = [x \in overlay \ K |-> space[run][x]] BY <1>0, <3>2, <3>4 DEF Mine
    <3>6. Mine' = Isolation!Without(Mine, K) BY <3>5 DEF Mine, Isolation!Without
    <3> QED BY <1>0, <2>1, <2>2, <3>2, <3>6 DEF Isolation!Delete
  <2>3. CASE run \notin Rehearsals
    <3>1. ~Rekeyed(hooks) /\ overlay = {} BY <2>3, Routing DEF Inv, Uncovered
    <3>2. run = Production BY <1>0, <2>3 DEF Inv, TypeOK
    <3>3. /\ live' = [k \in Keys |-> IF k \in K THEN Absent ELSE live[k]]
          /\ overlay' = overlay
      BY <1>6, <3>1 DEF Delete
    <3>4. Mine' = Mine BY <3>1, <3>3 DEF Mine
    <3> QED BY <1>0, <2>1, <3>2, <3>3, <3>4 DEF Isolation!Delete
  <2> QED BY <2>2, <2>3
<1> QED BY <1>1, <1>2, <1>3, <1>4, <1>5, <1>6 DEF Isolation!Next

\* Leaving an invocation drops the private view.
LEMMA ExitIsEnd ==
  ASSUME run # Idle, live' = live, run' = Idle, overlay' = {}, Did("end", {}, Absent)
  PROVE  Isolation!End
BY DEF Isolation!End, Isolation!NoView, Mine, Did

LEMMA StepIsOperation ==
  ASSUME RehearsalAssumption, Inv, Uncovered, [Next]_vars
  PROVE  [Isolation!Next]_(Isolation!vars)
<1>1. CASE Invoke
  <2>1. run = Idle /\ live' = live /\ space' = space /\ did' = <<"begin", {}, Absent>>
    BY <1>1 DEF Invoke, Did
  <2>2. overlay = {} BY <2>1 DEF Uncovered, RehearsalAssumption
  <2>3. CASE run' = Production /\ overlay' = overlay
    <3>1. Mine' = Isolation!NoView BY <2>2, <2>3 DEF Mine, Isolation!NoView
    <3> QED BY <2>1, <2>3, <3>1 DEF Isolation!Begin, Isolation!Next
  <2>4. ASSUME NEW r \in Rehearsals, Enter(r) PROVE Isolation!Begin
    <3>1. run' = r /\ overlay' \in SUBSET Keys BY <2>4 DEF Enter, Primed
    <3>2. Mine' \in [overlay' -> Objects]
      BY <2>1, <3>1 DEF Mine, Inv, TypeOK
    <3> QED BY <2>1, <3>1, <3>2 DEF Isolation!Begin
  <2> QED BY <1>1, <2>3, <2>4 DEF Invoke, RehearsalName, Isolation!Next
<1>2. CASE Finish
  BY <1>2, ExitIsEnd DEF Finish, Exit, Isolation!Next
<1>3. CASE Die
  BY <1>3, ExitIsEnd DEF Die, Isolation!Next
<1>4. CASE Write BY <1>4, WriteIsOperation
<1>5. CASE Get
  <2>1. PICK hooks \in ClientHooks, k \in Keys : Did("get", {k}, Served(k, hooks))
    BY <1>5 DEF Get
  <2>2. /\ run # Idle /\ run' = run /\ live' = live /\ space' = space
        /\ overlay' = overlay
    BY <1>5 DEF Get
  <2>3. Mine' = Mine BY <2>2 DEF Mine
  <2>4. Served(k, hooks) = Isolation!Seen(k) BY ServedIsSeen
  <2>5. Isolation!Get(k) BY <2>1, <2>2, <2>3, <2>4 DEF Did, Isolation!Get
  <2> QED BY <2>5 DEF Isolation!Next
<1>6. CASE Refuse
  BY <1>6, ExitIsEnd DEF Refuse, Exit, Isolation!Next
<1>7. CASE StaleInput
  <2>1. CASE did'[1] = "note"
    <3>1. /\ run # Idle
          /\ live' = live /\ space' = space /\ run' = run /\ overlay' = overlay
          /\ did' = <<"note", {}, Absent>>
      BY <1>7, <2>1 DEF StaleInput, Exit, Did
    <3>2. Mine' = Mine BY <3>1 DEF Mine
    <3> QED BY <3>1, <3>2 DEF Isolation!Note, Isolation!Next
  <2>2. CASE did'[1] # "note"
    BY <1>7, <2>2, ExitIsEnd DEF StaleInput, Exit, Did, Isolation!Next
  <2> QED BY <2>1, <2>2
<1>8. CASE OthersWrite
  <2>1. /\ run' = run /\ overlay' = overlay /\ did' = <<"others", {}, Absent>>
    BY <1>8 DEF OthersWrite, process, Did
  <2>2. live' \in [Keys -> Objects] /\ space' \in [Rehearsals -> [Keys -> Objects]]
    BY <1>8 DEF OthersWrite, Inv, TypeOK, Objects
  <2>3. CASE space' = space
    <3>1. Mine' = Mine BY <2>1, <2>3 DEF Mine
    <3> QED BY <2>1, <2>2, <3>1 DEF Isolation!OthersWrite, Isolation!Next
  <2>4. CASE live' = live
    <3>1. Mine' \in [DOMAIN Mine -> Objects]
      <4>1. CASE run \in Rehearsals
        BY <4>1, <2>1, <2>2 DEF Mine, Inv, TypeOK
      <4>2. CASE run \notin Rehearsals
        BY <4>2, <2>1 DEF Mine, Uncovered
      <4> QED BY <4>1, <4>2
    <3> QED BY <2>1, <2>4, <3>1 DEF Isolation!OthersWrite, Isolation!Next
  <2> QED BY <1>8, <2>3, <2>4 DEF OthersWrite
<1>9. CASE UNCHANGED vars
  BY <1>9 DEF vars, process, Isolation!vars, Mine
<1> QED BY <1>1, <1>2, <1>3, <1>4, <1>5, <1>6, <1>7, <1>8, <1>9 DEF Next

\* The hooks, contexts and overlays implement the private view: a rehearsal
\* sees and changes its own version of what it covers, production sees and
\* changes live objects only.
THEOREM IsolationImplementsPrivateView == Spec => IsPrivateView
<1>1. Init => Inv BY InvInit, RehearsalAssumption
<1>2. Inv /\ [Next]_vars => Inv' BY InvNext, RehearsalAssumption
<1>3. Init => Uncovered BY DEF Init, Uncovered
<1>4. Inv /\ Uncovered /\ [Next]_vars => Uncovered' BY UncoveredNext, RehearsalAssumption
<1>5. Init => Isolation!Init
  BY DEF Init, Isolation!Init, Isolation!NoView, Mine, Objects
<1>6. Inv /\ Uncovered /\ [Next]_vars => [Isolation!Next]_(Isolation!vars)
  BY StepIsOperation, RehearsalAssumption
<1> QED BY <1>1, <1>2, <1>3, <1>4, <1>5, <1>6, PTL DEF Spec, IsPrivateView, Isolation!Spec
=============================================================================
