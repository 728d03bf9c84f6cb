------------------------------ MODULE Rehearsal ------------------------------
(***************************************************************************)
(* Isolation of rehearsals (grading/rehearsal.py).                         *)
(*                                                                         *)
(* A warm Lambda process serves invocations one after another.  Under a    *)
(* rehearsal every S3 client built on the process's session runs a hook    *)
(* that re-keys the call: writes go into the rehearsal's namespace, reads  *)
(* of a key the namespace holds are served from it.  Hooks are inherited   *)
(* when a client is built, so a client that somebody kept from a rehearsal *)
(* still runs that rehearsal's hook in a later invocation.  Meanwhile      *)
(* other processes write live objects, and other stages of the same        *)
(* rehearsal write its namespace.                                          *)
(***************************************************************************)
EXTENDS Integers

CONSTANTS
    Keys, Rehearsals,
    Absent, Idle, Production,
    OtherRun,          \* an execution name without the rehearsal prefix
    MaxInvocations     \* bound on the invocations of one process

ASSUME RehearsalAssumption ==
    /\ MaxInvocations \in Nat
    /\ Idle \notin Rehearsals \cup {Production}
    /\ Production \notin Rehearsals
    /\ OtherRun \notin Rehearsals
    /\ Absent \notin Rehearsals \cup {Production}

VARIABLES
    live,        \* live objects: who wrote the one at each key
    space,       \* per execution name, the objects of its namespace
    run,         \* the invocation being served
    active,      \* _ACTIVE: the hook of the active context; at most one
    overlay,     \* keys whose value the active context takes from its namespace
    registered,  \* hooks registered on the session
    kept,        \* hooks of a client that outlives the invocation it was built in
    count,       \* invocations started in this process
    degraded,    \* the invocation went on past a stale input as a rehearsal
    did          \* the last step: what was done, to which keys, which object

process == <<run, active, overlay, registered, kept, count, degraded>>
vars == <<live, space, process, did>>

Objects == Rehearsals \cup {Production, Absent}

Did(op, K, v) == did' = <<op, K, v>>

Init ==
    /\ live \in [Keys -> {Production, Absent}]
    /\ space = [r \in Rehearsals |-> [k \in Keys |-> Absent]]
    /\ run = Idle /\ active = {} /\ overlay = {}
    /\ registered = {} /\ kept = {} /\ count = 0
    /\ degraded = FALSE
    /\ did = <<"others", {}, Absent>>

-----------------------------------------------------------------------------
(* Which invocation is a rehearsal.                                         *)

\* At most one name: the execution name an event gives, or the environment.
Given == {{}} \cup {{n} : n \in Rehearsals \cup {OtherRun}}

\* The name the event gives is final, whatever it is; without one the
\* environment decides.  The empty set: not a rehearsal.
RehearsalName(named, token) ==
    IF named # {} THEN named \cap Rehearsals ELSE token \cap Rehearsals

-----------------------------------------------------------------------------
(* isolate: one invocation.                                                 *)

\* The keys a listing of the namespace finds; a listing that fails on the
\* way finds some of them.
Primed(r) == {K \in SUBSET Keys : \A k \in K : space[r][k] # Absent}

\* A context is a new object each time, even for a name served before.
Hook(r) == [id |-> count + 1, name |-> r]

Enter(r) ==
    /\ active' = {Hook(r)}
    /\ overlay' \in Primed(r)
    /\ registered' = registered \cup {Hook(r)}
    /\ run' = r

Invoke ==
    /\ run = Idle
    /\ count < MaxInvocations
    /\ count' = count + 1
    /\ \E named, token \in Given :
          \/ /\ RehearsalName(named, token) = {}
             /\ run' = Production
             /\ UNCHANGED <<active, overlay, registered>>
          \/ \E r \in RehearsalName(named, token) : Enter(r)
    /\ degraded' = FALSE
    /\ Did("begin", {}, Absent)
    /\ UNCHANGED <<live, space, kept>>

\* Variant: the hook stays registered on the session of the warm container.
ExitKeepingHook ==
    /\ run' = Idle
    /\ active' = {}
    /\ overlay' = {}
    /\ Did("end", {}, Absent)
    /\ UNCHANGED registered

\* The finally block: also when the invocation raises.
Exit ==
    /\ run' = Idle
    /\ active' = {}
    /\ registered' = registered \ active
    /\ overlay' = {}
    /\ Did("end", {}, Absent)

Finish ==
    /\ run # Idle
    /\ Exit
    /\ UNCHANGED <<live, space, kept, count, degraded>>

\* The process is killed and a new container serves the next invocation.
Die ==
    /\ run # Idle
    /\ run' = Idle /\ active' = {} /\ overlay' = {}
    /\ registered' = {} /\ kept' = {}
    /\ Did("end", {}, Absent)
    /\ UNCHANGED <<live, space, count, degraded>>

-----------------------------------------------------------------------------
(* The hook.                                                                *)

\* The hooks of the client a call goes through.  The program builds a client
\* per call; in production some other code may use one that was kept.
ClientHooks == IF run = Production THEN {registered, kept} ELSE {registered}

Keep(hooks) == kept' \in {kept, hooks}

\* Variant: a hook runs whether or not its context is the active one.
AnyHook(hooks) == hooks

\* The hooks of a client that act: one whose context is not the active one
\* does nothing.
Acting(hooks) == hooks \cap active

Rekeyed(hooks) == Acting(hooks) # {}

Namespace(hooks) == (CHOOSE h \in Acting(hooks) : TRUE).name

\* Variant: the overlay is not told of the write.
StoreUnmarked(k, v, hooks) ==
    IF Rekeyed(hooks)
    THEN /\ space' = [space EXCEPT ![Namespace(hooks)][k] = v]
         /\ UNCHANGED <<live, overlay>>
    ELSE /\ live' = [live EXCEPT ![k] = v]
         /\ UNCHANGED <<space, overlay>>

\* An object is stored at a key, or at the key's place in the namespace.
Store(k, v, hooks) ==
    IF Rekeyed(hooks)
    THEN /\ space' = [space EXCEPT ![Namespace(hooks)][k] = v]
         /\ overlay' = overlay \cup {k}
         /\ UNCHANGED live
    ELSE /\ live' = [live EXCEPT ![k] = v]
         /\ UNCHANGED <<space, overlay>>

\* PutObject, CompleteMultipartUpload.  A rehearsal's objects are marked with
\* its name.
Put(k, hooks) ==
    /\ Store(k, run, hooks)
    /\ Did("put", {k}, run)

\* The overlay is marked before the request is sent: a request that fails
\* leaves the mark.
FailedPut(k, hooks) ==
    /\ overlay' = IF Rekeyed(hooks) THEN overlay \cup {k} ELSE overlay
    /\ Did("failed", {k}, Absent)
    /\ UNCHANGED <<live, space>>

\* What a read of a key is served, directly or as the source of a copy.
Served(k, hooks) ==
    IF Rekeyed(hooks) /\ k \in overlay THEN space[Namespace(hooks)][k] ELSE live[k]

\* CopyObject: its source is a read, its target a write.
Copy(from, k, hooks) ==
    /\ Served(from, hooks) # Absent
    /\ Store(k, Served(from, hooks), hooks)
    /\ Did("copy", {k}, Served(from, hooks))

\* DeleteObject, DeleteObjects.
Delete(K, hooks) ==
    /\ IF Rekeyed(hooks)
       THEN /\ overlay' = overlay \ K
            /\ space' = [space EXCEPT ![Namespace(hooks)] =
                           [k \in Keys |-> IF k \in K THEN Absent ELSE @[k]]]
            /\ UNCHANGED live
       ELSE /\ live' = [k \in Keys |-> IF k \in K THEN Absent ELSE live[k]]
            /\ UNCHANGED <<space, overlay>>
    /\ Did("delete", K, Absent)

\* A write whose key already names the namespace is left as it is.
PutPrefixed(k) ==
    /\ run \in Rehearsals
    /\ space' = [space EXCEPT ![run][k] = run]
    /\ Did("prefixed", {k}, run)
    /\ UNCHANGED <<live, overlay>>

Write ==
    /\ run # Idle
    /\ \E hooks \in ClientHooks :
          /\ Keep(hooks)
          /\ \/ \E k \in Keys : Put(k, hooks) \/ FailedPut(k, hooks) \/ PutPrefixed(k)
             \/ \E from, k \in Keys : Copy(from, k, hooks)
             \/ \E K \in SUBSET Keys : Delete(K, hooks)
    /\ UNCHANGED <<run, active, registered, count, degraded>>

\* GetObject, HeadObject and the like.
Get ==
    /\ run # Idle
    /\ \E hooks \in ClientHooks, k \in Keys :
          /\ Keep(hooks)
          /\ Did("get", {k}, Served(k, hooks))
    /\ UNCHANGED <<live, space, run, active, overlay, registered, count, degraded>>

\* An operation that is neither a read nor a write the hook knows: refused
\* under a rehearsal, before it is sent, and the error ends the invocation.
Refuse ==
    /\ run # Idle
    /\ \E hooks \in ClientHooks : Rekeyed(hooks)
    /\ Exit
    /\ UNCHANGED <<live, space, kept, count, degraded>>

-----------------------------------------------------------------------------
(* The freshness preflight finds an input missing or stale.                 *)

\* Variant: any hook left in the process makes the run a rehearsal.
TolerateKept == active # {} \/ kept # {}

TolerateStale == active # {}

\* A dry run records the input as unmeasured and goes on, wherever it writes;
\* any other run goes on only under a rehearsal, as degraded, and else raises.
StaleInput ==
    /\ run # Idle
    /\ \E dry \in BOOLEAN :
          \/ /\ dry \/ TolerateStale
             /\ degraded' = (degraded \/ (~dry /\ TolerateStale))
             /\ Did("note", {}, Absent)
             /\ UNCHANGED <<run, active, overlay, registered>>
          \/ /\ ~dry /\ ~TolerateStale
             /\ Exit
             /\ UNCHANGED degraded
    /\ UNCHANGED <<live, space, kept, count>>

-----------------------------------------------------------------------------
(* The environment.                                                         *)

\* Production runs in other processes, and other stages of a rehearsal.
OthersWrite ==
    /\ \/ /\ \E k \in Keys, v \in {Production, Absent} : live' = [live EXCEPT ![k] = v]
          /\ UNCHANGED space
       \/ /\ \E r \in Rehearsals, k \in Keys :
                \E v \in {r, Absent} : space' = [space EXCEPT ![r][k] = v]
          /\ UNCHANGED live
    /\ Did("others", {}, Absent)
    /\ UNCHANGED process

Next ==
    \/ Invoke \/ Finish \/ Die
    \/ Write \/ Get \/ Refuse \/ StaleInput
    \/ OthersWrite

Spec == Init /\ [][Next]_vars

-----------------------------------------------------------------------------
(* Properties.                                                              *)

\* Types of the state.  A context is active exactly during a rehearsal, bears
\* its name, and its hook is then the only one registered; a kept client
\* carries hooks of this process's invocations (rehearsal.isolate).
TypeOK ==
    /\ live \in [Keys -> Objects]
    /\ space \in [Rehearsals -> [Keys -> Objects]]
    /\ run \in Rehearsals \cup {Idle, Production}
    /\ count \in 0 .. MaxInvocations
    /\ overlay \subseteq Keys
    /\ kept \subseteq [id : 1 .. count, name : Rehearsals]
    /\ degraded \in BOOLEAN
    /\ active = {h \in [id : {count}, name : Rehearsals] : h.name = run}
    /\ registered = active

\* What the active context serves instead of the live objects.
Mine == [k \in overlay |-> space[run][k]]

Isolation == INSTANCE PrivateView WITH mine <- Mine

\* The isolation keeps its promise: the process behaves as one in which a
\* rehearsal has a private version of the keys it covers and production sees
\* and changes live objects only, whatever clients were kept, listings cut
\* short, puts failed and invocations killed.
IsPrivateView == Isolation!Spec

\* A run that went on past a stale or missing input as a degraded rehearsal
\* never changes a live object: nobody grades a real week from its card (the
\* rehearsal paragraph of freshness_preflight.assert_input_freshness).  A dry
\* run that went on is not one of these: told to write, it writes live.
DegradedStaysPrivate ==
    [][degraded /\ run # Idle /\ did'[1] # "others" => live' = live]_vars

\* A production invocation of a process that served rehearsals before changes
\* no rehearsal's namespace (the first test of the hook).
ProductionLeavesNamespaces ==
    [][run = Production /\ did'[1] # "others" => space' = space]_vars
=============================================================================
