----------------------------- MODULE PrivateView -----------------------------
(***************************************************************************)
(* What rehearsal isolation promises, without saying how.                  *)
(*                                                                         *)
(* A process serves one invocation after another.  A production invocation *)
(* reads and writes the live objects.  A rehearsal has a private version   *)
(* of some keys, which it reads instead of the live objects; whatever it   *)
(* does to an object it does to its private version, and the version is    *)
(* dropped from view when the invocation ends.                             *)
(***************************************************************************)
CONSTANTS
    Keys,          \* object keys of the bucket
    Rehearsals,    \* execution names of rehearsals
    Objects,       \* what can be at a key, Absent among it
    Absent,        \* there is no object at the key
    Idle,          \* no invocation is being served
    Production     \* an invocation that is not a rehearsal

VARIABLES
    live,      \* the live objects
    run,       \* the invocation being served
    mine,      \* the private version: a function from the keys it covers
    did        \* the last step: what was done, to which keys, which object

vars == <<live, run, mine, did>>

NoView == [k \in {} |-> Absent]

\* What the invocation being served sees at a key.
Seen(k) == IF k \in DOMAIN mine THEN mine[k] ELSE live[k]

Changed(f, k, v) == [x \in DOMAIN f \cup {k} |-> IF x = k THEN v ELSE f[x]]

Without(f, K) == [k \in DOMAIN f \ K |-> f[k]]

Init ==
    /\ live \in [Keys -> Objects]
    /\ run = Idle
    /\ mine = NoView
    /\ did = <<"others", {}, Absent>>

\* Whatever the rehearsal's earlier stages left, or a part of it, is in view.
Begin ==
    /\ run = Idle
    /\ \/ run' = Production /\ mine' = NoView
       \/ run' \in Rehearsals /\ \E K \in SUBSET Keys : mine' \in [K -> Objects]
    /\ did' = <<"begin", {}, Absent>>
    /\ UNCHANGED live

Get(k) ==
    /\ run # Idle
    /\ did' = <<"get", {k}, Seen(k)>>
    /\ UNCHANGED <<live, run, mine>>

\* The object v is now what this invocation sees at k, and a production
\* invocation shows it to everybody.
Store(k, v) ==
    \/ /\ run = Production
       /\ live' = [live EXCEPT ![k] = v]
       /\ UNCHANGED mine
    \/ /\ run \in Rehearsals
       /\ mine' = Changed(mine, k, v)
       /\ UNCHANGED live

Put(k) ==
    /\ \E v \in Objects \ {Absent} : Store(k, v) /\ did' = <<"put", {k}, v>>
    /\ UNCHANGED run

Copy(from, k) ==
    /\ Seen(from) # Absent
    /\ Store(k, Seen(from))
    /\ did' = <<"copy", {k}, Seen(from)>>
    /\ UNCHANGED run

\* A put that fails stores nothing, but may leave the key covered in a
\* rehearsal, with whatever its namespace holds there.
FailedPut(k) ==
    /\ run # Idle
    /\ \/ UNCHANGED mine
       \/ run \in Rehearsals /\ \E v \in Objects : mine' = Changed(mine, k, v)
    /\ did' = <<"failed", {k}, Absent>>
    /\ UNCHANGED <<live, run>>

\* Deleting a private version uncovers the live object.
Delete(K) ==
    /\ \/ /\ run = Production
          /\ live' = [k \in Keys |-> IF k \in K THEN Absent ELSE live[k]]
          /\ UNCHANGED mine
       \/ /\ run \in Rehearsals
          /\ mine' = Without(mine, K)
          /\ UNCHANGED live
    /\ did' = <<"delete", K, Absent>>
    /\ UNCHANGED run

\* An object put under its namespaced key shows where the key is covered.
PutPrefixed(k) ==
    /\ run \in Rehearsals
    /\ mine' = IF k \in DOMAIN mine THEN [mine EXCEPT ![k] = run] ELSE mine
    /\ did' = <<"prefixed", {k}, run>>
    /\ UNCHANGED <<live, run>>

\* The run notes something and goes on.
Note ==
    /\ run # Idle
    /\ did' = <<"note", {}, Absent>>
    /\ UNCHANGED <<live, run, mine>>

End ==
    /\ run # Idle
    /\ run' = Idle
    /\ mine' = NoView
    /\ did' = <<"end", {}, Absent>>
    /\ UNCHANGED live

\* Other processes: production runs, and other stages of this rehearsal.
OthersWrite ==
    /\ \/ live' \in [Keys -> Objects] /\ UNCHANGED mine
       \/ mine' \in [DOMAIN mine -> Objects] /\ UNCHANGED live
    /\ did' = <<"others", {}, Absent>>
    /\ UNCHANGED run

Next ==
    \/ Begin \/ Note \/ End \/ OthersWrite
    \/ \E k \in Keys : Get(k) \/ Put(k) \/ FailedPut(k) \/ PutPrefixed(k)
    \/ \E from, k \in Keys : Copy(from, k)
    \/ \E K \in SUBSET Keys : Delete(K)

Spec == Init /\ [][Next]_vars
=============================================================================
