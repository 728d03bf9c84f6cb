-------------------------- MODULE MC_DirectorLoop --------------------------
(* Small instances of DirectorLoop for TLC. *)
EXTENDS DirectorLoop, TLC

CONSTANTS i1, i2

Mention(first, again) == [first |-> first, again |-> again]

\* Not in the plan, carried, resolved, or carried by two mentions.
EntriesAll == {Mention("none", "none"), Mention("proposed", "none"),
               Mention("resolved", "none"), Mention("proposed", "proposed")}
EntriesOnce == {Mention("none", "none"), Mention("proposed", "none"),
                Mention("resolved", "none")}
EntriesNoResolve == {Mention("none", "none"), Mention("proposed", "none")}
EntriesAlways == {Mention("proposed", "none")}

Symmetric == Permutations(Items)
=============================================================================
