--------------------------- MODULE MC_WeeklyCycle ---------------------------
(* Small instances of WeeklyCycle for TLC. *)
EXTENDS WeeklyCycle, TLC

Symmetric == Permutations(Runs) \union Permutations(Directors)
=============================================================================
