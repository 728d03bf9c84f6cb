---------------------------- MODULE ExecutorTile ----------------------------
(***************************************************************************)
(* The Executor tile (grading/tiles/executor.py): daily artifacts of the   *)
(* executor and of its backtest diagnostics, at most three days old.       *)
(***************************************************************************)
EXTENDS TileRecords

ExecutorMaxAge == 3

ExecutorCells ==
  [trigger_scorecard |-> Windowed({"notok", "bare", "full"}),
   shadow_book |-> Windowed({"notok", "bare", "full"}),
   exit_timing |-> Windowed({"notok", "bare", "full"}),
   portfolio_excursion |-> Windowed({"notok", "bare", "full"}),
   reconciliation_audit |-> Windowed({"notok", "bare", "full"}),
   action_entropy |-> Windowed({"notok", "bare", "full"})]

ExecutorRoster == {"entry_triggers", "risk_guard", "exit_rules", "excursion",
                   "position_sizing", "action_entropy", "reconciliation_integrity"}

\* A win rate over closed entries, with at least one.
EntryTriggers(w) == FromArtifact(w, "entry_triggers", "critical", "trigger_scorecard", ExecutorMaxAge)

\* The precision of the blocks in the shadow book's classification.
RiskGuard(w) == FromArtifact(w, "risk_guard", "critical", "shadow_book", ExecutorMaxAge)

\* Capture by winners, or the legacy mean; neither is a missing input.
ExitRules(w) == FromArtifact(w, "exit_rules", "critical", "exit_timing", ExecutorMaxAge)

Excursion(w) == FromArtifact(w, "excursion", "supporting", "portfolio_excursion", ExecutorMaxAge)

PositionSizing == Accepted("position_sizing", "supporting")

ActionEntropy(w) == FromArtifact(w, "action_entropy", "diagnostic", "action_entropy", ExecutorMaxAge)

\* Its match rate is read whatever its status field says.
ReconciliationIntegrity(w) ==
  FromReport(w, "reconciliation_integrity", "critical", "reconciliation_audit", ExecutorMaxAge)

ExecutorRecords(w) ==
  {EntryTriggers(w), RiskGuard(w), ExitRules(w), Excursion(w), PositionSizing,
   ActionEntropy(w), ReconciliationIntegrity(w)}
=============================================================================
