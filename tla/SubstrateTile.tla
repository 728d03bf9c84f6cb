---------------------------- MODULE SubstrateTile ----------------------------
(***************************************************************************)
(* The Substrate Reliability tile (grading/tiles/substrate.py): cached     *)
(* prices, pipeline executions, CloudWatch counts, the backtester's        *)
(* watchdog, deployments, cost rows, and the threshold arms               *)
(* (grading/thresholds/scoring.py).                                        *)
(*                                                                         *)
(* "denied" is an AWS call that fails.  executions: "noarns" and           *)
(* "truncated" and "unplaced" cannot be read point in time, "nocycles" has *)
(* no finished cycle, "recovery_only" has none on the scheduled cadence.   *)
(***************************************************************************)
EXTENDS TileRecords

SubstrateCells ==
  [sentinel |-> Exact({"full"}),
   executions |-> {Fresh(k) : k \in {"denied", "noarns", "truncated", "unplaced", "nocycles",
                                      "recovery_only", "full"}},
   quality_counts |-> {Fresh(k) : k \in {"denied", "absent", "full"}},
   drift_counts |-> {Fresh(k) : k \in {"denied", "absent", "full"}},
   substrate_ops |-> Windowed({"bare", "full"}),
   deploys |-> Exact({"bare", "old", "undated", "full"}),
   cost_rows |-> {Fresh(k) : k \in {"unmeasured", "full"}},
   arms |-> {Fresh(k) : k \in {"absent", "insufficient", "full"}}]

ThresholdArms == {"threshold_arm_brier_declared_v2", "threshold_arm_brier_history_bands_v1"}

SubstrateRoster ==
  ThresholdArms \cup
  {"price_cache_freshness", "sf_success_rate_4w", "unattended_first_pass_rate",
   "data_quality_incidents", "schema_drift_incidents", "watchdog_firings", "deploy_success_rate",
   "unpriced_cost_rows", "alert_noise_ratio", "changelog_coverage", "iam_drift"}

PriceCacheFreshness(w) ==
  IF w.cells.sentinel.kind = "full" THEN Measured(w, "price_cache_freshness", "critical")
  ELSE Missing("price_cache_freshness", "critical")

\* What cannot be read point in time withholds both rates; a window without a
\* cycle is a run that did not happen.
OfExecutions(w, n, crit, graded) ==
  LET kind == w.cells.executions.kind
  IN  CASE kind \in {"noarns", "truncated", "unplaced"} -> Missing(n, crit)
        [] kind \in graded -> Measured(w, n, crit)
        [] OTHER -> NotRun(n, crit)

SfSuccessRate4w(w) == OfExecutions(w, "sf_success_rate_4w", "critical", {"recovery_only", "full"})
UnattendedFirstPassRate(w) == OfExecutions(w, "unattended_first_pass_rate", "supporting", {"full"})

\* A metric nobody emitted is not a zero.
OfCloudWatch(w, n, a) ==
  CASE w.cells[a].kind = "denied" -> Missing(n, "critical")
    [] w.cells[a].kind = "absent" -> NotRun(n, "critical")
    [] OTHER -> Measured(w, n, "critical")

DataQualityIncidents(w) == OfCloudWatch(w, "data_quality_incidents", "quality_counts")
SchemaDriftIncidents(w) == OfCloudWatch(w, "schema_drift_incidents", "drift_counts")

\* Neither the report's status nor its age is read.
WatchdogFirings(w) ==
  IF Body(w, "substrate_ops") = "full" THEN Measured(w, "watchdog_firings", "supporting")
  ELSE Missing("watchdog_firings", "supporting")

\* A roll-up older than three weeks is missing; one without a date is graded.
DeploySuccessRate(w) ==
  IF w.cells.deploys.kind \in {"undated", "full"} THEN Measured(w, "deploy_success_rate", "supporting")
  ELSE Missing("deploy_success_rate", "supporting")

UnpricedCostRows(w) ==
  IF w.cells.cost_rows.kind = "full" THEN Measured(w, "unpriced_cost_rows", "supporting")
  ELSE Missing("unpriced_cost_rows", "supporting")

NotBuilt ==
  {Accepted("alert_noise_ratio", "supporting"), Accepted("changelog_coverage", "diagnostic"),
   Accepted("iam_drift", "diagnostic")}

\* build_arm_components: whether an arm was scored, never whether it won.
ArmComponents(w) ==
  {CASE w.cells.arms.kind = "absent" -> NotRun(n, "diagnostic")
     [] w.cells.arms.kind = "insufficient" -> LowN(n, "diagnostic")
     [] OTHER -> Measured(w, n, "diagnostic") : n \in ThresholdArms}

SubstrateRecords(w) ==
  {PriceCacheFreshness(w), SfSuccessRate4w(w), UnattendedFirstPassRate(w), DataQualityIncidents(w),
   SchemaDriftIncidents(w), WatchdogFirings(w), DeploySuccessRate(w), UnpricedCostRows(w)}
    \cup NotBuilt \cup ArmComponents(w)
=============================================================================
