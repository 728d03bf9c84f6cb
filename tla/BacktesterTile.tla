--------------------------- MODULE BacktesterTile ---------------------------
(***************************************************************************)
(* The Backtester self-grade tile (grading/tiles/backtester.py): weekly    *)
(* artifacts at most ten days old, the two attestations of this cycle, and *)
(* the frozen bundle of the model being served.                            *)
(***************************************************************************)
EXTENDS TileRecords

BacktesterMaxAge == 10

\* Shapes of an apply-audit's loops; a loop's record names what the producer
\* wrote of one auto-apply loop.
Loop(outcome, weeks, converged, refusing) ==
  [outcome |-> outcome, weeks |-> weeks, converged |-> converged, refusing |-> refusing]

ApplyAudits ==
  [full |-> {Loop("promoted", 0, FALSE, FALSE)},
   blocked1 |-> {Loop("blocked", 1, FALSE, FALSE)},
   blocked2 |-> {Loop("promoted", 0, FALSE, FALSE), Loop("blocked", 2, FALSE, FALSE)},
   blocked4 |-> {Loop("promoted", 0, FALSE, FALSE), Loop("blocked", 4, FALSE, FALSE)},
   converged |-> {Loop("blocked", 9, TRUE, FALSE)},
   refusing |-> {Loop("blocked", 9, FALSE, TRUE), Loop("promoted", 0, FALSE, FALSE)},
   mixed |-> {Loop("blocked", 3, FALSE, FALSE), Loop("error", 0, FALSE, FALSE)},
   alien |-> {Loop("paused", 0, FALSE, FALSE)}]

\* Significant correlations and the number of tests behind them; 0 tests
\* stands for an artifact older than the field.
FdrSurfaces ==
  [full |-> [sig |-> 2, tests |-> 5], flat_small |-> [sig |-> 0, tests |-> 4],
   flat_large |-> [sig |-> 0, tests |-> 12], crowded |-> [sig |-> 5, tests |-> 5],
   legacy |-> [sig |-> 3, tests |-> 0], legacy_thin |-> [sig |-> 2, tests |-> 0],
   legacy_crowded |-> [sig |-> 31, tests |-> 0]]

BacktesterCells ==
  [grading |-> Windowed({"bare", "full"}),
   attestation |-> Exact({"unknown", "fail", "full"}),
   stage_attestation |-> Exact({"unknown", "fail", "full"}),
   parity_report |-> Windowed({"notok", "diverged", "full"}),
   run_scope |-> Exact({"disabled", "full"}),
   attribution |-> Windowed({"notok"} \cup DOMAIN FdrSurfaces),
   rollback_audit |-> Exact({"full"}),
   apply_audit |-> Windowed({"bare"} \cup DOMAIN ApplyAudits),
   sample_size |-> Windowed({"notok", "bare", "full"}),
   risk_ratio_ci |-> Windowed({"notok", "bare", "straddling", "full"}),
   optimizer_churn |-> Windowed({"notok", "bare", "full"}),
   manifest |-> Exact({"bare", "full"}),
   registry_bundle |-> Exact({"notok", "full"}),
   latest |-> Exact({"bare", "undeclared", "full"}),
   walk_forward |-> Windowed({"notok", "bare", "full"})]

BacktesterRoster ==
  {"evaluator_coverage", "numeric_attestation", "evaluator_stage_attestation",
   "grading_freshness", "vectorized_vs_consolidated_parity", "fdr_surface_health",
   "auto_apply_rollback_count", "apply_loop_health", "sample_size_adequacy", "risk_ratio_ci",
   "optimizer_churn", "backtest_vs_live_parity", "walk_forward_stability"}

\* A scorecard without a single leaf has no coverage to grade.
EvaluatorCoverage(w) ==
  IF Body(w, "grading") = "bare" /\ ~Stale(w, "grading", BacktesterMaxAge)
  THEN LowN("evaluator_coverage", "critical")
  ELSE FromArtifact(w, "evaluator_coverage", "critical", "grading", BacktesterMaxAge)

\* Never windowed, never inherited: only this cycle's verdict counts.
Attested(w, n, a) ==
  CASE w.cells[a].kind = "full" -> Stated(n, "critical", "GREEN")
    [] w.cells[a].kind = "fail" -> Stated(n, "critical", "RED")
    [] OTHER -> Missing(n, "critical")

NumericAttestation(w) == Attested(w, "numeric_attestation", "attestation")
EvaluatorStageAttestation(w) == Attested(w, "evaluator_stage_attestation", "stage_attestation")

\* A HEAD of this run date's own key, not of the instance the window found.
GradingFreshness(w) ==
  IF w.cells.grading.kind # "absent" /\ w.cells.grading.age = 0
  THEN Measured(w, "grading_freshness", "supporting")
  ELSE Missing("grading_freshness", "supporting")

\* A report that declares itself not a comparison is RED; no report at all is
\* missing unless the run's own scope says its producer was switched off.
VectorizedParity(w) ==
  LET n == "vectorized_vs_consolidated_parity"
      body == Body(w, "parity_report")
  IN  CASE body = "absent" ->
             IF w.cells.run_scope.kind = "disabled" THEN NotRun(n, "supporting")
             ELSE Missing(n, "supporting")
        [] Stale(w, "parity_report", BacktesterMaxAge) -> MissingStale(n, "supporting")
        [] OTHER ->
             Stated(n, "supporting", CASE body = "full" -> "GREEN" [] body = "diverged" -> "WATCH"
                                       [] OTHER -> "RED")

\* The band scales with the tests that fed the correction; few tests and no
\* survivor is expected, many tests and none is a flat surface.
FdrSurfaceStatus(sig, tests) ==
  CASE tests = 0 -> (CASE sig \in 3..15 -> "GREEN" [] sig \in (1..2) \cup (16..30) -> "WATCH"
                       [] OTHER -> "RED")
    [] tests > 0 /\ sig = 0 -> IF tests >= 10 THEN "RED" ELSE "WATCH"
    [] OTHER -> IF 15 * tests <= 100 * sig /\ 100 * sig <= 60 * tests THEN "GREEN" ELSE "WATCH"

FdrSurfaceHealth(w) ==
  LET n == "fdr_surface_health"  body == Body(w, "attribution")
  IN  IF body \in DOMAIN FdrSurfaces /\ ~Stale(w, "attribution", BacktesterMaxAge)
      THEN Stated(n, "supporting", FdrSurfaceStatus(FdrSurfaces[body].sig, FdrSurfaces[body].tests))
      ELSE Missing(n, "supporting")

AutoApplyRollbackCount(w) ==
  IF w.cells.rollback_audit.kind = "full" THEN Measured(w, "auto_apply_rollback_count", "diagnostic")
  ELSE Missing("auto_apply_rollback_count", "diagnostic")

\* A proposal equal to what is live has converged; a guard refusing on a
\* complete sample is capped at WATCH; other blocks escalate with the weeks.
LoopColour(loop) ==
  CASE loop.outcome \in {"promoted", "insufficient_data", "disabled"} -> "GREEN"
    [] loop.outcome = "blocked" ->
         (CASE loop.converged \/ loop.weeks < 2 -> "GREEN"
            [] ~loop.converged /\ loop.weeks >= 2 /\ loop.refusing -> "WATCH"
            [] OTHER -> IF loop.weeks >= 4 THEN "RED" ELSE "WATCH")
    [] OTHER -> "RED"

ApplyLoopHealth(w) ==
  LET n == "apply_loop_health"
      body == Body(w, "apply_audit")
      colours == {LoopColour(l) : l \in ApplyAudits[body]}
  IN  IF body \in DOMAIN ApplyAudits
      THEN Stated(n, "critical", CASE "RED" \in colours -> "RED"
                                   [] "RED" \notin colours /\ "WATCH" \in colours -> "WATCH"
                                   [] OTHER -> "GREEN")
      ELSE Missing(n, "critical")

\* These four do not say a stale input in words: the window and the maximum
\* age are both ten days, so the branch is never taken.
SampleSizeAdequacy(w) == FromArtifact(w, "sample_size_adequacy", "critical", "sample_size", BacktesterMaxAge)

RiskRatioCi(w) ==
  LET n == "risk_ratio_ci"  body == Body(w, "risk_ratio_ci")
  IN  IF body \in {"straddling", "full"} /\ ~Stale(w, "risk_ratio_ci", BacktesterMaxAge)
      THEN Stated(n, "critical", IF body = "full" THEN "GREEN" ELSE "WATCH")
      ELSE Missing(n, "critical")

OptimizerChurn(w) == FromArtifact(w, "optimizer_churn", "critical", "optimizer_churn", BacktesterMaxAge)

WalkForwardStability(w) ==
  FromArtifact(w, "walk_forward_stability", "supporting", "walk_forward", BacktesterMaxAge)

\* The expected leg is pinned to the served model's frozen bundle; there is no
\* fallback to the standing manifest's own score.
BacktestVsLiveParity(w) ==
  LET n == "backtest_vs_live_parity"
      cpcv == w.cells.manifest.kind = "full" /\ w.cells.registry_bundle.kind = "full"
      live == w.cells.latest.kind \in {"undeclared", "full"}
  IN  CASE cpcv /\ live /\ w.cells.latest.kind = "full" -> Measured(w, n, "critical")
        [] cpcv /\ live /\ w.cells.latest.kind = "undeclared" -> LowN(n, "critical")
        [] OTHER -> Missing(n, "critical")

BacktesterRecords(w) ==
  {EvaluatorCoverage(w), NumericAttestation(w), EvaluatorStageAttestation(w), GradingFreshness(w),
   VectorizedParity(w), FdrSurfaceHealth(w), AutoApplyRollbackCount(w), ApplyLoopHealth(w),
   SampleSizeAdequacy(w), RiskRatioCi(w), OptimizerChurn(w), BacktestVsLiveParity(w),
   WalkForwardStability(w)}
=============================================================================
