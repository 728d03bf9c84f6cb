---------------------------- MODULE PredictorTile ----------------------------
(***************************************************************************)
(* The Predictor tile (grading/tiles/predictor.py): the standing metrics   *)
(* and weights manifest, read by exact key and never aged, and two weekly  *)
(* cross-tile artifacts at most seven days old.                            *)
(***************************************************************************)
EXTENDS TileRecords

PredictorMaxAge == 7

PredictorCells ==
  [latest |-> Exact({"bare", "gate_failed", "full"}),
   manifest |-> Exact({"bare", "notok", "nostandalone", "full"}),
   veto_analysis |-> Windowed({"bare", "full"}),
   confusion_matrix |-> Windowed({"notok", "mixed", "unsummed", "undeclared", "no_down", "full"}),
   slim_cache |-> Exact({"full"})]

PredictorRoster ==
  {"meta_l2_ic", "momentum_l1_ic", "volatility_l1_ic", "research_calibrator_l1_ic",
   "ensemble_lift_over_best_l1", "confidence_calibration_ece", "output_distribution_gate",
   "veto_gate_precision", "direction_accuracy_vs_majority_baseline", "up_precision_vs_base_rate",
   "down_precision_vs_base_rate", "inference_coverage", "inference_funnel_width",
   "slim_cache_freshness", "feature_drift_ks"}

\* The leak-free CPCV read of the manifest is ok.
CpcvOk(w) == w.cells.manifest.kind \in {"nostandalone", "full"}
\* The walk-forward block and the metrics blocks carry their values.
WalkForward(w) == w.cells.manifest.kind \in {"notok", "nostandalone", "full"}
Metrics(w) == w.cells.latest.kind \in {"gate_failed", "full"}

When(holds, record, otherwise) == IF holds THEN record ELSE otherwise

MetaL2Ic(w) ==
  When(CpcvOk(w), Measured(w, "meta_l2_ic", "critical"), Missing("meta_l2_ic", "critical"))

MomentumL1Ic(w) ==
  When(WalkForward(w), Measured(w, "momentum_l1_ic", "critical"), Missing("momentum_l1_ic", "critical"))
VolatilityL1Ic(w) ==
  When(WalkForward(w), Measured(w, "volatility_l1_ic", "supporting"), Missing("volatility_l1_ic", "supporting"))

\* Its input is never declared missing: no value is too few samples.
ResearchCalibratorL1Ic(w) ==
  When(Metrics(w), Measured(w, "research_calibrator_l1_ic", "supporting"),
       LowN("research_calibrator_l1_ic", "supporting"))

\* Signed alpha against signed alpha: without the standalone ICs there is no
\* fallback to a magnitude IC.
EnsembleLift(w) ==
  When(w.cells.manifest.kind = "full", Measured(w, "ensemble_lift_over_best_l1", "critical"),
       Missing("ensemble_lift_over_best_l1", "critical"))

ConfidenceCalibration(w) ==
  When(Metrics(w), Measured(w, "confidence_calibration_ece", "critical"),
       Missing("confidence_calibration_ece", "critical"))

OutputDistributionGate(w) ==
  LET n == "output_distribution_gate"
  IN  When(Metrics(w), Stated(n, "critical", IF w.cells.latest.kind = "full" THEN "GREEN" ELSE "RED"),
           Missing(n, "critical"))

VetoGatePrecision(w) ==
  FromArtifact(w, "veto_gate_precision", "supporting", "veto_analysis", PredictorMaxAge)

\* A matrix that pools horizons, or whose classes do not sum to its N, is
\* refused; one that declares no effective N reads as too few samples.
OfMatrix(w, n, kinds) ==
  CASE Stale(w, "confusion_matrix", PredictorMaxAge) -> MissingStale(n, "supporting")
    [] ~Stale(w, "confusion_matrix", PredictorMaxAge)
       /\ Body(w, "confusion_matrix") \in kinds -> Measured(w, n, "supporting")
    [] ~Stale(w, "confusion_matrix", PredictorMaxAge)
       /\ Body(w, "confusion_matrix") = "undeclared" -> LowN(n, "supporting")
    [] OTHER -> Missing(n, "supporting")

DirectionAccuracy(w) == OfMatrix(w, "direction_accuracy_vs_majority_baseline", {"no_down", "full"})
UpPrecision(w) == OfMatrix(w, "up_precision_vs_base_rate", {"no_down", "full"})
DownPrecision(w) == OfMatrix(w, "down_precision_vs_base_rate", {"full"})

\* Over the names this run was asked to score; there is no other denominator.
InferenceCoverage(w) ==
  When(Metrics(w), Measured(w, "inference_coverage", "critical"), Missing("inference_coverage", "critical"))
InferenceFunnelWidth(w) ==
  When(Metrics(w), Measured(w, "inference_funnel_width", "supporting"),
       Missing("inference_funnel_width", "supporting"))

SlimCacheFreshness(w) ==
  When(w.cells.slim_cache.kind = "full", Measured(w, "slim_cache_freshness", "supporting"),
       Missing("slim_cache_freshness", "supporting"))

FeatureDriftKs(w) ==
  When(Metrics(w), Measured(w, "feature_drift_ks", "diagnostic"), Missing("feature_drift_ks", "diagnostic"))

\* With neither metrics nor manifest one record stands for the tile; the rest
\* of its roster goes unreported.
PredictorBlind(w) == w.cells.latest.kind = "absent" /\ w.cells.manifest.kind = "absent"

PredictorRecords(w) ==
  IF PredictorBlind(w) THEN {Missing("meta_l2_ic", "critical")}
  ELSE {MetaL2Ic(w), MomentumL1Ic(w), VolatilityL1Ic(w), ResearchCalibratorL1Ic(w), EnsembleLift(w),
        ConfidenceCalibration(w), OutputDistributionGate(w), VetoGatePrecision(w),
        DirectionAccuracy(w), UpPrecision(w), DownPrecision(w), InferenceCoverage(w),
        InferenceFunnelWidth(w), SlimCacheFreshness(w), FeatureDriftKs(w)}
=============================================================================
