---------------------------- MODULE ResearchTile ----------------------------
(***************************************************************************)
(* The Research tile (grading/tiles/research.py): the end-to-end lift,     *)
(* calibration, agent-quality and attractiveness artifacts of the weekly   *)
(* backtest.  Every read is windowed; the tile computes whether e2e_lift   *)
(* is stale and grades every body whatever its age.                        *)
(*                                                                         *)
(* e2e_lift kinds: "insig" has every block, none significant; "hurting"    *)
(* has a significantly negative live neutralization; "frozen" has only     *)
(* the retired scanner's record; "retired" carries the marker of the       *)
(* retired six-team graph.  attractiveness_eval kinds: "partial" lacks a   *)
(* field of the basket cohort, "stamped" draws its cycles from a stale     *)
(* source, "stuck" has the N of the two cards before it.                   *)
(***************************************************************************)
EXTENDS TileRecords

\* RESEARCH_ARTIFACT_MAX_AGE_DAYS, declared for this tile.
ResearchMaxAge == 7

ResearchCells ==
  [e2e_lift |-> Windowed({"bare", "frozen", "insig", "hurting", "retired", "full"}),
   score_calibration |-> Windowed({"notok", "bare", "legacy", "insig", "full"}),
   macro_eval |-> Windowed({"notok", "bare", "full"}),
   portfolio_calibration |-> Windowed({"notok", "bare", "full"}),
   agent_quality |-> Windowed({"notok", "bare", "insig", "stuck", "full"}),
   attractiveness_eval |-> Windowed({"notok", "bare", "insig", "partial", "stamped", "stuck", "full"})]

ResearchRoster ==
  {"scanner", "sector_teams_avg", "cio", "cio_selection_skill", "research_composite_ic",
   "thinktank_coverage_ic", "composite_scoring", "macro_agent", "calibration_diagnostics",
   "momentum_regime_ic", "neutralization_live_efficacy", "judge_rubric_pass_rate",
   "pillar_emit_coverage", "signal_volume_adequacy", "attractiveness_ic",
   "attractiveness_trajectory_ic", "scanner_feed_counterfactual", "judge_outcome_ic",
   "scanner_basket_return"}

\* A significance test passed, or the reading withheld at WATCH.
Significant(w, n, crit, a, sure, unsure) ==
  CASE Body(w, a) \in sure -> Measured(w, n, crit)
    [] Body(w, a) \in unsure -> Stated(n, crit, "WATCH")
    [] OTHER -> Missing(n, crit)

Carries(w, n, crit, a, kinds) == Significant(w, n, crit, a, kinds, {})

\* What the live scanner published, else the retired arm's own block unless it
\* is stamped frozen.
Scanner(w) == Carries(w, "scanner", "supporting", "e2e_lift", {"insig", "hurting", "retired", "full"})

GraphRetired(w) == Body(w, "e2e_lift") = "retired"
Retired(n) == Accepted(n, "diagnostic")

SectorTeamsAvg(w) ==
  IF GraphRetired(w) THEN Retired("sector_teams_avg")
  ELSE Carries(w, "sector_teams_avg", "critical", "e2e_lift", {"insig", "hurting", "full"})

Cio(w) ==
  IF GraphRetired(w) THEN Retired("cio")
  ELSE Carries(w, "cio", "critical", "e2e_lift", {"insig", "hurting", "full"})

CioSelectionSkill(w) ==
  IF GraphRetired(w) THEN Retired("cio_selection_skill")
  ELSE Significant(w, "cio_selection_skill", "critical", "e2e_lift", {"hurting", "full"}, {"insig"})

ResearchCompositeIc(w) ==
  IF GraphRetired(w) THEN Retired("research_composite_ic")
  ELSE Significant(w, "research_composite_ic", "critical", "e2e_lift", {"hurting", "full"}, {"insig"})

ThinktankCoverageIc(w) ==
  Significant(w, "thinktank_coverage_ic", "diagnostic", "e2e_lift",
              {"hurting", "retired", "full"}, {"insig"})

\* A flat calibration, and the legacy monotonic flag, are held at WATCH.
CompositeScoring(w) ==
  Significant(w, "composite_scoring", "supporting", "score_calibration", {"full"}, {"insig", "legacy"})

MacroAgent(w) == Carries(w, "macro_agent", "supporting", "macro_eval", {"full"})

CalibrationDiagnostics(w) ==
  Carries(w, "calibration_diagnostics", "supporting", "portfolio_calibration", {"full"})

MomentumRegimeIc == Retired("momentum_regime_ic")

\* Retired with the graph; otherwise RED only when it significantly hurts.
NeutralizationLiveEfficacy(w) ==
  LET n == "neutralization_live_efficacy"
  IN  CASE GraphRetired(w) -> Retired(n)
        [] Body(w, "e2e_lift") = "hurting" -> Stated(n, "critical", "RED")
        [] OTHER -> Significant(w, n, "critical", "e2e_lift", {"full"}, {"insig"})

OfAgentQuality(w, n, crit) == Carries(w, n, crit, "agent_quality", {"insig", "stuck", "full"})

JudgeRubricPassRate(w) == OfAgentQuality(w, "judge_rubric_pass_rate", "supporting")
PillarEmitCoverage(w) == OfAgentQuality(w, "pillar_emit_coverage", "supporting")
SignalVolumeAdequacy(w) == OfAgentQuality(w, "signal_volume_adequacy", "diagnostic")

AttractivenessIc(w) ==
  Significant(w, "attractiveness_ic", "critical", "attractiveness_eval",
              {"partial", "stamped", "stuck", "full"}, {"insig"})

\* An IC whose N has stopped growing leaves the live level: it becomes a
\* declared diagnostic until its source resumes.
AttractivenessTrajectoryIc(w) ==
  IF Body(w, "attractiveness_eval") = "stuck" THEN Retired("attractiveness_trajectory_ic")
  ELSE Significant(w, "attractiveness_trajectory_ic", "diagnostic", "attractiveness_eval",
                   {"partial", "stamped", "full"}, {"insig"})

ScannerFeedCounterfactual(w) ==
  Carries(w, "scanner_feed_counterfactual", "supporting", "attractiveness_eval",
          {"insig", "partial", "stamped", "stuck", "full"})

\* Of the artifact's block only the block's own status is read.
JudgeOutcomeIc(w) ==
  IF Body(w, "agent_quality") = "stuck" THEN Retired("judge_outcome_ic")
  ELSE Significant(w, "judge_outcome_ic", "diagnostic", "agent_quality", {"notok", "full"}, {"insig"})

\* Frozen by its source's own stamp or by a stuck N.
ScannerBasketReturn(w) ==
  IF Body(w, "attractiveness_eval") \in {"stamped", "stuck"} THEN Retired("scanner_basket_return")
  ELSE Significant(w, "scanner_basket_return", "critical", "attractiveness_eval", {"full"}, {"insig"})

ResearchRecords(w) ==
  {Scanner(w), SectorTeamsAvg(w), Cio(w), CioSelectionSkill(w), ResearchCompositeIc(w),
   ThinktankCoverageIc(w), CompositeScoring(w), MacroAgent(w), CalibrationDiagnostics(w),
   MomentumRegimeIc, NeutralizationLiveEfficacy(w), JudgeRubricPassRate(w), PillarEmitCoverage(w),
   SignalVolumeAdequacy(w), AttractivenessIc(w), AttractivenessTrajectoryIc(w),
   ScannerFeedCounterfactual(w), JudgeOutcomeIc(w), ScannerBasketReturn(w)}
=============================================================================
