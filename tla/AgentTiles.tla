----------------------------- MODULE AgentTiles -----------------------------
(***************************************************************************)
(* The tiles about agents and their plans: Agent Quality with the groomer  *)
(* (grading/tiles/agent.py, groom.py), Behavioral (behavioral.py), the     *)
(* Director's retro quality (director_quality.py) and contribution lift    *)
(* (contribution_lift.py).                                                 *)
(***************************************************************************)
EXTENDS TileRecords

(* ------------------------------ agent quality --------------------------- *)

AgentMaxAge == 10

\* "long_only": the latency block has no short-form agent.  groom_runs:
\* "sweep_only" has no disposition, "no_completions" none that resolved.
AgentCells ==
  [agent_quality |-> Windowed({"notok", "bare", "long_only", "full"}),
   signals |-> Windowed({"bare", "full"}),
   groom_runs |-> Exact({"sweep_only", "no_completions", "full"}),
   paused_lanes |-> {Fresh(k) : k \in {"unreadable", "running", "paused"}}]

GroomRoster ==
  {"groom_completion_rate", "groom_wet_per_completion", "groom_comment_churn", "groom_lost_chunks"}

AgentRoster ==
  GroomRoster \cup
  {"agent_validation_failure_rate", "cost_per_signal", "retry_storm_count", "agent_latency_p95",
   "judge_rubric_distribution", "stance_source_provenance", "judge_calibration_cohen_kappa"}

\* _block: a null value is as absent as the block.
OfAgentBlock(w, n, crit, kinds) ==
  CASE Stale(w, "agent_quality", AgentMaxAge) -> MissingStale(n, crit)
    [] ~Stale(w, "agent_quality", AgentMaxAge) /\ Body(w, "agent_quality") \in kinds -> Measured(w, n, crit)
    [] OTHER -> Missing(n, crit)

AgentBlocks(w) ==
  {OfAgentBlock(w, "agent_validation_failure_rate", "critical", {"long_only", "full"}),
   OfAgentBlock(w, "cost_per_signal", "supporting", {"long_only", "full"}),
   OfAgentBlock(w, "retry_storm_count", "supporting", {"long_only", "full"}),
   OfAgentBlock(w, "judge_rubric_distribution", "diagnostic", {"long_only", "full"})}

\* Long-form writers are reported and not graded.
AgentLatency(w) == OfAgentBlock(w, "agent_latency_p95", "diagnostic", {"full"})

StanceSourceProvenance(w) ==
  FromArtifact(w, "stance_source_provenance", "diagnostic", "signals", AgentMaxAge)

\* Waits for human labels.
JudgeCalibration == NotImpl("judge_calibration_cohen_kappa", "critical")

\* Without a run in the week: declared when the lanes say so, and a missing
\* input when they do not or cannot be read.
GroomAbsent(w) ==
  IF w.cells.paused_lanes.kind = "paused" THEN {Accepted(n, "diagnostic") : n \in GroomRoster}
  ELSE {Missing(n, "supporting") : n \in GroomRoster}

GroomCompletionRate(w) ==
  IF w.cells.groom_runs.kind = "sweep_only" THEN LowN("groom_completion_rate", "supporting")
  ELSE Measured(w, "groom_completion_rate", "supporting")
GroomWetPerCompletion(w) ==
  IF w.cells.groom_runs.kind = "full" THEN Measured(w, "groom_wet_per_completion", "diagnostic")
  ELSE LowN("groom_wet_per_completion", "diagnostic")
GroomCommentChurn(w) ==
  IF w.cells.groom_runs.kind = "sweep_only" THEN LowN("groom_comment_churn", "supporting")
  ELSE Measured(w, "groom_comment_churn", "supporting")
GroomLostChunks(w) == Measured(w, "groom_lost_chunks", "supporting")

GroomComponents(w) ==
  IF w.cells.groom_runs.kind = "absent" THEN GroomAbsent(w)
  ELSE {GroomCompletionRate(w), GroomWetPerCompletion(w), GroomCommentChurn(w), GroomLostChunks(w)}

AgentRecords(w) ==
  AgentBlocks(w) \cup {AgentLatency(w), StanceSourceProvenance(w), JudgeCalibration} \cup GroomComponents(w)

(* ------------------------------- behavioral ------------------------------ *)

BehavioralMaxAge == 10

\* Each metric has a sub-block of its own; "bare" is one that is not ok.
BehavioralCells ==
  [anomaly |-> Windowed({"bare", "full"}),
   tripwire |-> Exact({"unmeasured", "full"})]

BehavioralRoster == {"turnover", "decision_reversal", "conviction_stability",
                     "cost_adjusted_quality", "portfolio_state_drift"}

\* A breach is a measurement, not an absence.
Turnover(w) ==
  IF w.cells.tripwire.kind = "full" THEN Measured(w, "turnover", "diagnostic")
  ELSE Missing("turnover", "diagnostic")

OfAnomaly(w, n, crit) == FromArtifact(w, n, crit, "anomaly", BehavioralMaxAge)

BehavioralRecords(w) ==
  {Turnover(w), OfAnomaly(w, "decision_reversal", "supporting"),
   OfAnomaly(w, "conviction_stability", "diagnostic"),
   OfAnomaly(w, "cost_adjusted_quality", "supporting"),
   OfAnomaly(w, "portfolio_state_drift", "diagnostic")}

(* ---------------------------- director quality --------------------------- *)

\* The last row of the trend; a plan that stamps who served it.
DirectorCells == [retro_trend |-> Exact({"bare", "full"}), action_plan |-> Exact({"unstamped", "full"})]

GradeNames == {"director_grounding", "director_calibration", "director_actionability"}
DirectorRoster == GradeNames \cup {"director_route_degraded"}

\* _latest_grade, _component
RetroGrades(w) ==
  {IF w.cells.retro_trend.kind = "full" THEN Measured(w, n, "supporting") ELSE Missing(n, "supporting") :
     n \in GradeNames}

\* An unknown route is never rendered as the primary's.
RouteDegraded(w) ==
  IF w.cells.action_plan.kind = "full" THEN Measured(w, "director_route_degraded", "supporting")
  ELSE Missing("director_route_degraded", "supporting")

DirectorRecords(w) == RetroGrades(w) \cup {RouteDegraded(w)}

(* ---------------------------- contribution lift -------------------------- *)

\* Four of the 26 components stand for them: one of a critical producer, one
\* the producer retires, one it has no pair for, one retired here.
\* "partial": an artifact without every component.
LiftCells == [lift |-> Windowed({"notok", "partial", "full"})]

LiftCritical == "meta_l2_ic_contribution_lift"
LiftRetired == "sector_teams_avg_contribution_lift"
LiftGap == "exit_rules_contribution_lift"
LiftDeclared == "risk_guard_contribution_lift"
LiftRoster == {LiftCritical, LiftRetired, LiftGap, LiftDeclared}

\* _evaluator_declared_reason: retired here until its revisit date, unless the
\* producer measured it after all.
EvaluatorDeclared == Accepted(LiftDeclared, "diagnostic")

LiftFallback ==
  {Missing(n, "diagnostic") : n \in LiftRoster \ {LiftDeclared}} \cup {EvaluatorDeclared}

\* The artifact decides which components there are, and which are critical.
LiftComponents(w) ==
  {Measured(w, LiftCritical, "critical"), Accepted(LiftRetired, "diagnostic"), EvaluatorDeclared}
    \cup (IF Body(w, "lift") = "full" THEN {Missing(LiftGap, "diagnostic")} ELSE {})

\* Its age is reported beside the tile and changes no record.
LiftRecords(w) ==
  IF Body(w, "lift") \in {"absent", "notok"} THEN LiftFallback ELSE LiftComponents(w)
=============================================================================
