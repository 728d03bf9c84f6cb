------------------------------ MODULE Scorecard ------------------------------
(***************************************************************************)
(* The weighted composite of the report card (grading/scorecard.py).  A    *)
(* grader turns the artifacts of one component into a block: a grade, or   *)
(* why there is none.  The blocks of a module are averaged under declared  *)
(* weights, and the modules again, under one rule: a component that failed *)
(* scores 0 at its full weight, one that is merely absent leaves the       *)
(* denominator (RENORMALIZATION_RULE).                                     *)
(*                                                                         *)
(* in[a] is what the run's dated key of artifact a holds:                  *)
(*   "absent"        nothing, or a body without a status                   *)
(*   "failed"        a status that names a failure or a timeout            *)
(*   "insufficient"  a status that names a thin sample                     *)
(*   "retired"       a status that names an end of life                    *)
(*   "bare"          status ok, without the values the grader reads        *)
(*   "full"          status ok, with them                                  *)
(* and levels[n] the grade component n's values come to, on a scale from   *)
(* 0.  The normalisers of each metric and the weights inside a component   *)
(* are abstracted to levels; a grade of a module is a fraction.            *)
(***************************************************************************)
EXTENDS Naturals, FiniteSets, FiniteSetsExt

CONSTANTS
  Weight,        \* Weight[m][n]: declared weight of component n of module m
  OverallWeight  \* OverallWeight[v]: declared weight of a voter of the headline

Modules == {"research", "predictor", "executor"}
Components ==
  [research |-> {"scanner", "macro_agent", "composite_scoring", "calibration_diagnostics"},
   predictor |-> {"meta_model", "veto_gate"},
   executor |-> {"entry_triggers", "risk_guard", "exit_rules", "position_sizing", "portfolio",
                 "excursion", "action_entropy"}]
Leaves == UNION {Components[m] : m \in Modules}
Voters == Modules \cup {"portfolio_outcome"}

\* Every table is of positive weights over its own voters; integers here,
\* fractions of 1 in thresholds/registry.yaml.
ASSUME WeightAssumption ==
  /\ DOMAIN Weight = Modules /\ DOMAIN OverallWeight = Voters
  /\ \A m \in Modules : Weight[m] \in [Components[m] -> Nat \ {0}]
  /\ OverallWeight \in [Voters -> Nat \ {0}]

(* -------------------------------- artifacts ------------------------------ *)

\* metrics.json and e2e_lift.json are also gated by the freshness preflight.
ScoreArtifacts ==
  {"signal_quality", "metrics", "e2e_lift", "scanner_lift", "cio_lift", "team_lift", "macro_eval",
   "score_calibration", "calibration_diagnostics", "predictor_sizing", "veto_result", "veto_value",
   "trigger_scorecard", "shadow_book", "exit_timing", "sizing_ab", "portfolio_stats", "scanner_opt",
   "excursion_summary", "action_entropy"}

\* Artifacts that are a value, whose status no grader reads.
ValueOnly == {"score_calibration", "veto_value", "portfolio_stats", "scanner_opt"}

\* scanner_lift is the live cut, or the retired arm's record: with values, or
\* frozen by its own source_freshness.  "quiet" is a failure whose reason text
\* does not say so.
ArtifactKinds(a) ==
  CASE a = "e2e_lift" -> {"absent", "full"}
    [] a = "metrics" -> {"absent", "failed", "full"}
    [] a \in ValueOnly -> {"absent", "full"}
    [] a = "scanner_lift" -> {"absent", "failed", "bare", "frozen", "full"}
    [] a \in {"cio_lift", "team_lift"} -> {"absent", "failed", "retired", "full"}
    [] a = "calibration_diagnostics" -> {"absent", "failed", "quiet", "insufficient", "bare", "full"}
    [] OTHER -> {"absent", "failed", "insufficient", "bare", "full"}

\* signal_quality.json, or what metrics.json can be reconstructed to.
SignalQuality(in) == IF in.signal_quality # "absent" THEN in.signal_quality ELSE in.metrics

OfLift(in, block) == IF in.e2e_lift = "absent" THEN "absent" ELSE in[block]

(* ---------------------------------- blocks ------------------------------- *)

FailedClasses == {"failed"}

\* The skip class the words of a grader come to; a failure and a timeout are
\* one class here.
SkipClass ==
  [absent |-> "input_absent", failed |-> "failed", insufficient |-> "insufficient_data",
   retired |-> "retired", bare |-> "unknown", quiet |-> "unknown", full |-> "unknown"]

Graded(level) == [graded |-> TRUE, num |-> level, den |-> 1, skip |-> "none"]
NotGradedBecause(class) == [graded |-> FALSE, num |-> 0, den |-> 0, skip |-> class]

\* Variant: a producer's status never makes a failure of a missing grade.
NaReasonSilent(kind) == NotGradedBecause(IF kind = "failed" THEN "insufficient_data" ELSE SkipClass[kind])

\* _na_reason: the producer's own status, or that nothing arrived.
NaReason(kind) == NotGradedBecause(SkipClass[kind])

\* ok, but nothing to average: a null without a reason.
NoValue == NotGradedBecause("unknown")

\* A grader that reads one artifact and its status.
ByStatus(kind, level) ==
  CASE kind = "full" -> Graded(level)
    [] kind = "bare" -> NoValue
    [] OTHER -> NaReason(kind)

(* --------------------------------- graders ------------------------------- *)

\* A block without n_passing is thin data whatever its status; the frozen
\* record of the retired arm is not this week's scanner.
Scanner(in, levels) ==
  LET lift == OfLift(in, "scanner_lift")
  IN  CASE lift \in {"absent", "failed"} -> NotGradedBecause("insufficient_data")
        [] lift = "frozen" -> NotGradedBecause("retired")
        [] lift = "full" \/ (lift = "bare" /\ in.scanner_opt = "full") -> Graded(levels["scanner"])
        [] OTHER -> NoValue

MacroAgent(in, levels) == ByStatus(in.macro_eval, levels["macro_agent"])

\* Monotonicity comes from another artifact and grades on its own.
CompositeScoring(in, levels) ==
  LET sq == SignalQuality(in)
  IN  IF sq = "bare" /\ in.score_calibration = "full" THEN Graded(levels["composite_scoring"])
      ELSE ByStatus(sq, levels["composite_scoring"])

\* The reason is the producer's text: none for a failure that says nothing.
Calibration(in, levels) ==
  CASE in.calibration_diagnostics = "full" -> Graded(levels["calibration_diagnostics"])
    [] in.calibration_diagnostics = "absent" -> NoValue
    [] OTHER -> NaReason(in.calibration_diagnostics)

\* Any usable veto result stands in for the model's, without a grade.
MetaModel(in, levels) ==
  IF in.predictor_sizing \notin {"bare", "full"} /\ in.veto_result \in {"bare", "full"} THEN NoValue
  ELSE ByStatus(in.predictor_sizing, levels["meta_model"])

VetoGate(in, levels) ==
  IF in.veto_result = "bare" /\ in.veto_value = "full" THEN Graded(levels["veto_gate"])
  ELSE ByStatus(in.veto_result, levels["veto_gate"])

EntryTriggers(in, levels) == ByStatus(in.trigger_scorecard, levels["entry_triggers"])

\* The default assessment is a grade.
RiskGuard(in, levels) ==
  IF in.shadow_book = "bare" THEN Graded(levels["risk_guard"])
  ELSE ByStatus(in.shadow_book, levels["risk_guard"])

ExitRules(in, levels) == ByStatus(in.exit_timing, levels["exit_rules"])
PositionSizing(in, levels) == ByStatus(in.sizing_ab, levels["position_sizing"])

\* Neither status is read, and a null carries no reason.
Portfolio(in, levels) ==
  IF SignalQuality(in) = "full" \/ in.portfolio_stats = "full" THEN Graded(levels["portfolio"])
  ELSE NoValue

Excursion(in, levels) == ByStatus(in.excursion_summary, levels["excursion"])
ActionEntropy(in, levels) == ByStatus(in.action_entropy, levels["action_entropy"])

\* Computed and published, and without a weight since they were retired.
Cio(in) ==
  LET lift == OfLift(in, "cio_lift")
  IN  IF lift = "full" THEN Graded(1) ELSE NaReason(lift)
SectorTeams(in) ==
  LET lift == OfLift(in, "team_lift")
  IN  CASE lift = "full" -> Graded(1)
        [] lift = "retired" -> NaReason(lift)
        [] OTHER -> NoValue
RetiredBlocks(in) == [cio |-> Cio(in), sector_teams_avg |-> SectorTeams(in)]

Blocks(in, levels) ==
  [research |-> [scanner |-> Scanner(in, levels), macro_agent |-> MacroAgent(in, levels),
                 composite_scoring |-> CompositeScoring(in, levels),
                 calibration_diagnostics |-> Calibration(in, levels)],
   predictor |-> [meta_model |-> MetaModel(in, levels), veto_gate |-> VetoGate(in, levels)],
   executor |-> [entry_triggers |-> EntryTriggers(in, levels), risk_guard |-> RiskGuard(in, levels),
                 exit_rules |-> ExitRules(in, levels), position_sizing |-> PositionSizing(in, levels),
                 portfolio |-> Portfolio(in, levels), excursion |-> Excursion(in, levels),
                 action_entropy |-> ActionEntropy(in, levels)]]

(* -------------------------------- composites ----------------------------- *)

\* _resolve_components: a graded block votes its grade, a failed one 0.
Fails(block) == ~block.graded /\ block.skip \in FailedClasses
Scoring(blocks) == {n \in DOMAIN blocks : blocks[n].graded \/ Fails(blocks[n])}

\* A failed block has denominator 1 in the average.
Den(block) == IF block.graded THEN block.den ELSE 1

Product(f, s) == FoldFunctionOnSet(LAMBDA x, y : x * y, 1, f, s)

\* The weighted average of the scoring blocks, over one denominator; a module
\* none of whose components scores has no grade and says no reason.
Composite(weights, blocks) ==
  LET scoring == Scoring(blocks)
      dens == [n \in scoring |-> Den(blocks[n])]
      shares == [n \in scoring |-> weights[n] * blocks[n].num * Product(dens, scoring \ {n})]
  IN  IF scoring = {} THEN NoValue
      ELSE [graded |-> TRUE, skip |-> "none", num |-> SumFunctionOnSet(shares, scoring),
            den |-> SumFunctionOnSet(weights, scoring) * Product(dens, scoring)]

\* _coverage of one level; whole[n] says child n was itself fully measured and
\* failedIn[n] what failed inside it.
Coverage(blocks, whole, failedIn) ==
  LET skips == {n \in DOMAIN blocks : ~blocks[n].graded}
      failed == {n \in skips : Fails(blocks[n])} \cup UNION {failedIn[n] : n \in DOMAIN blocks}
      complete == skips = {} /\ \A n \in DOMAIN blocks : whole[n]
  IN  [skips |-> skips, failed |-> failed, whole |-> complete,
       renormalized |-> Scoring(blocks) # {} /\ \E n \in skips : ~Fails(blocks[n]),
       qualifier |-> CASE Scoring(blocks) = {} -> "UNGRADED"
                       [] Scoring(blocks) # {} /\ failed # {} -> "PARTIAL-FAILURE-SCORED-ZERO"
                       [] Scoring(blocks) # {} /\ failed = {} /\ ~complete -> "PARTIAL"
                       [] OTHER -> "COMPLETE"]

LeafCoverage(blocks) ==
  Coverage(blocks, [n \in DOMAIN blocks |-> TRUE], [n \in DOMAIN blocks |-> {}])

ScoreStatus(votes) ==
  LET graded == {v \in Voters : votes[v].graded}
  IN  CASE graded = {} -> "insufficient_data"
        [] graded # {} /\ graded # Voters -> "partial"
        [] OTHER -> "ok"

\* compute_scorecard, given the outcome tile's vote and whether all of that
\* tile was measured.
ComputeScorecard(in, levels, outcome, outcomeWhole) ==
  LET blocks == Blocks(in, levels)
      grade == [m \in Modules |-> Composite(Weight[m], blocks[m])]
      votes == [v \in Voters |-> IF v = "portfolio_outcome" THEN outcome ELSE grade[v]]
      cover == [m \in Modules |-> LeafCoverage(blocks[m])]
  IN  [status |-> ScoreStatus(votes),
       overall |-> Composite(OverallWeight, votes),
       modules |-> grade,
       retired |-> RetiredBlocks(in),
       coverage |-> Coverage(votes,
                             [v \in Voters |-> IF v \in Modules THEN cover[v].whole ELSE outcomeWhole],
                             [v \in Voters |-> IF v \in Modules THEN cover[v].failed ELSE {}])]

\* a's grade is no better than b's, where there are both.
AtMost(a, b) == a.graded /\ b.graded => a.num * b.den <= b.num * a.den
=============================================================================
