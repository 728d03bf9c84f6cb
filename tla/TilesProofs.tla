----------------------------- MODULE TilesProofs -----------------------------
(***************************************************************************)
(* What holds of the tiles over any run of bad weeks, however many         *)
(* artifacts and readings are away from the good one.                      *)
(***************************************************************************)
EXTENDS Tiles, TileRecordsProofs

-----------------------------------------------------------------------------
(* Artifacts. *)

\* The cells of an artifact: records of an age in days and a kind of body, and
\* what is not there has no age.
Dated(cells) ==
  \A c \in cells : /\ DOMAIN c = {"age", "kind"} /\ c.age \in Nat
                   /\ c.kind = "absent" => c.age = 0

\* With the good cell among them.
Whole(cells) == Dated(cells) /\ Fresh("full") \in cells

LEMMA WholeKinds ==
  \A kinds : "full" \in kinds =>
    /\ "absent" \notin kinds => Whole(Windowed(kinds))
    /\ Whole(Exact(kinds)) /\ Whole({Fresh(k) : k \in kinds})
BY DEF Whole, Dated, Windowed, Exact, Fresh, Ages

LEMMA GoodCells ==
  /\ \A a \in DOMAIN ResearchCells : Whole(ResearchCells[a])
  /\ \A a \in DOMAIN BacktesterCells : Whole(BacktesterCells[a])
  /\ \A a \in DOMAIN PredictorCells : Whole(PredictorCells[a])
  /\ \A a \in DOMAIN ExecutorCells : Whole(ExecutorCells[a])
  /\ \A a \in DOMAIN OutcomeCells : Whole(OutcomeCells[a])
  /\ \A a \in DOMAIN SubstrateCells : Whole(SubstrateCells[a])
  /\ \A a \in DOMAIN AgentCells \ {"paused_lanes"} : Whole(AgentCells[a])
  /\ \A a \in DOMAIN BehavioralCells : Whole(BehavioralCells[a])
  /\ \A a \in DOMAIN DirectorCells : Whole(DirectorCells[a])
  /\ \A a \in DOMAIN LiftCells : Whole(LiftCells[a])
<1>1. \A a \in DOMAIN ResearchCells : Whole(ResearchCells[a])
  <2>1. /\ Whole(Windowed({"bare", "frozen", "insig", "hurting", "retired", "full"}))
        /\ Whole(Windowed({"notok", "bare", "legacy", "insig", "full"}))
        /\ Whole(Windowed({"notok", "bare", "full"}))
        /\ Whole(Windowed({"notok", "bare", "insig", "stuck", "full"}))
        /\ Whole(Windowed({"notok", "bare", "insig", "partial", "stamped", "stuck", "full"}))
    BY WholeKinds
  <2> QED
    BY <2>1 DEF ResearchCells
<1>2. \A a \in DOMAIN BacktesterCells : Whole(BacktesterCells[a])
  <2>1. /\ Whole(Windowed({"bare", "full"}))
        /\ Whole(Exact({"unknown", "fail", "full"}))
        /\ Whole(Windowed({"notok", "diverged", "full"}))
        /\ Whole(Exact({"disabled", "full"}))
        /\ Whole(Windowed({"notok"} \cup DOMAIN FdrSurfaces))
        /\ Whole(Exact({"full"}))
        /\ Whole(Windowed({"bare"} \cup DOMAIN ApplyAudits))
        /\ Whole(Windowed({"notok", "bare", "full"}))
        /\ Whole(Windowed({"notok", "bare", "straddling", "full"}))
        /\ Whole(Exact({"bare", "full"}))
        /\ Whole(Exact({"notok", "full"}))
        /\ Whole(Exact({"bare", "undeclared", "full"}))
    BY WholeKinds DEF FdrSurfaces, ApplyAudits
  <2> QED
    BY <2>1 DEF BacktesterCells
<1>3. \A a \in DOMAIN PredictorCells : Whole(PredictorCells[a])
  <2>1. /\ Whole(Exact({"bare", "gate_failed", "full"}))
        /\ Whole(Exact({"bare", "notok", "nostandalone", "full"}))
        /\ Whole(Windowed({"bare", "full"}))
        /\ Whole(Windowed({"notok", "mixed", "unsummed", "undeclared", "no_down", "full"}))
        /\ Whole(Exact({"full"}))
    BY WholeKinds
  <2> QED
    BY <2>1 DEF PredictorCells
<1>4. \A a \in DOMAIN ExecutorCells : Whole(ExecutorCells[a])
  <2>1. Whole(Windowed({"notok", "bare", "full"}))
    BY WholeKinds
  <2> QED
    BY <2>1 DEF ExecutorCells
<1>5. \A a \in DOMAIN OutcomeCells : Whole(OutcomeCells[a])
  <2>1. /\ Whole(Exact({"full"}))
        /\ Whole(Exact({"notok", "few_splits", "few_specs", "dominant", "over", "full"}))
        /\ Whole(Exact({"one_regime", "full"}))
    BY WholeKinds
  <2> QED
    BY <2>1 DEF OutcomeCells
<1>6. \A a \in DOMAIN SubstrateCells : Whole(SubstrateCells[a])
  <2>1. /\ Whole(Exact({"full"}))
        /\ Whole({Fresh(k) : k \in {"denied", "noarns", "truncated", "unplaced", "nocycles", "recovery_only", "full"}})
        /\ Whole({Fresh(k) : k \in {"denied", "absent", "full"}})
        /\ Whole(Windowed({"bare", "full"}))
        /\ Whole(Exact({"bare", "old", "undated", "full"}))
        /\ Whole({Fresh(k) : k \in {"unmeasured", "full"}})
        /\ Whole({Fresh(k) : k \in {"absent", "insufficient", "full"}})
    BY WholeKinds
  <2> QED
    BY <2>1 DEF SubstrateCells
<1>7. \A a \in DOMAIN AgentCells \ {"paused_lanes"} : Whole(AgentCells[a])
  <2>1. /\ Whole(Windowed({"notok", "bare", "long_only", "full"}))
        /\ Whole(Windowed({"bare", "full"}))
        /\ Whole(Exact({"sweep_only", "no_completions", "full"}))
    BY WholeKinds
  <2> QED
    BY <2>1 DEF AgentCells
<1>8. \A a \in DOMAIN BehavioralCells : Whole(BehavioralCells[a])
  <2>1. /\ Whole(Windowed({"bare", "full"}))
        /\ Whole(Exact({"unmeasured", "full"}))
    BY WholeKinds
  <2> QED
    BY <2>1 DEF BehavioralCells
<1>9. \A a \in DOMAIN DirectorCells : Whole(DirectorCells[a])
  <2>1. /\ Whole(Exact({"bare", "full"}))
        /\ Whole(Exact({"unstamped", "full"}))
    BY WholeKinds
  <2> QED
    BY <2>1 DEF DirectorCells
<1>10. \A a \in DOMAIN LiftCells : Whole(LiftCells[a])
  <2>1. Whole(Windowed({"notok", "partial", "full"}))
    BY WholeKinds
  <2> QED
    BY <2>1 DEF LiftCells
<1> QED
  BY <1>1, <1>2, <1>3, <1>4, <1>5, <1>6, <1>7, <1>8, <1>9, <1>10

\* Whether the lanes run is read whatever became of them.
LEMMA PausedLanes ==
  Dated(AgentCells["paused_lanes"]) /\ Fresh("running") \in AgentCells["paused_lanes"]
<1>1. AgentCells["paused_lanes"] = {Fresh(k) : k \in {"unreadable", "running", "paused"}}
  BY DEF AgentCells
<1> QED
  BY <1>1 DEF Dated, Fresh

\* A good week is a week: every artifact has the cell it starts with.
LEMMA GoodIsACell ==
  ASSUME NEW t \in AllTiles, NEW a \in DOMAIN Cells[t]
  PROVE  Dated(Cells[t][a]) /\ Good(t, a) \in Cells[t][a]
<1>1. Whole(Cells[t][a]) => Dated(Cells[t][a]) /\ Good(t, a) \in Cells[t][a]
  BY DEF Whole, Good
<1>2. CASE t = "research"
  <2>1. Cells[t] = ResearchCells
    BY <1>2 DEF Cells
  <2> QED
    BY <1>1, <2>1, GoodCells
<1>3. CASE t = "backtester"
  <2>1. Cells[t] = BacktesterCells
    BY <1>3 DEF Cells
  <2> QED
    BY <1>1, <2>1, GoodCells
<1>4. CASE t = "predictor"
  <2>1. Cells[t] = PredictorCells
    BY <1>4 DEF Cells
  <2> QED
    BY <1>1, <2>1, GoodCells
<1>5. CASE t = "executor"
  <2>1. Cells[t] = ExecutorCells
    BY <1>5 DEF Cells
  <2> QED
    BY <1>1, <2>1, GoodCells
<1>6. CASE t = "portfolio_outcome"
  <2>1. Cells[t] = OutcomeCells
    BY <1>6 DEF Cells
  <2> QED
    BY <1>1, <2>1, GoodCells
<1>7. CASE t = "substrate"
  <2>1. Cells[t] = SubstrateCells
    BY <1>7 DEF Cells
  <2> QED
    BY <1>1, <2>1, GoodCells
<1>8. CASE t = "behavioral"
  <2>1. Cells[t] = BehavioralCells
    BY <1>8 DEF Cells
  <2> QED
    BY <1>1, <2>1, GoodCells
<1>9. CASE t = "director_quality"
  <2>1. Cells[t] = DirectorCells
    BY <1>9 DEF Cells
  <2> QED
    BY <1>1, <2>1, GoodCells
<1>10. CASE t = "contribution_lift"
  <2>1. Cells[t] = LiftCells
    BY <1>10 DEF Cells
  <2> QED
    BY <1>1, <2>1, GoodCells
<1>11. CASE t = "agent"
  <2>1. Cells[t] = AgentCells
    BY <1>11 DEF Cells
  <2>2. CASE a = "paused_lanes"
    BY <2>1, <2>2, PausedLanes DEF Good
  <2>3. CASE a # "paused_lanes"
    BY <1>1, <2>1, <2>3, GoodCells
  <2> QED
    BY <2>2, <2>3
<1> QED
  BY <1>2, <1>3, <1>4, <1>5, <1>6, <1>7, <1>8, <1>9, <1>10, <1>11 DEF AllTiles

-----------------------------------------------------------------------------
(* The invariant. *)

\* A world in which tile t can be graded.
WorldOf(t, w) ==
  /\ DOMAIN w = {"cells", "says"} /\ DOMAIN w.cells = DOMAIN Cells[t]
  /\ \A a \in DOMAIN Cells[t] : w.cells[a] \in Cells[t][a]

\* The card carries the tile as this world grades it.
TilesInv == tile \in AllTiles /\ WorldOf(tile, world) /\ built = Graded(tile, world)

\* A run finds a world, and grades it.
LEMMA FindsAWorld ==
  ASSUME TilesInv, NEW a \in DOMAIN Cells[tile], NEW c \in Cells[tile][a],
         Finds([world EXCEPT !.cells[a] = c])
  PROVE  TilesInv'
<1> DEFINE w == [world EXCEPT !.cells[a] = c]
<1>1. world' = w /\ built' = Graded(tile, w) /\ tile' = tile
  BY DEF Finds
<1>2. WorldOf(tile, w)
  BY DEF TilesInv, WorldOf
<1> HIDE DEF w
<1>3. WorldOf(tile, world)' /\ (built = Graded(tile, world))'
  BY <1>1, <1>2 DEF WorldOf, Graded, Records
<1> QED
  BY <1>1, <1>3 DEF TilesInv

THEOREM TilesInvariant == Spec => []TilesInv
<1>1. Init => TilesInv
  <2> SUFFICES ASSUME Init PROVE TilesInv
    OBVIOUS
  <2>1. tile \in AllTiles /\ world = GoodWorld(tile) /\ built = Graded(tile, world)
    BY TilesAssumption DEF Init
  <2>2. WorldOf(tile, GoodWorld(tile))
    BY <2>1, GoodIsACell DEF WorldOf, GoodWorld
  <2> QED
    BY <2>1, <2>2 DEF TilesInv
<1>2. TilesInv /\ [Next]_vars => TilesInv'
  <2> SUFFICES ASSUME TilesInv, [Next]_vars PROVE TilesInv'
    OBVIOUS
  <2>1. ASSUME NEW a \in DOMAIN Cells[tile], Miss(a) \/ Land(a) PROVE TilesInv'
    <3>1. PICK c \in Cells[tile][a] : Finds([world EXCEPT !.cells[a] = c])
      BY <2>1 DEF Miss, Land
    <3> QED
      BY <3>1, FindsAWorld
  <2>2. ASSUME NEW n \in Roster[tile], Turn(n) PROVE TilesInv'
    <3>1. PICK r : Finds([world EXCEPT !.says[n] = r])
      BY <2>2 DEF Turn
    <3> DEFINE w == [world EXCEPT !.says[n] = r]
    <3>2. world' = w /\ built' = Graded(tile, w) /\ tile' = tile
      BY <3>1 DEF Finds
    <3>3. WorldOf(tile, w)
      BY DEF TilesInv, WorldOf
    <3> HIDE DEF w
    <3>4. WorldOf(tile, world)' /\ (built = Graded(tile, world))'
      BY <3>2, <3>3 DEF WorldOf, Graded, Records
    <3> QED
      BY <3>2, <3>4 DEF TilesInv
  <2>3. CASE UNCHANGED vars
    BY <2>3 DEF vars, TilesInv, WorldOf, Graded, Records
  <2> QED
    BY <2>1, <2>2, <2>3 DEF Next
<1> QED
  BY <1>1, <1>2, PTL DEF Spec

-----------------------------------------------------------------------------
(* What every tile has. *)

\* A component's record that gates, or says why not; one that gates; one that
\* does not.
Heavy(r) == r.criticality = "critical" \/ r.note = "declared"
Kept(r, n) == r.name = n /\ Heavy(r)
Grave(r, n) == r.name = n /\ r.criticality = "critical"
Light(r, n) == r.name = n /\ r.criticality # "critical"

\* The records of a tile whose gating components are those of critical.
Weighed(records, roster, critical) ==
  \A r \in records : /\ r.name \in roster
                     /\ IF r.name \in critical THEN Heavy(r) ELSE r.criticality # "critical"

\* Component for component, what was there and what is there after a loss.
Paired(old, new) ==
  /\ \A x \in old : \E y \in new : Fades(x, y)
  /\ \A y \in new : \E x \in old : Fades(x, y)

LEMMA PairedUnion ==
  ASSUME NEW a, NEW b, NEW c, NEW d, Paired(a, b), Paired(c, d)
  PROVE  Paired(a \cup c, b \cup d)
BY DEF Paired

\* Paired records fade, graded against any roster.
LEMMA PairedFade ==
  ASSUME NEW roster, NEW old, NEW new, Paired(old, new)
  PROVE  AllFade(GradedAgainst(roster, old), GradedAgainst(roster, new))
BY GradedFade DEF Paired, Fades

\* The world v is w with other bodies in artifacts past maxAge or the walk-back.
Unread(w, v, maxAge) ==
  /\ v.says = w.says
  /\ \A a \in DOMAIN w.cells :
       \/ v.cells[a] = w.cells[a]
       \/ /\ w.cells[a].age \in Nat /\ v.cells[a].age = w.cells[a].age
          /\ w.cells[a].age > maxAge \/ w.cells[a].age > Lookback
          /\ w.cells[a].kind # "absent" /\ v.cells[a].kind # "absent"

\* A windowed read finds them stale alike, or not at all.
LEMMA BodyUnread ==
  ASSUME NEW w, NEW v, NEW maxAge \in Nat, Unread(w, v, maxAge), NEW a \in DOMAIN w.cells
  PROVE  /\ Stale(v, a, maxAge) <=> Stale(w, a, maxAge)
         /\ Stale(w, a, maxAge) \/ Body(v, a) = Body(w, a)
         /\ Body(v, a) = "absent" <=> Body(w, a) = "absent"
         /\ w.cells[a].age = 0 => v.cells[a] = w.cells[a]
BY DEF Unread, Body, Stale, Lookback

LEMMA FromArtifactUnread ==
  ASSUME NEW w, NEW v, NEW maxAge \in Nat, Unread(w, v, maxAge), NEW a \in DOMAIN w.cells,
         NEW n, NEW crit
  PROVE  /\ FromArtifact(v, n, crit, a, maxAge) = FromArtifact(w, n, crit, a, maxAge)
         /\ FromReport(v, n, crit, a, maxAge) = FromReport(w, n, crit, a, maxAge)
<1>1. Measured(v, n, crit) = Measured(w, n, crit)
  BY DEF Measured, Unread
<1>2. CASE Stale(w, a, maxAge)
  BY <1>2, BodyUnread DEF FromArtifact, FromReport
<1>3. CASE ~Stale(w, a, maxAge)
  <2>1. ~Stale(v, a, maxAge) /\ Body(v, a) = Body(w, a)
    BY <1>3, BodyUnread
  <2> QED
    BY <1>1, <1>3, <2>1 DEF FromArtifact, FromReport
<1> QED
  BY <1>2, <1>3

-----------------------------------------------------------------------------
(* Research. *)

LEMMA SignificantBears ==
  ASSUME NEW w, NEW n, NEW crit, NEW a, NEW sure, NEW unsure
  PROVE  /\ Significant(w, n, crit, a, sure, unsure).name = n
         /\ Significant(w, n, crit, a, sure, unsure).criticality = crit
<1>1. Significant(w, n, crit, a, sure, unsure)
        \in {Measured(w, n, crit), Stated(n, crit, "WATCH"), Missing(n, crit)}
  BY DEF Significant
<1> QED
  BY <1>1, Bears

\* A reading of a body, retired under some kinds of it, fades with the body.
LEMMA SignificantFades ==
  ASSUME NEW w, NEW v, Loses(w, v), NEW n, NEW crit, NEW a \in DOMAIN w.cells,
         NEW sure, NEW unsure, NEW retired, Nothing \cap (sure \cup unsure \cup retired) = {}
  PROVE  Fades(IF Body(w, a) \in retired THEN Retired(n) ELSE Significant(w, n, crit, a, sure, unsure),
               IF Body(v, a) \in retired THEN Retired(n) ELSE Significant(v, n, crit, a, sure, unsure))
<1>1. CASE Body(v, a) = Body(w, a)
  <2>1. Measured(v, n, crit) = Measured(w, n, crit)
    BY DEF Measured, Loses
  <2>2. Significant(w, n, crit, a, sure, unsure) = Significant(v, n, crit, a, sure, unsure)
    BY <1>1, <2>1 DEF Significant
  <2> QED
    BY <1>1, <2>2 DEF Fades
<1>2. CASE Body(v, a) \in Nothing
  <2>1. Significant(v, n, crit, a, sure, unsure) = Missing(n, crit) /\ Body(v, a) \notin retired
    BY <1>2 DEF Significant
  <2>2. Retired(n).name = n /\ Retired(n).criticality = "diagnostic"
    BY Bears DEF Retired
  <2> QED
    BY <2>1, <2>2, SignificantBears, Bears, NothingRead DEF Fades
<1> QED
  BY <1>1, <1>2, BodyFades

ResearchCritical ==
  {"sector_teams_avg", "cio", "cio_selection_skill", "research_composite_ic",
   "neutralization_live_efficacy", "attractiveness_ic", "scanner_basket_return"}

LEMMA ResearchBears ==
  ASSUME NEW w
  PROVE  /\ Light(Scanner(w), "scanner") /\ Kept(SectorTeamsAvg(w), "sector_teams_avg")
         /\ Kept(Cio(w), "cio") /\ Kept(CioSelectionSkill(w), "cio_selection_skill")
         /\ Kept(ResearchCompositeIc(w), "research_composite_ic")
         /\ Light(ThinktankCoverageIc(w), "thinktank_coverage_ic")
         /\ Light(CompositeScoring(w), "composite_scoring") /\ Light(MacroAgent(w), "macro_agent")
         /\ Light(CalibrationDiagnostics(w), "calibration_diagnostics")
         /\ Light(MomentumRegimeIc, "momentum_regime_ic")
         /\ Kept(NeutralizationLiveEfficacy(w), "neutralization_live_efficacy")
         /\ Light(JudgeRubricPassRate(w), "judge_rubric_pass_rate")
         /\ Light(PillarEmitCoverage(w), "pillar_emit_coverage")
         /\ Light(SignalVolumeAdequacy(w), "signal_volume_adequacy")
         /\ Kept(AttractivenessIc(w), "attractiveness_ic")
         /\ Light(AttractivenessTrajectoryIc(w), "attractiveness_trajectory_ic")
         /\ Light(ScannerFeedCounterfactual(w), "scanner_feed_counterfactual")
         /\ Light(JudgeOutcomeIc(w), "judge_outcome_ic")
         /\ Kept(ScannerBasketReturn(w), "scanner_basket_return")
<1> USE SignificantBears, Bears DEF Light, Kept, Heavy, Carries, Retired
<1>1. /\ Light(Scanner(w), "scanner") /\ Kept(SectorTeamsAvg(w), "sector_teams_avg")
      /\ Kept(Cio(w), "cio") /\ Kept(CioSelectionSkill(w), "cio_selection_skill")
      /\ Kept(ResearchCompositeIc(w), "research_composite_ic")
      /\ Light(ThinktankCoverageIc(w), "thinktank_coverage_ic")
  BY DEF Scanner, SectorTeamsAvg, Cio, CioSelectionSkill, ResearchCompositeIc, ThinktankCoverageIc
<1>2. /\ Light(CompositeScoring(w), "composite_scoring") /\ Light(MacroAgent(w), "macro_agent")
      /\ Light(CalibrationDiagnostics(w), "calibration_diagnostics")
      /\ Light(MomentumRegimeIc, "momentum_regime_ic")
  BY DEF CompositeScoring, MacroAgent, CalibrationDiagnostics, MomentumRegimeIc
<1>3. Kept(NeutralizationLiveEfficacy(w), "neutralization_live_efficacy")
  <2> DEFINE n == "neutralization_live_efficacy"
  <2>1. NeutralizationLiveEfficacy(w)
          \in {Retired(n), Stated(n, "critical", "RED"),
               Significant(w, n, "critical", "e2e_lift", {"full"}, {"insig"})}
    BY DEF NeutralizationLiveEfficacy
  <2> QED
    BY <2>1
<1>4. /\ Light(JudgeRubricPassRate(w), "judge_rubric_pass_rate")
      /\ Light(PillarEmitCoverage(w), "pillar_emit_coverage")
      /\ Light(SignalVolumeAdequacy(w), "signal_volume_adequacy")
      /\ Light(JudgeOutcomeIc(w), "judge_outcome_ic")
  BY DEF JudgeRubricPassRate, PillarEmitCoverage, SignalVolumeAdequacy, JudgeOutcomeIc, OfAgentQuality
<1>5. /\ Kept(AttractivenessIc(w), "attractiveness_ic")
      /\ Light(AttractivenessTrajectoryIc(w), "attractiveness_trajectory_ic")
      /\ Light(ScannerFeedCounterfactual(w), "scanner_feed_counterfactual")
      /\ Kept(ScannerBasketReturn(w), "scanner_basket_return")
  BY DEF AttractivenessIc, AttractivenessTrajectoryIc, ScannerFeedCounterfactual, ScannerBasketReturn
<1> QED
  BY <1>1, <1>2, <1>3, <1>4, <1>5

LEMMA ResearchTileBears ==
  ASSUME NEW w
  PROVE  /\ IsFiniteSet(ResearchRecords(w))
         /\ {r.name : r \in ResearchRecords(w)} = ResearchRoster
         /\ Weighed(ResearchRecords(w), ResearchRoster, ResearchCritical)
<1>1. IsFiniteSet(ResearchRecords(w))
  <2> DEFINE first == {Scanner(w), SectorTeamsAvg(w), Cio(w), CioSelectionSkill(w),
                       ResearchCompositeIc(w)}
             second == {ThinktankCoverageIc(w), CompositeScoring(w), MacroAgent(w),
                        CalibrationDiagnostics(w), MomentumRegimeIc}
             third == {NeutralizationLiveEfficacy(w), JudgeRubricPassRate(w),
                       PillarEmitCoverage(w), SignalVolumeAdequacy(w), AttractivenessIc(w)}
             fourth == {AttractivenessTrajectoryIc(w), ScannerFeedCounterfactual(w),
                        JudgeOutcomeIc(w), ScannerBasketReturn(w), ScannerBasketReturn(w)}
  <2>1. IsFiniteSet(first) /\ IsFiniteSet(second) /\ IsFiniteSet(third) /\ IsFiniteSet(fourth)
    BY FewAreFinite
  <2>2. ResearchRecords(w) = (first \cup second) \cup (third \cup fourth)
    BY DEF ResearchRecords
  <2> HIDE DEF first, second, third, fourth
  <2>3. IsFiniteSet(first \cup second) /\ IsFiniteSet(third \cup fourth)
    BY <2>1, FS_Union
  <2> QED
    BY <2>2, <2>3, FS_Union
<1> QED
  BY <1>1, ResearchBears
     DEF Weighed, Light, Kept, ResearchRecords, ResearchRoster, ResearchCritical

LEMMA ResearchFades ==
  ASSUME NEW w, NEW v, Loses(w, v), DOMAIN w.cells = DOMAIN ResearchCells
  PROVE  Paired(ResearchRecords(w), ResearchRecords(v))
<1>1. {"e2e_lift", "score_calibration", "macro_eval", "portfolio_calibration", "agent_quality",
       "attractiveness_eval"} \subseteq DOMAIN w.cells
  BY DEF ResearchCells
<1>2. ASSUME NEW n, NEW crit, NEW a \in DOMAIN w.cells, NEW sure, NEW unsure,
             Nothing \cap (sure \cup unsure) = {}
      PROVE  Fades(Significant(w, n, crit, a, sure, unsure), Significant(v, n, crit, a, sure, unsure))
  BY <1>2, SignificantFades, Nothing \cap (sure \cup unsure \cup {}) = {}
<1>3. /\ Fades(Scanner(w), Scanner(v)) /\ Fades(ThinktankCoverageIc(w), ThinktankCoverageIc(v))
      /\ Fades(CompositeScoring(w), CompositeScoring(v)) /\ Fades(MacroAgent(w), MacroAgent(v))
      /\ Fades(CalibrationDiagnostics(w), CalibrationDiagnostics(v))
  BY <1>1, <1>2 DEF Scanner, ThinktankCoverageIc, CompositeScoring, MacroAgent,
                    CalibrationDiagnostics, Carries, Nothing
<1>4. /\ Fades(JudgeRubricPassRate(w), JudgeRubricPassRate(v))
      /\ Fades(PillarEmitCoverage(w), PillarEmitCoverage(v))
      /\ Fades(SignalVolumeAdequacy(w), SignalVolumeAdequacy(v))
      /\ Fades(AttractivenessIc(w), AttractivenessIc(v))
      /\ Fades(ScannerFeedCounterfactual(w), ScannerFeedCounterfactual(v))
  BY <1>1, <1>2 DEF JudgeRubricPassRate, PillarEmitCoverage, SignalVolumeAdequacy, AttractivenessIc,
                    ScannerFeedCounterfactual, OfAgentQuality, Carries, Nothing
\* The components of the retired graph, and those of a source that stopped.
<1>5. ASSUME NEW n, NEW crit, NEW a \in DOMAIN w.cells, NEW sure, NEW unsure, NEW kind,
             Nothing \cap (sure \cup unsure \cup {kind}) = {}
      PROVE  Fades(IF Body(w, a) = kind THEN Retired(n) ELSE Significant(w, n, crit, a, sure, unsure),
                   IF Body(v, a) = kind THEN Retired(n) ELSE Significant(v, n, crit, a, sure, unsure))
  <2>1. Fades(IF Body(w, a) \in {kind} THEN Retired(n) ELSE Significant(w, n, crit, a, sure, unsure),
              IF Body(v, a) \in {kind} THEN Retired(n) ELSE Significant(v, n, crit, a, sure, unsure))
    BY <1>5, SignificantFades
  <2> QED
    BY <2>1
<1>6. /\ Fades(SectorTeamsAvg(w), SectorTeamsAvg(v)) /\ Fades(Cio(w), Cio(v))
      /\ Fades(CioSelectionSkill(w), CioSelectionSkill(v))
      /\ Fades(ResearchCompositeIc(w), ResearchCompositeIc(v))
  BY <1>1, <1>5 DEF SectorTeamsAvg, Cio, CioSelectionSkill, ResearchCompositeIc, GraphRetired,
                    Carries, Nothing
<1>7. /\ Fades(AttractivenessTrajectoryIc(w), AttractivenessTrajectoryIc(v))
      /\ Fades(JudgeOutcomeIc(w), JudgeOutcomeIc(v))
  BY <1>1, <1>5 DEF AttractivenessTrajectoryIc, JudgeOutcomeIc, Nothing
<1>8. Fades(ScannerBasketReturn(w), ScannerBasketReturn(v))
  <2> DEFINE n == "scanner_basket_return"
             a == "attractiveness_eval"
             reading(u) == Significant(u, n, "critical", a, {"full"}, {"insig"})
  <2>1. Nothing \cap ({"full"} \cup {"insig"} \cup {"stamped", "stuck"}) = {}
    BY DEF Nothing
  <2>2. Fades(IF Body(w, a) \in {"stamped", "stuck"} THEN Retired(n) ELSE reading(w),
              IF Body(v, a) \in {"stamped", "stuck"} THEN Retired(n) ELSE reading(v))
    BY <1>1, <2>1, SignificantFades
  <2> QED
    BY <2>2 DEF ScannerBasketReturn
<1>9. Fades(NeutralizationLiveEfficacy(w), NeutralizationLiveEfficacy(v))
  <2> DEFINE n == "neutralization_live_efficacy"
             a == "e2e_lift"
             reading(u) == Significant(u, n, "critical", a, {"full"}, {"insig"})
  <2>1. CASE Body(v, a) = "hurting" \/ Body(w, a) = "hurting"
    <3>1. CASE Body(v, a) = Body(w, a)
      <4>1. NeutralizationLiveEfficacy(v) = NeutralizationLiveEfficacy(w)
        BY <2>1, <3>1 DEF NeutralizationLiveEfficacy, GraphRetired
      <4> QED
        BY <4>1 DEF Fades
    <3>2. CASE Body(v, a) \in Nothing
      <4>1. /\ NeutralizationLiveEfficacy(v) = Missing(n, "critical")
            /\ NeutralizationLiveEfficacy(w) = Stated(n, "critical", "RED")
        BY <2>1, <3>2 DEF NeutralizationLiveEfficacy, GraphRetired, Significant, Nothing
      <4> QED
        BY <4>1, Bears, NothingRead DEF Fades
    <3> QED
      BY <1>1, <3>1, <3>2, BodyFades
  <2>2. CASE Body(v, a) # "hurting" /\ Body(w, a) # "hurting"
    <3>1. ASSUME NEW u, Body(u, a) # "hurting"
          PROVE  NeutralizationLiveEfficacy(u) = IF Body(u, a) = "retired" THEN Retired(n) ELSE reading(u)
      BY <3>1 DEF NeutralizationLiveEfficacy, GraphRetired
    <3>2. Fades(IF Body(w, a) = "retired" THEN Retired(n) ELSE reading(w),
                IF Body(v, a) = "retired" THEN Retired(n) ELSE reading(v))
      BY <1>1, <1>5 DEF Nothing
    <3> QED
      BY <2>2, <3>1, <3>2
  <2> QED
    BY <2>1, <2>2
<1>10. Fades(MomentumRegimeIc, MomentumRegimeIc)
  BY DEF Fades
<1> QED
  BY <1>3, <1>4, <1>6, <1>7, <1>8, <1>9, <1>10 DEF Paired, ResearchRecords

-----------------------------------------------------------------------------
(* Backtester. *)

BacktesterCritical ==
  {"evaluator_coverage", "numeric_attestation", "evaluator_stage_attestation", "apply_loop_health",
   "sample_size_adequacy", "risk_ratio_ci", "optimizer_churn", "backtest_vs_live_parity"}

LEMMA BacktesterBears ==
  ASSUME NEW w
  PROVE  /\ Grave(EvaluatorCoverage(w), "evaluator_coverage")
         /\ Grave(NumericAttestation(w), "numeric_attestation")
         /\ Grave(EvaluatorStageAttestation(w), "evaluator_stage_attestation")
         /\ Light(GradingFreshness(w), "grading_freshness")
         /\ Light(VectorizedParity(w), "vectorized_vs_consolidated_parity")
         /\ Light(FdrSurfaceHealth(w), "fdr_surface_health")
         /\ Light(AutoApplyRollbackCount(w), "auto_apply_rollback_count")
         /\ Grave(ApplyLoopHealth(w), "apply_loop_health")
         /\ Grave(SampleSizeAdequacy(w), "sample_size_adequacy")
         /\ Grave(RiskRatioCi(w), "risk_ratio_ci") /\ Grave(OptimizerChurn(w), "optimizer_churn")
         /\ Grave(BacktestVsLiveParity(w), "backtest_vs_live_parity")
         /\ Light(WalkForwardStability(w), "walk_forward_stability")
<1> USE Bears, FromArtifactBears DEF Light, Grave
<1>1. /\ Grave(EvaluatorCoverage(w), "evaluator_coverage")
      /\ Grave(SampleSizeAdequacy(w), "sample_size_adequacy")
      /\ Grave(OptimizerChurn(w), "optimizer_churn")
      /\ Light(WalkForwardStability(w), "walk_forward_stability")
  BY DEF EvaluatorCoverage, SampleSizeAdequacy, OptimizerChurn, WalkForwardStability
<1>2. /\ Grave(NumericAttestation(w), "numeric_attestation")
      /\ Grave(EvaluatorStageAttestation(w), "evaluator_stage_attestation")
  <2>1. \A n, a : Attested(w, n, a) \in {Stated(n, "critical", "GREEN"), Stated(n, "critical", "RED"),
                                         Missing(n, "critical")}
    BY DEF Attested
  <2> QED
    BY <2>1 DEF NumericAttestation, EvaluatorStageAttestation
<1>3. /\ Light(GradingFreshness(w), "grading_freshness")
      /\ Light(AutoApplyRollbackCount(w), "auto_apply_rollback_count")
      /\ Grave(RiskRatioCi(w), "risk_ratio_ci")
  BY DEF GradingFreshness, AutoApplyRollbackCount, RiskRatioCi
<1>4. Light(VectorizedParity(w), "vectorized_vs_consolidated_parity")
  <2> DEFINE n == "vectorized_vs_consolidated_parity"
  <2>1. \/ VectorizedParity(w) \in {NotRun(n, "supporting"), Missing(n, "supporting"),
                                    MissingStale(n, "supporting")}
        \/ \E s : VectorizedParity(w) = Stated(n, "supporting", s)
    BY DEF VectorizedParity
  <2> QED
    BY <2>1
<1>5. /\ Light(FdrSurfaceHealth(w), "fdr_surface_health")
      /\ Grave(ApplyLoopHealth(w), "apply_loop_health")
  <2>1. \/ FdrSurfaceHealth(w) = Missing("fdr_surface_health", "supporting")
        \/ \E s : FdrSurfaceHealth(w) = Stated("fdr_surface_health", "supporting", s)
    BY DEF FdrSurfaceHealth
  <2>2. \/ ApplyLoopHealth(w) = Missing("apply_loop_health", "critical")
        \/ \E s : ApplyLoopHealth(w) = Stated("apply_loop_health", "critical", s)
    BY DEF ApplyLoopHealth
  <2> QED
    BY <2>1, <2>2
<1>6. Grave(BacktestVsLiveParity(w), "backtest_vs_live_parity")
  <2> DEFINE n == "backtest_vs_live_parity"
  <2>1. BacktestVsLiveParity(w) \in {Measured(w, n, "critical"), LowN(n, "critical"),
                                     Missing(n, "critical")}
    BY DEF BacktestVsLiveParity
  <2> QED
    BY <2>1
<1> QED
  BY <1>1, <1>2, <1>3, <1>4, <1>5, <1>6

LEMMA BacktesterTileBears ==
  ASSUME NEW w
  PROVE  /\ IsFiniteSet(BacktesterRecords(w))
         /\ {r.name : r \in BacktesterRecords(w)} = BacktesterRoster
         /\ Weighed(BacktesterRecords(w), BacktesterRoster, BacktesterCritical)
<1>1. IsFiniteSet(BacktesterRecords(w))
  <2> DEFINE first == {EvaluatorCoverage(w), NumericAttestation(w), EvaluatorStageAttestation(w),
                       GradingFreshness(w), VectorizedParity(w)}
             second == {FdrSurfaceHealth(w), AutoApplyRollbackCount(w), ApplyLoopHealth(w),
                        SampleSizeAdequacy(w), RiskRatioCi(w)}
             third == {OptimizerChurn(w), BacktestVsLiveParity(w), WalkForwardStability(w),
                       WalkForwardStability(w), WalkForwardStability(w)}
  <2>1. IsFiniteSet(first) /\ IsFiniteSet(second) /\ IsFiniteSet(third)
    BY FewAreFinite
  <2>2. BacktesterRecords(w) = (first \cup second) \cup third
    BY DEF BacktesterRecords
  <2> HIDE DEF first, second, third
  <2>3. IsFiniteSet(first \cup second)
    BY <2>1, FS_Union
  <2> QED
    BY <2>1, <2>2, <2>3, FS_Union
<1> QED
  BY <1>1, BacktesterBears
     DEF Weighed, Light, Grave, Heavy, BacktesterRecords, BacktesterRoster, BacktesterCritical

LEMMA BacktesterFades ==
  ASSUME NEW w, NEW v, Loses(w, v), DOMAIN w.cells = DOMAIN BacktesterCells,
         \A a \in DOMAIN BacktesterCells : v.cells[a] \in BacktesterCells[a]
  PROVE  Paired(BacktesterRecords(w), BacktesterRecords(v))
<1>1. DOMAIN w.cells = {"grading", "attestation", "stage_attestation", "parity_report", "run_scope",
                        "attribution", "rollback_audit", "apply_audit", "sample_size",
                        "risk_ratio_ci", "optimizer_churn", "manifest", "registry_bundle", "latest",
                        "walk_forward"}
  BY DEF BacktesterCells
<1>2. ASSUME NEW a \in DOMAIN w.cells
      PROVE  \/ /\ Body(v, a) = Body(w, a)
                /\ Stale(w, a, BacktesterMaxAge) => Stale(v, a, BacktesterMaxAge)
             \/ Body(v, a) \in Nothing
  BY BodyFades DEF BacktesterMaxAge
<1>3. \A n, crit : Measured(v, n, crit) = Measured(w, n, crit)
  BY DEF Measured, Loses
<1>4. \A a \in DOMAIN w.cells : v.cells[a].kind = w.cells[a].kind \/ v.cells[a].kind \in Nothing
  BY DEF Loses, Fainter
<1>5. /\ Fades(SampleSizeAdequacy(w), SampleSizeAdequacy(v))
      /\ Fades(OptimizerChurn(w), OptimizerChurn(v))
      /\ Fades(WalkForwardStability(w), WalkForwardStability(v))
  BY <1>1, FromArtifactFades
     DEF SampleSizeAdequacy, OptimizerChurn, WalkForwardStability, BacktesterMaxAge
<1>6. Fades(EvaluatorCoverage(w), EvaluatorCoverage(v))
  <2> DEFINE n == "evaluator_coverage"
             thin(u) == Body(u, "grading") = "bare" /\ ~Stale(u, "grading", BacktesterMaxAge)
  <2>1. Fades(FromArtifact(w, n, "critical", "grading", BacktesterMaxAge),
              FromArtifact(v, n, "critical", "grading", BacktesterMaxAge))
    BY <1>1, FromArtifactFades DEF BacktesterMaxAge
  <2>2. CASE thin(v)
    <3>1. EvaluatorCoverage(v) = LowN(n, "critical")
      BY <2>2 DEF EvaluatorCoverage
    <3> QED
      BY <3>1, BacktesterBears, Bears, NothingRead DEF Fades, Grave
  <2>3. CASE ~thin(v) /\ ~thin(w)
    BY <2>1, <2>3 DEF EvaluatorCoverage
  <2>4. CASE ~thin(v) /\ thin(w)
    <3>1. EvaluatorCoverage(v) \in {MissingStale(n, "critical"), Missing(n, "critical")}
      BY <1>1, <1>2, <2>4 DEF EvaluatorCoverage, FromArtifact, Nothing
    <3> QED
      BY <3>1, BacktesterBears, Bears, NothingRead DEF Fades, Grave
  <2> QED
    BY <2>2, <2>3, <2>4
<1>7. /\ IsNA(NumericAttestation(v)) \/ NumericAttestation(v) = NumericAttestation(w)
      /\ IsNA(EvaluatorStageAttestation(v)) \/ EvaluatorStageAttestation(v) = EvaluatorStageAttestation(w)
  <2>1. \A n : \A a \in DOMAIN w.cells :
          Attested(v, n, a) = Missing(n, "critical") \/ Attested(v, n, a) = Attested(w, n, a)
    BY <1>4 DEF Attested, Nothing
  <2> QED
    BY <1>1, <2>1, NothingRead DEF NumericAttestation, EvaluatorStageAttestation
<1>8. IsNA(GradingFreshness(v)) \/ GradingFreshness(v) = GradingFreshness(w)
  <2>1. v.cells.grading = w.cells.grading
          \/ (v.cells.grading.kind = w.cells.grading.kind /\ v.cells.grading.age # 0)
          \/ v.cells.grading.kind \in Nothing
    BY <1>1 DEF Loses, Fainter
  <2>2. v.cells.grading.kind \in {"absent", "bare", "full"}
    BY <1>1 DEF BacktesterCells, Windowed
  <2> QED
    BY <1>3, <2>1, <2>2, NothingRead DEF GradingFreshness, Nothing
<1>9. IsNA(VectorizedParity(v)) \/ VectorizedParity(v) = VectorizedParity(w)
  <2>1. Body(v, "parity_report") \in {"absent", "notok", "diverged", "full"}
    BY <1>1 DEF BacktesterCells, Windowed, Body
  <2>2. CASE Body(v, "parity_report") = "absent" \/ Stale(v, "parity_report", BacktesterMaxAge)
    BY <2>2, NothingRead DEF VectorizedParity
  <2>3. CASE Body(v, "parity_report") # "absent" /\ ~Stale(v, "parity_report", BacktesterMaxAge)
    BY <1>1, <1>2, <2>1, <2>3 DEF VectorizedParity, Nothing
  <2> QED
    BY <2>2, <2>3
<1>10. IsNA(FdrSurfaceHealth(v)) \/ FdrSurfaceHealth(v) = FdrSurfaceHealth(w)
  BY <1>1, <1>2, NothingRead DEF FdrSurfaceHealth, FdrSurfaces, Nothing
<1>11. IsNA(AutoApplyRollbackCount(v)) \/ AutoApplyRollbackCount(v) = AutoApplyRollbackCount(w)
  BY <1>1, <1>3, <1>4, NothingRead DEF AutoApplyRollbackCount, Nothing
<1>12. IsNA(ApplyLoopHealth(v)) \/ ApplyLoopHealth(v) = ApplyLoopHealth(w)
  BY <1>1, <1>2, NothingRead DEF ApplyLoopHealth, ApplyAudits, Nothing
<1>13. IsNA(RiskRatioCi(v)) \/ RiskRatioCi(v) = RiskRatioCi(w)
  BY <1>1, <1>2, NothingRead DEF RiskRatioCi, Nothing
<1>14. IsNA(BacktestVsLiveParity(v)) \/ BacktestVsLiveParity(v) = BacktestVsLiveParity(w)
  BY <1>1, <1>3, <1>4, NothingRead DEF BacktestVsLiveParity, Nothing
<1>15. /\ Fades(NumericAttestation(w), NumericAttestation(v))
       /\ Fades(EvaluatorStageAttestation(w), EvaluatorStageAttestation(v))
       /\ Fades(GradingFreshness(w), GradingFreshness(v))
       /\ Fades(VectorizedParity(w), VectorizedParity(v))
       /\ Fades(FdrSurfaceHealth(w), FdrSurfaceHealth(v))
       /\ Fades(AutoApplyRollbackCount(w), AutoApplyRollbackCount(v))
       /\ Fades(ApplyLoopHealth(w), ApplyLoopHealth(v)) /\ Fades(RiskRatioCi(w), RiskRatioCi(v))
       /\ Fades(BacktestVsLiveParity(w), BacktestVsLiveParity(v))
  BY <1>7, <1>8, <1>9, <1>10, <1>11, <1>12, <1>13, <1>14, BacktesterBears
     DEF Fades, Grave, Light
<1> QED
  BY <1>5, <1>6, <1>15 DEF Paired, BacktesterRecords

LEMMA BacktesterUnread ==
  ASSUME NEW w, NEW v, Unread(w, v, BacktesterMaxAge), DOMAIN w.cells = DOMAIN BacktesterCells,
         \A a \in DOMAIN BacktesterCells : w.cells[a] \in BacktesterCells[a]
  PROVE  BacktesterRecords(v) = BacktesterRecords(w)
<1> DEFINE dated == {"grading", "parity_report", "attribution", "apply_audit", "sample_size",
                     "risk_ratio_ci", "optimizer_churn", "walk_forward"}
           exact == {"attestation", "stage_attestation", "run_scope", "rollback_audit", "manifest",
                     "registry_bundle", "latest"}
<1>1. DOMAIN w.cells = dated \cup exact
  BY DEF BacktesterCells
<1>2. BacktesterMaxAge \in Nat /\ BacktesterMaxAge = Lookback
  BY DEF BacktesterMaxAge, Lookback
<1>3. \A a \in dated : /\ Stale(v, a, BacktesterMaxAge) = Stale(w, a, BacktesterMaxAge)
                       /\ Body(v, a) = Body(w, a)
  BY <1>1, <1>2 DEF Unread, Body, Stale
<1>4. \A a \in exact : v.cells[a] = w.cells[a]
  <2>1. \A a \in exact : w.cells[a].age = 0
    BY <1>1 DEF BacktesterCells, Exact
  <2> QED
    BY <1>1, <1>2, <2>1, BodyUnread
<1>5. \A n, crit : Measured(v, n, crit) = Measured(w, n, crit)
  BY DEF Measured, Unread
<1>6. /\ EvaluatorCoverage(v) = EvaluatorCoverage(w)
      /\ SampleSizeAdequacy(v) = SampleSizeAdequacy(w) /\ OptimizerChurn(v) = OptimizerChurn(w)
      /\ WalkForwardStability(v) = WalkForwardStability(w)
  BY <1>1, <1>2, <1>3, FromArtifactUnread
     DEF EvaluatorCoverage, SampleSizeAdequacy, OptimizerChurn, WalkForwardStability
<1>7. /\ NumericAttestation(v) = NumericAttestation(w)
      /\ EvaluatorStageAttestation(v) = EvaluatorStageAttestation(w)
      /\ AutoApplyRollbackCount(v) = AutoApplyRollbackCount(w)
      /\ BacktestVsLiveParity(v) = BacktestVsLiveParity(w)
  BY <1>4, <1>5 DEF NumericAttestation, EvaluatorStageAttestation, Attested, AutoApplyRollbackCount,
                    BacktestVsLiveParity
<1>8. GradingFreshness(v) = GradingFreshness(w)
  BY <1>1, <1>2, <1>5 DEF GradingFreshness, Unread
<1>9. VectorizedParity(v) = VectorizedParity(w)
  BY <1>3, <1>4 DEF VectorizedParity
<1>10. /\ FdrSurfaceHealth(v) = FdrSurfaceHealth(w) /\ ApplyLoopHealth(v) = ApplyLoopHealth(w)
       /\ RiskRatioCi(v) = RiskRatioCi(w)
  BY <1>3 DEF FdrSurfaceHealth, ApplyLoopHealth, RiskRatioCi
<1> QED
  BY <1>6, <1>7, <1>8, <1>9, <1>10 DEF BacktesterRecords

-----------------------------------------------------------------------------
(* Predictor. *)

PredictorCritical ==
  {"meta_l2_ic", "momentum_l1_ic", "ensemble_lift_over_best_l1", "confidence_calibration_ece",
   "output_distribution_gate", "inference_coverage"}

\* The records of a tile that has metrics or a manifest.
PredictorSighted(w) ==
  {MetaL2Ic(w), MomentumL1Ic(w), VolatilityL1Ic(w), ResearchCalibratorL1Ic(w), EnsembleLift(w)}
    \cup {ConfidenceCalibration(w), OutputDistributionGate(w), VetoGatePrecision(w),
          DirectionAccuracy(w), UpPrecision(w)}
    \cup {DownPrecision(w), InferenceCoverage(w), InferenceFunnelWidth(w), SlimCacheFreshness(w),
          FeatureDriftKs(w)}

LEMMA PredictorBears ==
  ASSUME NEW w
  PROVE  /\ Grave(MetaL2Ic(w), "meta_l2_ic") /\ Grave(MomentumL1Ic(w), "momentum_l1_ic")
         /\ Light(VolatilityL1Ic(w), "volatility_l1_ic")
         /\ Light(ResearchCalibratorL1Ic(w), "research_calibrator_l1_ic")
         /\ Grave(EnsembleLift(w), "ensemble_lift_over_best_l1")
         /\ Grave(ConfidenceCalibration(w), "confidence_calibration_ece")
         /\ Grave(OutputDistributionGate(w), "output_distribution_gate")
         /\ Light(VetoGatePrecision(w), "veto_gate_precision")
         /\ Light(DirectionAccuracy(w), "direction_accuracy_vs_majority_baseline")
         /\ Light(UpPrecision(w), "up_precision_vs_base_rate")
         /\ Light(DownPrecision(w), "down_precision_vs_base_rate")
         /\ Grave(InferenceCoverage(w), "inference_coverage")
         /\ Light(InferenceFunnelWidth(w), "inference_funnel_width")
         /\ Light(SlimCacheFreshness(w), "slim_cache_freshness")
         /\ Light(FeatureDriftKs(w), "feature_drift_ks")
<1> USE Bears, FromArtifactBears DEF Light, Grave, When
<1>1. /\ Grave(MetaL2Ic(w), "meta_l2_ic") /\ Grave(MomentumL1Ic(w), "momentum_l1_ic")
      /\ Light(VolatilityL1Ic(w), "volatility_l1_ic")
      /\ Light(ResearchCalibratorL1Ic(w), "research_calibrator_l1_ic")
      /\ Grave(EnsembleLift(w), "ensemble_lift_over_best_l1")
  <2>1. Grave(MetaL2Ic(w), "meta_l2_ic") /\ Grave(MomentumL1Ic(w), "momentum_l1_ic")
    BY DEF MetaL2Ic, MomentumL1Ic
  <2>2. Light(VolatilityL1Ic(w), "volatility_l1_ic")
    BY DEF VolatilityL1Ic
  <2>3. Light(ResearchCalibratorL1Ic(w), "research_calibrator_l1_ic")
    BY DEF ResearchCalibratorL1Ic
  <2>4. Grave(EnsembleLift(w), "ensemble_lift_over_best_l1")
    BY DEF EnsembleLift
  <2> QED
    BY <2>1, <2>2, <2>3, <2>4
<1>2. /\ Grave(ConfidenceCalibration(w), "confidence_calibration_ece")
      /\ Grave(OutputDistributionGate(w), "output_distribution_gate")
      /\ Light(VetoGatePrecision(w), "veto_gate_precision")
      /\ Grave(InferenceCoverage(w), "inference_coverage")
  BY DEF ConfidenceCalibration, OutputDistributionGate, VetoGatePrecision, InferenceCoverage
<1>3. /\ Light(InferenceFunnelWidth(w), "inference_funnel_width")
      /\ Light(SlimCacheFreshness(w), "slim_cache_freshness")
      /\ Light(FeatureDriftKs(w), "feature_drift_ks")
  BY DEF InferenceFunnelWidth, SlimCacheFreshness, FeatureDriftKs
<1>4. /\ Light(DirectionAccuracy(w), "direction_accuracy_vs_majority_baseline")
      /\ Light(UpPrecision(w), "up_precision_vs_base_rate")
      /\ Light(DownPrecision(w), "down_precision_vs_base_rate")
  <2>1. ASSUME NEW n, NEW kinds
        PROVE  OfMatrix(w, n, kinds) \in {MissingStale(n, "supporting"), LowN(n, "supporting"),
                                          Measured(w, n, "supporting"), Missing(n, "supporting")}
    BY DEF OfMatrix
  <2> QED
    BY <2>1 DEF DirectionAccuracy, UpPrecision, DownPrecision
<1> QED
  BY <1>1, <1>2, <1>3, <1>4

LEMMA PredictorTileBears ==
  ASSUME NEW w
  PROVE  /\ IsFiniteSet(PredictorRecords(w)) /\ IsFiniteSet(PredictorRoster)
         /\ ~PredictorBlind(w) => {r.name : r \in PredictorRecords(w)} = PredictorRoster
         /\ Weighed(PredictorRecords(w), PredictorRoster, PredictorCritical)
         /\ PredictorRecords(w) = IF PredictorBlind(w) THEN {Missing("meta_l2_ic", "critical")}
                                  ELSE PredictorSighted(w)
<1>1. PredictorRecords(w) = IF PredictorBlind(w) THEN {Missing("meta_l2_ic", "critical")}
                            ELSE PredictorSighted(w)
  BY DEF PredictorRecords, PredictorSighted
<1>2. IsFiniteSet(PredictorSighted(w)) /\ IsFiniteSet({Missing("meta_l2_ic", "critical")})
  BY FewAreFinite, FS_Union, FS_Singleton DEF PredictorSighted
<1>3. IsFiniteSet(PredictorRoster)
  <2>1. PredictorRoster =
          {"meta_l2_ic", "momentum_l1_ic", "volatility_l1_ic", "research_calibrator_l1_ic",
           "ensemble_lift_over_best_l1"}
            \cup {"confidence_calibration_ece", "output_distribution_gate", "veto_gate_precision",
                  "direction_accuracy_vs_majority_baseline", "up_precision_vs_base_rate"}
            \cup {"down_precision_vs_base_rate", "inference_coverage", "inference_funnel_width",
                  "slim_cache_freshness", "feature_drift_ks"}
    BY DEF PredictorRoster
  <2> QED
    BY <2>1, FewAreFinite, FS_Union
<1>4. {r.name : r \in PredictorSighted(w)} = PredictorRoster
  BY PredictorBears DEF Light, Grave, PredictorSighted, PredictorRoster
<1>5. Weighed(PredictorSighted(w), PredictorRoster, PredictorCritical)
  BY PredictorBears DEF Weighed, Heavy, Light, Grave, PredictorSighted, PredictorRoster, PredictorCritical
<1>6. Weighed({Missing("meta_l2_ic", "critical")}, PredictorRoster, PredictorCritical)
  BY Bears DEF Weighed, Heavy, PredictorRoster, PredictorCritical
<1> QED
  BY <1>1, <1>2, <1>3, <1>4, <1>5, <1>6

LEMMA PredictorFades ==
  ASSUME NEW w, NEW v, Loses(w, v), DOMAIN w.cells = DOMAIN PredictorCells,
         \A a \in DOMAIN PredictorCells : /\ w.cells[a] \in PredictorCells[a]
                                          /\ v.cells[a] \in PredictorCells[a]
  PROVE  AllFade(GradedAgainst(PredictorRoster, PredictorRecords(w)),
                 GradedAgainst(PredictorRoster, PredictorRecords(v)))
<1>1. DOMAIN w.cells = {"latest", "manifest", "veto_analysis", "confusion_matrix", "slim_cache"}
  BY DEF PredictorCells
<1>2. \A a \in DOMAIN w.cells : v.cells[a].kind = w.cells[a].kind \/ v.cells[a].kind \in Nothing
  BY DEF Loses, Fainter
<1>3. \A n, crit : Measured(v, n, crit) = Measured(w, n, crit)
  BY DEF Measured, Loses
<1>4. ASSUME NEW a \in DOMAIN w.cells
      PROVE  \/ /\ Body(v, a) = Body(w, a)
                /\ Stale(w, a, PredictorMaxAge) => Stale(v, a, PredictorMaxAge)
             \/ Body(v, a) \in Nothing
  BY BodyFades DEF PredictorMaxAge
<1>5. /\ IsNA(MetaL2Ic(v)) \/ MetaL2Ic(v) = MetaL2Ic(w)
      /\ IsNA(MomentumL1Ic(v)) \/ MomentumL1Ic(v) = MomentumL1Ic(w)
      /\ IsNA(VolatilityL1Ic(v)) \/ VolatilityL1Ic(v) = VolatilityL1Ic(w)
      /\ IsNA(EnsembleLift(v)) \/ EnsembleLift(v) = EnsembleLift(w)
      /\ IsNA(SlimCacheFreshness(v)) \/ SlimCacheFreshness(v) = SlimCacheFreshness(w)
  BY <1>1, <1>2, <1>3, NothingRead DEF MetaL2Ic, MomentumL1Ic, VolatilityL1Ic, EnsembleLift,
     SlimCacheFreshness, When, CpcvOk, WalkForward, Nothing
<1>6. /\ IsNA(ResearchCalibratorL1Ic(v)) \/ ResearchCalibratorL1Ic(v) = ResearchCalibratorL1Ic(w)
      /\ IsNA(ConfidenceCalibration(v)) \/ ConfidenceCalibration(v) = ConfidenceCalibration(w)
      /\ IsNA(OutputDistributionGate(v)) \/ OutputDistributionGate(v) = OutputDistributionGate(w)
      /\ IsNA(InferenceCoverage(v)) \/ InferenceCoverage(v) = InferenceCoverage(w)
      /\ IsNA(InferenceFunnelWidth(v)) \/ InferenceFunnelWidth(v) = InferenceFunnelWidth(w)
      /\ IsNA(FeatureDriftKs(v)) \/ FeatureDriftKs(v) = FeatureDriftKs(w)
  BY <1>1, <1>2, <1>3, NothingRead DEF ResearchCalibratorL1Ic, ConfidenceCalibration,
     OutputDistributionGate, InferenceCoverage, InferenceFunnelWidth, FeatureDriftKs, When, Metrics, Nothing
<1>7. Fades(VetoGatePrecision(w), VetoGatePrecision(v))
  BY <1>1, FromArtifactFades DEF VetoGatePrecision, PredictorMaxAge
<1>8. ASSUME NEW n, NEW kinds, "undeclared" \notin kinds, Nothing \cap kinds = {}
      PROVE  IsNA(OfMatrix(v, n, kinds)) \/ OfMatrix(v, n, kinds) = OfMatrix(w, n, kinds)
  <2> DEFINE a == "confusion_matrix"
             read(u) == ~Stale(u, a, PredictorMaxAge) /\ Body(u, a) \in kinds
  <2>1. CASE read(v)
    <3>1. read(w)
      BY <1>1, <1>4, <1>8, <2>1
    <3>2. ASSUME NEW u, read(u) PROVE OfMatrix(u, n, kinds) = Measured(u, n, "supporting")
      BY <1>8, <3>2 DEF OfMatrix
    <3> HIDE DEF read
    <3> QED
      BY <1>3, <2>1, <3>1, <3>2
  <2>2. CASE ~read(v)
    <3>1. OfMatrix(v, n, kinds) \in {MissingStale(n, "supporting"), LowN(n, "supporting"),
                                     Missing(n, "supporting")}
      BY <2>2 DEF OfMatrix
    <3> QED
      BY <3>1, NothingRead
  <2> QED
    BY <2>1, <2>2
<1>9. /\ IsNA(DirectionAccuracy(v)) \/ DirectionAccuracy(v) = DirectionAccuracy(w)
      /\ IsNA(UpPrecision(v)) \/ UpPrecision(v) = UpPrecision(w)
      /\ IsNA(DownPrecision(v)) \/ DownPrecision(v) = DownPrecision(w)
  BY <1>8 DEF DirectionAccuracy, UpPrecision, DownPrecision, Nothing
<1>10. Paired(PredictorSighted(w), PredictorSighted(v))
  <2>1. /\ Fades(MetaL2Ic(w), MetaL2Ic(v)) /\ Fades(MomentumL1Ic(w), MomentumL1Ic(v))
        /\ Fades(VolatilityL1Ic(w), VolatilityL1Ic(v)) /\ Fades(EnsembleLift(w), EnsembleLift(v))
        /\ Fades(SlimCacheFreshness(w), SlimCacheFreshness(v))
    BY <1>5, PredictorBears DEF Fades, Grave, Light
  <2>2. /\ Fades(ResearchCalibratorL1Ic(w), ResearchCalibratorL1Ic(v))
        /\ Fades(ConfidenceCalibration(w), ConfidenceCalibration(v))
        /\ Fades(OutputDistributionGate(w), OutputDistributionGate(v))
        /\ Fades(InferenceCoverage(w), InferenceCoverage(v))
        /\ Fades(InferenceFunnelWidth(w), InferenceFunnelWidth(v))
        /\ Fades(FeatureDriftKs(w), FeatureDriftKs(v))
    BY <1>6, PredictorBears DEF Fades, Grave, Light
  <2>3. /\ Fades(DirectionAccuracy(w), DirectionAccuracy(v))
        /\ Fades(UpPrecision(w), UpPrecision(v)) /\ Fades(DownPrecision(w), DownPrecision(v))
    BY <1>9, PredictorBears DEF Fades, Light
  <2> QED
    BY <1>7, <2>1, <2>2, <2>3 DEF Paired, PredictorSighted
\* A tile that was blind still is; one that has just become blind leaves one
\* record, and the rest of its roster unreported.
<1>11. PredictorBlind(w) => PredictorBlind(v)
  <2>1. v.cells.latest.kind \notin Nothing \ {"absent"} /\ v.cells.manifest.kind \notin Nothing \ {"absent"}
    BY <1>1 DEF PredictorCells, Exact, Nothing
  <2> QED
    BY <1>1, <1>2, <2>1 DEF PredictorBlind
<1>12. CASE ~PredictorBlind(v)
  BY <1>10, <1>11, <1>12, PredictorTileBears, PairedFade
<1>13. CASE PredictorBlind(v) /\ PredictorBlind(w)
  BY <1>13, PredictorTileBears DEF AllFade, Fades
<1>14. CASE PredictorBlind(v) /\ ~PredictorBlind(w)
  <2> DEFINE lone == Missing("meta_l2_ic", "critical")
  <2>1. PredictorRecords(v) = {lone} /\ PredictorRecords(w) = PredictorSighted(w)
    BY <1>14, PredictorTileBears
  <2>2. IsNA(lone) /\ lone.name = "meta_l2_ic" /\ lone.criticality = "critical"
    BY Bears, NothingRead
  <2>3. MetaL2Ic(w) \in PredictorSighted(w) /\ MetaL2Ic(w).name = "meta_l2_ic"
    BY PredictorBears DEF PredictorSighted, Grave
  <2>4. \A x \in PredictorSighted(w) : x.name \in PredictorRoster
    BY <1>14, PredictorTileBears
  <2> HIDE DEF lone
  <2>5. \A x \in PredictorSighted(w) : Fades(x, lone) \/ lone.name # x.name
    BY <2>2 DEF Fades
  <2> QED
    BY <2>1, <2>2, <2>3, <2>4, <2>5, GradedFade
<1> QED
  BY <1>12, <1>13, <1>14

LEMMA PredictorUnread ==
  ASSUME NEW w, NEW v, Unread(w, v, PredictorMaxAge), DOMAIN w.cells = DOMAIN PredictorCells,
         \A a \in DOMAIN PredictorCells : w.cells[a] \in PredictorCells[a]
  PROVE  PredictorRecords(v) = PredictorRecords(w)
<1>1. DOMAIN w.cells = {"latest", "manifest", "veto_analysis", "confusion_matrix", "slim_cache"}
  BY DEF PredictorCells
<1>2. /\ v.cells["latest"] = w.cells["latest"] /\ v.cells["manifest"] = w.cells["manifest"]
      /\ v.cells["slim_cache"] = w.cells["slim_cache"]
  <2>1. /\ w.cells["latest"].age = 0 /\ w.cells["manifest"].age = 0 /\ w.cells["slim_cache"].age = 0
    BY <1>1 DEF PredictorCells, Exact
  <2> QED
    BY <1>1, <2>1, BodyUnread DEF PredictorMaxAge
<1>3. \A n, crit : Measured(v, n, crit) = Measured(w, n, crit)
  BY DEF Measured, Unread
<1>4. /\ MetaL2Ic(v) = MetaL2Ic(w) /\ MomentumL1Ic(v) = MomentumL1Ic(w)
      /\ VolatilityL1Ic(v) = VolatilityL1Ic(w) /\ EnsembleLift(v) = EnsembleLift(w)
      /\ SlimCacheFreshness(v) = SlimCacheFreshness(w)
  BY <1>2, <1>3 DEF MetaL2Ic, MomentumL1Ic, VolatilityL1Ic, EnsembleLift, SlimCacheFreshness,
                    CpcvOk, WalkForward
<1>5. /\ ResearchCalibratorL1Ic(v) = ResearchCalibratorL1Ic(w)
      /\ ConfidenceCalibration(v) = ConfidenceCalibration(w)
      /\ OutputDistributionGate(v) = OutputDistributionGate(w)
      /\ InferenceCoverage(v) = InferenceCoverage(w)
      /\ InferenceFunnelWidth(v) = InferenceFunnelWidth(w) /\ FeatureDriftKs(v) = FeatureDriftKs(w)
  BY <1>2, <1>3 DEF ResearchCalibratorL1Ic, ConfidenceCalibration, OutputDistributionGate,
                    InferenceCoverage, InferenceFunnelWidth, FeatureDriftKs, Metrics
<1>6. VetoGatePrecision(v) = VetoGatePrecision(w)
  BY <1>1, FromArtifactUnread DEF VetoGatePrecision, PredictorMaxAge
<1>7. /\ DirectionAccuracy(v) = DirectionAccuracy(w) /\ UpPrecision(v) = UpPrecision(w)
      /\ DownPrecision(v) = DownPrecision(w)
  <2> DEFINE a == "confusion_matrix"
  <2>1. /\ Stale(v, a, PredictorMaxAge) <=> Stale(w, a, PredictorMaxAge)
        /\ Stale(w, a, PredictorMaxAge) \/ Body(v, a) = Body(w, a)
    BY <1>1, BodyUnread DEF PredictorMaxAge
  <2>2. \A n, kinds : OfMatrix(v, n, kinds) = OfMatrix(w, n, kinds)
    BY <1>3, <2>1 DEF OfMatrix
  <2> QED
    BY <2>2 DEF DirectionAccuracy, UpPrecision, DownPrecision
<1>8. PredictorBlind(v) <=> PredictorBlind(w)
  BY <1>2 DEF PredictorBlind
<1> QED
  BY <1>4, <1>5, <1>6, <1>7, <1>8, PredictorTileBears DEF PredictorSighted

-----------------------------------------------------------------------------
(* Executor. *)

ExecutorCritical == {"entry_triggers", "risk_guard", "exit_rules", "reconciliation_integrity"}

LEMMA ExecutorBears ==
  ASSUME NEW w
  PROVE  /\ Grave(EntryTriggers(w), "entry_triggers") /\ Grave(RiskGuard(w), "risk_guard")
         /\ Grave(ExitRules(w), "exit_rules") /\ Light(Excursion(w), "excursion")
         /\ Light(PositionSizing, "position_sizing") /\ Light(ActionEntropy(w), "action_entropy")
         /\ Grave(ReconciliationIntegrity(w), "reconciliation_integrity")
BY Bears, FromArtifactBears
   DEF Grave, Light, EntryTriggers, RiskGuard, ExitRules, Excursion, PositionSizing, ActionEntropy,
       ReconciliationIntegrity

LEMMA ExecutorTileBears ==
  ASSUME NEW w
  PROVE  /\ IsFiniteSet(ExecutorRecords(w))
         /\ {r.name : r \in ExecutorRecords(w)} = ExecutorRoster
         /\ Weighed(ExecutorRecords(w), ExecutorRoster, ExecutorCritical)
<1>1. IsFiniteSet(ExecutorRecords(w))
  <2> DEFINE first == {EntryTriggers(w), RiskGuard(w), ExitRules(w), Excursion(w), PositionSizing}
             second == {ActionEntropy(w), ReconciliationIntegrity(w), PositionSizing, PositionSizing,
                        PositionSizing}
  <2>1. IsFiniteSet(first) /\ IsFiniteSet(second)
    BY FewAreFinite
  <2>2. ExecutorRecords(w) = first \cup second
    BY DEF ExecutorRecords
  <2> HIDE DEF first, second
  <2> QED
    BY <2>1, <2>2, FS_Union
<1> QED
  BY <1>1, ExecutorBears
     DEF Weighed, Heavy, Light, Grave, ExecutorRecords, ExecutorRoster, ExecutorCritical

LEMMA ExecutorFades ==
  ASSUME NEW w, NEW v, Loses(w, v), DOMAIN w.cells = DOMAIN ExecutorCells
  PROVE  Paired(ExecutorRecords(w), ExecutorRecords(v))
<1>1. DOMAIN w.cells = {"trigger_scorecard", "shadow_book", "exit_timing", "portfolio_excursion",
                        "reconciliation_audit", "action_entropy"}
  BY DEF ExecutorCells
<1>2. /\ Fades(EntryTriggers(w), EntryTriggers(v)) /\ Fades(RiskGuard(w), RiskGuard(v))
      /\ Fades(ExitRules(w), ExitRules(v)) /\ Fades(Excursion(w), Excursion(v))
      /\ Fades(ActionEntropy(w), ActionEntropy(v))
      /\ Fades(ReconciliationIntegrity(w), ReconciliationIntegrity(v))
  BY <1>1, FromArtifactFades DEF EntryTriggers, RiskGuard, ExitRules, Excursion, ActionEntropy,
     ReconciliationIntegrity, ExecutorMaxAge
<1>3. Fades(PositionSizing, PositionSizing)
  BY DEF Fades
<1> QED
  BY <1>2, <1>3 DEF Paired, ExecutorRecords

LEMMA ExecutorUnread ==
  ASSUME NEW w, NEW v, Unread(w, v, ExecutorMaxAge), DOMAIN w.cells = DOMAIN ExecutorCells
  PROVE  ExecutorRecords(v) = ExecutorRecords(w)
<1>1. DOMAIN w.cells = {"trigger_scorecard", "shadow_book", "exit_timing", "portfolio_excursion",
                        "reconciliation_audit", "action_entropy"}
  BY DEF ExecutorCells
<1>2. /\ EntryTriggers(v) = EntryTriggers(w) /\ RiskGuard(v) = RiskGuard(w)
      /\ ExitRules(v) = ExitRules(w) /\ Excursion(v) = Excursion(w)
      /\ ActionEntropy(v) = ActionEntropy(w)
      /\ ReconciliationIntegrity(v) = ReconciliationIntegrity(w)
  BY <1>1, FromArtifactUnread DEF EntryTriggers, RiskGuard, ExitRules, Excursion, ActionEntropy,
     ReconciliationIntegrity, ExecutorMaxAge
<1> QED
  BY <1>2 DEF ExecutorRecords

-----------------------------------------------------------------------------
(* Portfolio Outcome. *)

OutcomeGating == OutcomeCritical \cup {"regime_weighted_alpha"}

\* A measured component once annotate_power has read its interval.
Powered(w, n, crit) ==
  IF w.says[n] = "RED-CI" THEN Record(n, crit, "WATCH", "RED-CI") ELSE Measured(w, n, crit)

PoweredOr(present, w, n, crit, absent) == IF present THEN Powered(w, n, crit) ELSE absent

\* Every component of the tile that found the end-of-day export.
OutcomeMeasured(w) ==
  {Powered(w, n, "critical") : n \in OutcomeCritical}
    \cup {Powered(w, n, "supporting") : n \in {"sortino_ratio", "calmar_ratio", "cvar_95_daily"}}
    \cup {Powered(w, n, "diagnostic") : n \in {"hit_rate_daily", "beta_vs_spy", "max_dd_duration_days"}}
    \cup {PoweredOr(w.cells.trial_count.kind = "full", w, "dsr", "supporting", NotImpl("dsr", "supporting")),
          Pbo(w),
          PoweredOr(w.cells.regimes.kind = "full", w, "regime_weighted_alpha", "critical",
                    Missing("regime_weighted_alpha", "critical")),
          Powered(w, "alpha_trend", "diagnostic")}
    \cup {PoweredOr(w.cells.attribution.kind = "full", w, "attribution_residual_pct_of_active",
                    "diagnostic", Missing("attribution_residual_pct_of_active", "diagnostic")),
          PoweredOr(w.cells.attribution.kind = "full", w, "bf_selection_effect", "supporting",
                    Missing("bf_selection_effect", "supporting")),
          PoweredOr(w.cells.attribution.kind = "full", w, "active_return_ex_index_sleeve",
                    "supporting", Missing("active_return_ex_index_sleeve", "supporting")),
          PoweredOr(w.cells.attribution.kind = "full", w, "beta_adjusted_alpha", "supporting",
                    Missing("beta_adjusted_alpha", "supporting"))}

\* One record of what annotate_power does.
PoweredRecord(r) ==
  IF r.status = "RED" /\ TargetInside(r) /\ RedIsCiDriven(r) THEN [r EXCEPT !.status = "WATCH"] ELSE r

LEMMA PoweredRecords ==
  ASSUME NEW w, NEW n, NEW crit
  PROVE  /\ PoweredRecord(Measured(w, n, crit)) = Powered(w, n, crit)
         /\ PoweredRecord(Missing(n, crit)) = Missing(n, crit)
         /\ PoweredRecord(NotImpl(n, crit)) = NotImpl(n, crit)
         /\ PoweredRecord(Pbo(w)) = Pbo(w)
<1>1. \A s, note : note # "RED-CI" => PoweredRecord(Record(n, crit, s, note)) = Record(n, crit, s, note)
  BY DEF PoweredRecord, TargetInside, RedIsCiDriven, Record
<1>2. PoweredRecord(Measured(w, n, crit)) = Powered(w, n, crit)
  <2>1. CASE w.says[n] = "RED-CI"
    <3> DEFINE lifted == Record(n, crit, "RED", "RED-CI")
    <3>1. [lifted EXCEPT !.status = "WATCH"] = Record(n, crit, "WATCH", "RED-CI")
      BY DEF Record
    <3>2. lifted.status = "RED" /\ TargetInside(lifted) /\ RedIsCiDriven(lifted)
      BY DEF TargetInside, RedIsCiDriven, Record
    <3>3. Measured(w, n, crit) = lifted
      BY <2>1 DEF Measured, IntervalReds
    <3> HIDE DEF lifted
    <3> QED
      BY <2>1, <3>1, <3>2, <3>3 DEF PoweredRecord, Powered
  <2>2. CASE w.says[n] # "RED-CI"
    <3>1. \/ Measured(w, n, crit) = Record(n, crit, "RED", w.says[n])
          \/ Measured(w, n, crit) = Record(n, crit, w.says[n], "")
      BY DEF Measured
    <3> QED
      BY <1>1, <2>2, <3>1 DEF Powered
  <2> QED
    BY <2>1, <2>2
<1>3. PoweredRecord(Pbo(w)) = Pbo(w)
  <2>1. Pbo(w).note = ""
    <3>1. Pbo(w) \in {NotImpl("pbo", "supporting"), LowN("pbo", "supporting"),
                      Stated("pbo", "supporting", "WATCH"), Stated("pbo", "supporting", "GREEN")}
      BY DEF Pbo
    <3>2. /\ NotImpl("pbo", "supporting").note = "" /\ LowN("pbo", "supporting").note = ""
          /\ Stated("pbo", "supporting", "WATCH").note = ""
          /\ Stated("pbo", "supporting", "GREEN").note = ""
      BY DEF NotImpl, LowN, Stated, Record
    <3> QED
      BY <3>1, <3>2
  <2> QED
    BY <2>1 DEF PoweredRecord, TargetInside
<1> QED
  BY <1>1, <1>2, <1>3 DEF Missing, NotImpl

\* The records of the tile, each as annotate_power leaves it.
LEMMA OutcomeIsPowered ==
  ASSUME NEW w
  PROVE  OutcomeRecords(w) = IF w.cells.eod_pnl.kind = "absent" THEN AbsentBattery \cup {Pbo(w)}
                             ELSE OutcomeMeasured(w)
<1> DEFINE P(S) == {PoweredRecord(r) : r \in S}
           whole == w.cells.attribution.kind = "full"
           of(n, crit) == IF whole THEN Measured(w, n, crit) ELSE Missing(n, crit)
<1>1. \A S : AnnotatePower(S) = P(S)
  BY DEF AnnotatePower, PoweredRecord
<1>2. \A S, T : P(S \cup T) = P(S) \cup P(T)
  OBVIOUS
<1>3. P(AbsentBattery) = AbsentBattery
  BY PoweredRecords DEF AbsentBattery
<1>4. /\ P(CriticalBattery(w)) = {Powered(w, n, "critical") : n \in OutcomeCritical}
      /\ P(SupportingBattery(w))
           = {Powered(w, n, "supporting") : n \in {"sortino_ratio", "calmar_ratio", "cvar_95_daily"}}
      /\ P(DiagnosticBattery(w))
           = {Powered(w, n, "diagnostic") : n \in {"hit_rate_daily", "beta_vs_spy", "max_dd_duration_days"}}
  BY PoweredRecords DEF CriticalBattery, SupportingBattery, DiagnosticBattery
<1>5. P({Dsr(w), Pbo(w), RegimeWeightedAlpha(w), AlphaTrend(w)})
        = {PoweredOr(w.cells.trial_count.kind = "full", w, "dsr", "supporting", NotImpl("dsr", "supporting")),
           Pbo(w),
           PoweredOr(w.cells.regimes.kind = "full", w, "regime_weighted_alpha", "critical",
                     Missing("regime_weighted_alpha", "critical")),
           Powered(w, "alpha_trend", "diagnostic")}
  BY PoweredRecords DEF Dsr, RegimeWeightedAlpha, AlphaTrend, PoweredOr
<1>6. \A n, crit : PoweredRecord(of(n, crit)) = PoweredOr(whole, w, n, crit, Missing(n, crit))
  BY PoweredRecords DEF PoweredOr
<1>7. AttributionBattery(w)
        = {of("attribution_residual_pct_of_active", "diagnostic"), of("bf_selection_effect", "supporting"),
           of("active_return_ex_index_sleeve", "supporting"), of("beta_adjusted_alpha", "supporting")}
  BY DEF AttributionBattery
<1>8. P(AttributionBattery(w))
        = {PoweredOr(whole, w, "attribution_residual_pct_of_active",
                     "diagnostic", Missing("attribution_residual_pct_of_active", "diagnostic")),
           PoweredOr(whole, w, "bf_selection_effect", "supporting",
                     Missing("bf_selection_effect", "supporting")),
           PoweredOr(whole, w, "active_return_ex_index_sleeve",
                     "supporting", Missing("active_return_ex_index_sleeve", "supporting")),
           PoweredOr(whole, w, "beta_adjusted_alpha", "supporting",
                     Missing("beta_adjusted_alpha", "supporting"))}
  <2> HIDE DEF of
  <2> QED
    BY <1>6, <1>7
<1>9. P({Pbo(w)}) = {Pbo(w)}
  BY PoweredRecords
<1>10. CASE w.cells.eod_pnl.kind = "absent"
  <2>1. OutcomeRecords(w) = P(AbsentBattery \cup {Pbo(w)})
    BY <1>1, <1>10 DEF OutcomeRecords
  <2> HIDE DEF P
  <2> QED
    BY <1>2, <1>3, <1>9, <1>10, <2>1
<1>11. CASE w.cells.eod_pnl.kind # "absent"
  <2> DEFINE a == CriticalBattery(w)
             b == SupportingBattery(w)
             c == DiagnosticBattery(w)
             d == {Dsr(w), Pbo(w), RegimeWeightedAlpha(w), AlphaTrend(w)}
             e == AttributionBattery(w)
  <2>1. OutcomeRecords(w) = P(a \cup b \cup c \cup d \cup e)
    BY <1>1, <1>11 DEF OutcomeRecords
  <2>2. OutcomeRecords(w) = P(a) \cup P(b) \cup P(c) \cup P(d) \cup P(e)
    <3> HIDE DEF a, b, c, d, e
    <3>1. P(a \cup b \cup c \cup d \cup e) = P(a) \cup P(b) \cup P(c) \cup P(d) \cup P(e)
      OBVIOUS
    <3> QED
      BY <2>1, <3>1
  <2> HIDE DEF P
  <2> QED
    BY <1>4, <1>5, <1>8, <1>11, <2>2 DEF OutcomeMeasured
<1> QED
  BY <1>10, <1>11

LEMMA PoweredBears ==
  ASSUME NEW w, NEW n, NEW crit, NEW present
  PROVE  /\ Powered(w, n, crit).name = n /\ Powered(w, n, crit).criticality = crit
         /\ PoweredOr(present, w, n, crit, Missing(n, crit)).name = n
         /\ PoweredOr(present, w, n, crit, Missing(n, crit)).criticality = crit
         /\ PoweredOr(present, w, n, crit, NotImpl(n, crit)).name = n
         /\ PoweredOr(present, w, n, crit, NotImpl(n, crit)).criticality = crit
<1>1. Powered(w, n, crit).name = n /\ Powered(w, n, crit).criticality = crit
  BY Bears DEF Powered, Record
<1>2. /\ Missing(n, crit).name = n /\ Missing(n, crit).criticality = crit
      /\ NotImpl(n, crit).name = n /\ NotImpl(n, crit).criticality = crit
  BY Bears
<1> QED
  BY <1>1, <1>2 DEF PoweredOr

LEMMA PboBears ==
  ASSUME NEW w
  PROVE  Light(Pbo(w), "pbo") /\ Pbo(w).criticality = "supporting"
<1>1. Pbo(w) \in {NotImpl("pbo", "supporting"), LowN("pbo", "supporting"),
                  Stated("pbo", "supporting", "WATCH"), Stated("pbo", "supporting", "GREEN")}
  BY DEF Pbo
<1> QED
  BY <1>1, Bears DEF Light

LEMMA OutcomeMeasuredBears ==
  ASSUME NEW w
  PROVE  /\ IsFiniteSet(OutcomeMeasured(w))
         /\ {r.name : r \in OutcomeMeasured(w)} = OutcomeRoster
         /\ Weighed(OutcomeMeasured(w), OutcomeRoster, OutcomeGating)
         /\ Pbo(w) \in OutcomeMeasured(w)
         /\ \A r \in OutcomeMeasured(w) : r.name = "pbo" => r = Pbo(w)
<1> DEFINE whole == w.cells.attribution.kind = "full"
           dsr == PoweredOr(w.cells.trial_count.kind = "full", w, "dsr", "supporting",
                            NotImpl("dsr", "supporting"))
           rwa == PoweredOr(w.cells.regimes.kind = "full", w, "regime_weighted_alpha", "critical",
                            Missing("regime_weighted_alpha", "critical"))
           apa == PoweredOr(whole, w, "attribution_residual_pct_of_active", "diagnostic",
                            Missing("attribution_residual_pct_of_active", "diagnostic"))
           bse == PoweredOr(whole, w, "bf_selection_effect", "supporting",
                            Missing("bf_selection_effect", "supporting"))
           are == PoweredOr(whole, w, "active_return_ex_index_sleeve", "supporting",
                            Missing("active_return_ex_index_sleeve", "supporting"))
           baa == PoweredOr(whole, w, "beta_adjusted_alpha", "supporting",
                            Missing("beta_adjusted_alpha", "supporting"))
           first == {Powered(w, "sharpe_ratio", "critical"), Powered(w, "information_ratio", "critical"),
                     Powered(w, "psr", "critical"), Powered(w, "alpha_vs_spy", "critical"),
                     Powered(w, "max_drawdown", "critical")}
           second == {Powered(w, "sortino_ratio", "supporting"), Powered(w, "calmar_ratio", "supporting"),
                      Powered(w, "cvar_95_daily", "supporting"), dsr, Pbo(w)}
           third == {Powered(w, "hit_rate_daily", "diagnostic"), Powered(w, "beta_vs_spy", "diagnostic"),
                     Powered(w, "max_dd_duration_days", "diagnostic"), rwa,
                     Powered(w, "alpha_trend", "diagnostic")}
           fourth == {apa, bse, are, baa, baa}
<1>1. OutcomeMeasured(w) = (first \cup second) \cup (third \cup fourth)
  <2> HIDE DEF whole
  <2> QED
    BY DEF OutcomeMeasured, OutcomeCritical, whole
<1>2. /\ dsr.name = "dsr" /\ dsr.criticality = "supporting"
      /\ rwa.name = "regime_weighted_alpha" /\ rwa.criticality = "critical"
  BY PoweredBears
<1>3. /\ apa.name = "attribution_residual_pct_of_active" /\ apa.criticality = "diagnostic"
      /\ bse.name = "bf_selection_effect" /\ bse.criticality = "supporting"
      /\ are.name = "active_return_ex_index_sleeve" /\ are.criticality = "supporting"
      /\ baa.name = "beta_adjusted_alpha" /\ baa.criticality = "supporting"
  BY PoweredBears
<1>4. ASSUME NEW n, NEW crit
      PROVE  Powered(w, n, crit).name = n /\ Powered(w, n, crit).criticality = crit
  BY PoweredBears
<1> HIDE DEF dsr, rwa, apa, bse, are, baa
<1>5. IsFiniteSet(OutcomeMeasured(w))
  <2>1. IsFiniteSet(first) /\ IsFiniteSet(second) /\ IsFiniteSet(third) /\ IsFiniteSet(fourth)
    BY FewAreFinite
  <2> HIDE DEF first, second, third, fourth
  <2>2. IsFiniteSet(first \cup second) /\ IsFiniteSet(third \cup fourth)
    BY <2>1, FS_Union
  <2> QED
    BY <1>1, <2>2, FS_Union
<1>6. {r.name : r \in OutcomeMeasured(w)} = OutcomeRoster
  BY <1>1, <1>2, <1>3, <1>4, PboBears DEF OutcomeRoster, Light
<1>7. /\ Weighed(first, OutcomeRoster, OutcomeGating) /\ Weighed(second, OutcomeRoster, OutcomeGating)
      /\ Weighed(third, OutcomeRoster, OutcomeGating) /\ Weighed(fourth, OutcomeRoster, OutcomeGating)
  BY <1>2, <1>3, <1>4, PboBears
     DEF Weighed, Heavy, Light, OutcomeRoster, OutcomeGating, OutcomeCritical
<1>8. Pbo(w) \in OutcomeMeasured(w) /\ \A r \in OutcomeMeasured(w) : r.name = "pbo" => r = Pbo(w)
  <2>1. /\ \A r \in first : r.name # "pbo"
        /\ \A r \in second : r.name = "pbo" => r = Pbo(w)
        /\ \A r \in third : r.name # "pbo"
        /\ \A r \in fourth : r.name # "pbo"
        /\ Pbo(w) \in second
    BY <1>2, <1>3, <1>4
  <2> HIDE DEF first, second, third, fourth
  <2> QED
    BY <1>1, <2>1
<1> QED
  <2> HIDE DEF first, second, third, fourth
  <2>1. Weighed(OutcomeMeasured(w), OutcomeRoster, OutcomeGating)
    BY <1>1, <1>7 DEF Weighed
  <2> QED
    BY <1>5, <1>6, <1>8, <2>1

\* What is left without the export: nine missing records and the zoo's PBO.
LEMMA AbsentBears ==
  ASSUME NEW w
  PROVE  /\ IsFiniteSet(AbsentBattery \cup {Pbo(w)})
         /\ Weighed(AbsentBattery \cup {Pbo(w)}, OutcomeRoster, OutcomeGating)
         /\ \A r \in AbsentBattery : /\ IsNA(r) /\ r.name # "pbo"
                                     /\ r.name \in OutcomeCritical => r.criticality = "critical"
                                     /\ r.name \in OutcomeGating => r.name \in OutcomeCritical
<1> DEFINE first == {Missing("sharpe_ratio", "critical"), Missing("information_ratio", "critical"),
                     Missing("psr", "critical"), Missing("alpha_vs_spy", "critical"),
                     Missing("max_drawdown", "critical")}
           second == {Missing("sortino_ratio", "supporting"), Missing("calmar_ratio", "supporting"),
                      Missing("cvar_95_daily", "supporting"), Missing("alpha_trend", "diagnostic"), Pbo(w)}
<1>1. AbsentBattery \cup {Pbo(w)} = first \cup second
  BY DEF AbsentBattery, OutcomeCritical
<1>2. IsFiniteSet(first \cup second)
  <2>1. IsFiniteSet(first) /\ IsFiniteSet(second)
    BY FewAreFinite
  <2> HIDE DEF first, second
  <2> QED
    BY <2>1, FS_Union
<1>3. \A n, crit : Missing(n, crit).name = n /\ Missing(n, crit).criticality = crit /\ IsNA(Missing(n, crit))
  BY Bears, NothingRead
<1>4. Weighed(first \cup second, OutcomeRoster, OutcomeGating)
  BY <1>3, PboBears DEF Weighed, Heavy, Light, OutcomeRoster, OutcomeGating, OutcomeCritical
<1>5. \A r \in AbsentBattery : /\ IsNA(r) /\ r.name # "pbo"
                               /\ r.name \in OutcomeCritical => r.criticality = "critical"
                               /\ r.name \in OutcomeGating => r.name \in OutcomeCritical
  BY <1>3 DEF AbsentBattery, OutcomeGating, OutcomeCritical
<1> QED
  BY <1>1, <1>2, <1>4, <1>5

LEMMA OutcomeTileBears ==
  ASSUME NEW w
  PROVE  /\ IsFiniteSet(OutcomeRecords(w)) /\ IsFiniteSet(OutcomeRoster)
         /\ w.cells.eod_pnl.kind # "absent" => {r.name : r \in OutcomeRecords(w)} = OutcomeRoster
         /\ Weighed(OutcomeRecords(w), OutcomeRoster, OutcomeGating)
<1>1. IsFiniteSet(OutcomeRoster)
  <2>1. OutcomeRoster =
          ({"sharpe_ratio", "information_ratio", "psr", "alpha_vs_spy", "max_drawdown"}
            \cup {"sortino_ratio", "calmar_ratio", "cvar_95_daily", "hit_rate_daily", "beta_vs_spy"})
          \cup ({"max_dd_duration_days", "dsr", "pbo", "regime_weighted_alpha", "alpha_trend"}
            \cup {"attribution_residual_pct_of_active", "bf_selection_effect",
                  "active_return_ex_index_sleeve", "beta_adjusted_alpha", "pbo"})
    BY DEF OutcomeRoster
  <2> QED
    BY <2>1, FewAreFinite, FS_Union
<1> QED
  BY <1>1, OutcomeIsPowered, OutcomeMeasuredBears, AbsentBears

LEMMA OutcomeFades ==
  ASSUME NEW w, NEW v, Loses(w, v), DOMAIN w.cells = DOMAIN OutcomeCells,
         \A a \in DOMAIN OutcomeCells : v.cells[a] \in OutcomeCells[a]
  PROVE  AllFade(GradedAgainst(OutcomeRoster, OutcomeRecords(w)),
                 GradedAgainst(OutcomeRoster, OutcomeRecords(v)))
<1>1. DOMAIN w.cells = {"eod_pnl", "trial_count", "leaderboard", "regimes", "attribution"}
  BY DEF OutcomeCells
<1>2. \A a \in DOMAIN w.cells : v.cells[a].kind = w.cells[a].kind \/ v.cells[a].kind = "absent"
  BY <1>1 DEF Loses, Fainter, Nothing, OutcomeCells, Exact
<1>3. \A n, crit : Powered(v, n, crit) = Powered(w, n, crit)
  BY DEF Powered, Measured, Loses
<1>4. IsNA(Pbo(v)) \/ Pbo(v) = Pbo(w)
  BY <1>1, <1>2, NothingRead DEF Pbo
<1>5. Fades(Pbo(w), Pbo(v))
  BY <1>4, PboBears DEF Fades, Light
<1>6. CASE v.cells.eod_pnl.kind = "absent" /\ w.cells.eod_pnl.kind = "absent"
  <2>1. OutcomeRecords(w) = AbsentBattery \cup {Pbo(w)} /\ OutcomeRecords(v) = AbsentBattery \cup {Pbo(v)}
    BY <1>6, OutcomeIsPowered
  <2>2. Paired(OutcomeRecords(w), OutcomeRecords(v))
    BY <1>5, <2>1 DEF Paired, Fades
  <2> QED
    BY <2>2, PairedFade
\* The export is lost with most of the tile.
<1>7. CASE v.cells.eod_pnl.kind = "absent" /\ w.cells.eod_pnl.kind # "absent"
  <2> DEFINE old == OutcomeMeasured(w)
             new == AbsentBattery \cup {Pbo(v)}
  <2>1. OutcomeRecords(w) = old /\ OutcomeRecords(v) = new
    BY <1>7, OutcomeIsPowered
  <2>2. /\ \A r \in new : r.name \in {x.name : x \in old}
        /\ \A x \in old : x.name \in OutcomeRoster
        /\ \A x \in old : x.name = "pbo" => x = Pbo(w)
        /\ \A x \in old : x.criticality = "critical" => x.name \in OutcomeGating
        /\ Pbo(w) \in old
    BY OutcomeMeasuredBears, AbsentBears DEF Weighed
  <2>3. /\ \A r \in AbsentBattery : /\ IsNA(r) /\ r.name # "pbo"
                                    /\ r.name \in OutcomeGating => r.criticality = "critical"
        /\ Pbo(v).name = "pbo" /\ Pbo(v) \in new
    BY AbsentBears, PboBears DEF Light
  <2>4. \A r \in new : r \in AbsentBattery \/ r = Pbo(v)
    OBVIOUS
  <2>5. AbsentBattery \subseteq new
    OBVIOUS
  <2> HIDE DEF old, new
  <2>6. \A y \in new : y \in old \/ (IsNA(y) /\ \E x \in old : x.name = y.name)
    BY <1>4, <2>2, <2>3, <2>4
  <2>7. ASSUME NEW x \in old, NEW y \in new, y.name = x.name PROVE Fades(x, y)
    <3>1. CASE y \in AbsentBattery
      BY <2>2, <2>3, <2>7, <3>1 DEF Fades
    <3>2. CASE y = Pbo(v)
      BY <1>5, <2>2, <2>3, <2>7, <3>2
    <3> QED
      BY <2>4, <3>1, <3>2
  <2>8. \A x \in old : \/ \E y \in new : Fades(x, y)
                       \/ x.name \in OutcomeRoster /\ \A y \in new : y.name # x.name
    BY <2>2, <2>7
  <2> QED
    BY <2>1, <2>6, <2>8, GradedFade
<1>8. CASE v.cells.eod_pnl.kind # "absent"
  <2>1. w.cells.eod_pnl.kind # "absent"
    BY <1>1, <1>2, <1>8
  <2>2. OutcomeRecords(w) = OutcomeMeasured(w) /\ OutcomeRecords(v) = OutcomeMeasured(v)
    BY <1>8, <2>1, OutcomeIsPowered
  <2>3. ASSUME NEW n, NEW crit, NEW a \in DOMAIN w.cells, NEW absent,
               absent \in {Missing(n, crit), NotImpl(n, crit)}
        PROVE  Fades(PoweredOr(w.cells[a].kind = "full", w, n, crit, absent),
                     PoweredOr(v.cells[a].kind = "full", v, n, crit, absent))
    <3>1. CASE v.cells[a].kind = "full"
      <4>1. w.cells[a].kind = "full"
        BY <1>2, <3>1
      <4> QED
        BY <1>3, <3>1, <4>1 DEF PoweredOr, Fades
    <3>2. CASE v.cells[a].kind # "full"
      <4>1. PoweredOr(v.cells[a].kind = "full", v, n, crit, absent) = absent
        BY <3>2 DEF PoweredOr
      <4>2. IsNA(absent) /\ absent.name = n /\ absent.criticality = crit
        BY <2>3, Bears, NothingRead
      <4>3. PoweredOr(w.cells[a].kind = "full", w, n, crit, absent).name = n
        BY <2>3, PoweredBears
      <4>4. PoweredOr(w.cells[a].kind = "full", w, n, crit, absent).criticality = crit
        BY <2>3, PoweredBears
      <4> QED
        BY <4>1, <4>2, <4>3, <4>4 DEF Fades
    <3> QED
      BY <3>1, <3>2
  <2>4. Paired(OutcomeMeasured(w), OutcomeMeasured(v))
    <3> DEFINE first(u) == {Powered(u, n, "critical") : n \in OutcomeCritical}
               second(u) == {Powered(u, n, "supporting") : n \in {"sortino_ratio", "calmar_ratio", "cvar_95_daily"}}
               third(u) == {Powered(u, n, "diagnostic") : n \in {"hit_rate_daily", "beta_vs_spy", "max_dd_duration_days"}}
               dsr(u) == PoweredOr(u.cells.trial_count.kind = "full", u, "dsr", "supporting", NotImpl("dsr", "supporting"))
               rwa(u) == PoweredOr(u.cells.regimes.kind = "full", u, "regime_weighted_alpha", "critical",
                                   Missing("regime_weighted_alpha", "critical"))
               of(u, n, crit) == PoweredOr(u.cells.attribution.kind = "full", u, n, crit, Missing(n, crit))
               fourth(u) == {dsr(u), Pbo(u), rwa(u), Powered(u, "alpha_trend", "diagnostic")}
               fifth(u) == {of(u, "attribution_residual_pct_of_active", "diagnostic"),
                            of(u, "bf_selection_effect", "supporting"),
                            of(u, "active_return_ex_index_sleeve", "supporting"),
                            of(u, "beta_adjusted_alpha", "supporting")}
    <3>1. \A u : OutcomeMeasured(u) = first(u) \cup second(u) \cup third(u) \cup fourth(u) \cup fifth(u)
      BY DEF OutcomeMeasured
    <3>2. first(v) = first(w) /\ second(v) = second(w) /\ third(v) = third(w)
      BY <1>3
    <3>3. Paired(first(w), first(v)) /\ Paired(second(w), second(v)) /\ Paired(third(w), third(v))
      <4>1. \A S : Paired(S, S)
        BY DEF Paired, Fades
      <4> HIDE DEF first, second, third
      <4> QED
        BY <3>2, <4>1
    <3>4. Fades(dsr(w), dsr(v)) /\ Fades(rwa(w), rwa(v))
      BY <1>1, <2>3
    <3>5. \A n, crit : Fades(of(w, n, crit), of(v, n, crit))
      BY <1>1, <2>3
    <3>6. Fades(Powered(w, "alpha_trend", "diagnostic"), Powered(v, "alpha_trend", "diagnostic"))
      BY <1>3 DEF Fades
    <3> HIDE DEF dsr, rwa, of
    <3>7. Paired(fourth(w), fourth(v)) /\ Paired(fifth(w), fifth(v))
      BY <1>5, <3>4, <3>5, <3>6 DEF Paired
    <3> HIDE DEF first, second, third, fourth, fifth
    <3> QED
      BY <3>1, <3>3, <3>7 DEF Paired
  <2> QED
    BY <2>2, <2>4, PairedFade
<1> QED
  BY <1>6, <1>7, <1>8

\* Its keys are exact: none has an age.
LEMMA OutcomeUnread ==
  ASSUME NEW w, NEW v, Unread(w, v, Lookback), DOMAIN w.cells = DOMAIN OutcomeCells,
         \A a \in DOMAIN OutcomeCells : w.cells[a] \in OutcomeCells[a]
  PROVE  OutcomeRecords(v) = OutcomeRecords(w)
<1>1. DOMAIN w.cells = {"eod_pnl", "trial_count", "leaderboard", "regimes", "attribution"}
  BY DEF OutcomeCells
<1>2. \A a \in DOMAIN w.cells : v.cells[a] = w.cells[a]
  <2>1. \A a \in DOMAIN w.cells : w.cells[a].age = 0
    BY <1>1 DEF OutcomeCells, Exact
  <2> QED
    BY <2>1, BodyUnread DEF Lookback
<1>3. \A n, crit : Powered(v, n, crit) = Powered(w, n, crit)
  BY DEF Powered, Measured, Unread
<1>4. \A p, n, crit, absent : PoweredOr(p, v, n, crit, absent) = PoweredOr(p, w, n, crit, absent)
  BY <1>3 DEF PoweredOr
<1>5. Pbo(v) = Pbo(w)
  BY <1>1, <1>2 DEF Pbo
<1>6. /\ v.cells.eod_pnl = w.cells.eod_pnl /\ v.cells.trial_count = w.cells.trial_count
      /\ v.cells.regimes = w.cells.regimes /\ v.cells.attribution = w.cells.attribution
  BY <1>1, <1>2
<1>7. OutcomeMeasured(v) = OutcomeMeasured(w)
  BY <1>3, <1>4, <1>5, <1>6 DEF OutcomeMeasured
<1> QED
  BY <1>5, <1>6, <1>7, OutcomeIsPowered

\* What a measured component's status says of its reading, after the downgrade.
LEMMA PoweredStatus ==
  ASSUME NEW w, NEW n, NEW crit
  PROVE  (Powered(w, n, crit).status = "RED") = (w.says[n] \in {"RED", "RED-IN", "RED-OUT"})
<1>1. CASE w.says[n] \in IntervalReds
  BY <1>1 DEF Powered, Measured, IntervalReds, Record
<1>2. CASE w.says[n] \notin IntervalReds
  <2>1. Powered(w, n, crit).status = w.says[n]
    BY <1>2 DEF Powered, Measured, IntervalReds, Record
  <2> QED
    BY <1>2, <2>1 DEF IntervalReds
<1> QED
  BY <1>1, <1>2

\* A graded record that has a reading and gates the tile is a measured
\* component as annotate_power left it.
LEMMA GatingIsPowered ==
  ASSUME NEW w, NEW r \in GradedAgainst(OutcomeRoster, OutcomeRecords(w)),
         r.criticality = "critical", ~IsNA(r)
  PROVE  \E n, crit : r = Powered(w, n, crit)
<1>1. \A n, crit : /\ IsNA(Missing(n, crit)) /\ IsNA(NotImpl(n, crit)) /\ IsNA(Unreported(n))
  BY DEF Missing, NotImpl, Unreported, Record, IsNA, Dark, NotGraded
<1>2. r \in OutcomeRecords(w)
  BY <1>1 DEF GradedAgainst
<1>3. r # Pbo(w)
  BY PboBears
<1>4. r \notin AbsentBattery
  BY <1>1 DEF AbsentBattery
<1>5. r \in OutcomeMeasured(w)
  BY <1>2, <1>3, <1>4, OutcomeIsPowered
<1>6. ASSUME NEW p, NEW n, NEW crit,
             r = PoweredOr(p, w, n, crit, Missing(n, crit))
               \/ r = PoweredOr(p, w, n, crit, NotImpl(n, crit))
      PROVE  r = Powered(w, n, crit)
  BY <1>1, <1>6 DEF PoweredOr
<1> QED
  BY <1>3, <1>5, <1>6 DEF OutcomeMeasured

\* The Portfolio Outcome tile is RED exactly when a critical component it could
\* measure is red by its estimate, or by a bad bound that leaves the target out
\* (RedUnlessSpanning): power.annotate_power lifts the RED of an interval that
\* spans both bars, before module_agg.module_status looks for one, and no other.
THEOREM OnlySpanningRedsAreLifted == Spec => []RedUnlessSpanning
<1>1. TilesInv => RedUnlessSpanning
  <2> SUFFICES ASSUME TilesInv, tile = "portfolio_outcome"
               PROVE  (built.status = "RED") =
                        (\E r \in built.components :
                           /\ r.criticality = "critical" /\ ~IsNA(r)
                           /\ world.says[r.name] \in {"RED", "RED-IN", "RED-OUT"})
    BY DEF RedUnlessSpanning
  <2> DEFINE graded == GradedAgainst(OutcomeRoster, OutcomeRecords(world))
  <2>1. built.components = graded /\ built.status = ModuleStatus(graded)
    BY DEF TilesInv, Graded, BuildTile, Records, Roster
  <2>2. IsFiniteSet(graded)
    BY OutcomeTileBears, GradedIsFinite
  <2>3. ASSUME NEW r \in graded, r.criticality = "critical", ~IsNA(r)
        PROVE  (r.status = "RED") = (world.says[r.name] \in {"RED", "RED-IN", "RED-OUT"})
    <3>1. PICK n, crit : r = Powered(world, n, crit)
      BY <2>3, GatingIsPowered
    <3>2. r.name = n
      BY <3>1, PoweredBears
    <3> QED
      BY <3>1, <3>2, PoweredStatus
  <2>4. \A r \in graded : r.status = "RED" => ~IsNA(r)
    BY DEF IsNA, Dark, NotGraded
  <2>5. ASSUME ModuleStatus(graded) = "RED"
        PROVE  \E r \in graded : r.criticality = "critical" /\ r.status = "RED"
    BY <2>2, <2>5, RedHasACritical DEF Has
  <2>6. ASSUME NEW r \in graded, r.criticality = "critical", r.status = "RED"
        PROVE  ModuleStatus(graded) = "RED"
    <3> HIDE DEF graded
    <3>1. Has(graded, "critical", "RED") /\ graded # {}
      BY <2>6 DEF Has
    <3>2. ~ \A s \in graded : IsNA(s)
      BY <2>4, <2>6
    <3> QED
      BY <3>1, <3>2 DEF ModuleStatus
  <2> HIDE DEF graded
  <2> QED
    BY <2>1, <2>3, <2>4, <2>5, <2>6
<1> QED
  BY <1>1, TilesInvariant, PTL

-----------------------------------------------------------------------------
(* Substrate Reliability. *)

SubstrateCritical ==
  {"price_cache_freshness", "sf_success_rate_4w", "data_quality_incidents", "schema_drift_incidents"}

\* The record of one threshold arm.
ArmRecord(w, n) ==
  CASE w.cells.arms.kind = "absent" -> NotRun(n, "diagnostic")
    [] w.cells.arms.kind = "insufficient" -> LowN(n, "diagnostic")
    [] OTHER -> Measured(w, n, "diagnostic")

\* The two arms.
ArmPair(w) == {ArmRecord(w, "threshold_arm_brier_declared_v2"),
               ArmRecord(w, "threshold_arm_brier_history_bands_v1")}

LEMMA SubstrateBears ==
  ASSUME NEW w
  PROVE  /\ Grave(PriceCacheFreshness(w), "price_cache_freshness")
         /\ Grave(SfSuccessRate4w(w), "sf_success_rate_4w")
         /\ Light(UnattendedFirstPassRate(w), "unattended_first_pass_rate")
         /\ Grave(DataQualityIncidents(w), "data_quality_incidents")
         /\ Grave(SchemaDriftIncidents(w), "schema_drift_incidents")
         /\ Light(WatchdogFirings(w), "watchdog_firings")
         /\ Light(DeploySuccessRate(w), "deploy_success_rate")
         /\ Light(UnpricedCostRows(w), "unpriced_cost_rows")
         /\ Light(Accepted("alert_noise_ratio", "supporting"), "alert_noise_ratio")
         /\ Light(Accepted("changelog_coverage", "diagnostic"), "changelog_coverage")
         /\ Light(Accepted("iam_drift", "diagnostic"), "iam_drift")
         /\ \A n : Light(ArmRecord(w, n), n)
         /\ ArmComponents(w) = ArmPair(w)
<1> USE Bears DEF Light, Grave
<1>1. /\ Grave(PriceCacheFreshness(w), "price_cache_freshness")
      /\ Light(WatchdogFirings(w), "watchdog_firings")
      /\ Light(DeploySuccessRate(w), "deploy_success_rate")
      /\ Light(UnpricedCostRows(w), "unpriced_cost_rows")
  BY DEF PriceCacheFreshness, WatchdogFirings, DeploySuccessRate, UnpricedCostRows
<1>2. /\ Grave(SfSuccessRate4w(w), "sf_success_rate_4w")
      /\ Light(UnattendedFirstPassRate(w), "unattended_first_pass_rate")
  <2>1. ASSUME NEW n, NEW crit, NEW kinds
        PROVE  OfExecutions(w, n, crit, kinds) \in {Missing(n, crit), Measured(w, n, crit), NotRun(n, crit)}
    BY DEF OfExecutions
  <2> QED
    BY <2>1 DEF SfSuccessRate4w, UnattendedFirstPassRate
<1>3. /\ Grave(DataQualityIncidents(w), "data_quality_incidents")
      /\ Grave(SchemaDriftIncidents(w), "schema_drift_incidents")
  <2>1. ASSUME NEW n, NEW a
        PROVE  OfCloudWatch(w, n, a) \in {Missing(n, "critical"), NotRun(n, "critical"),
                                          Measured(w, n, "critical")}
    BY DEF OfCloudWatch
  <2> QED
    BY <2>1 DEF DataQualityIncidents, SchemaDriftIncidents
<1>4. /\ Light(Accepted("alert_noise_ratio", "supporting"), "alert_noise_ratio")
      /\ Light(Accepted("changelog_coverage", "diagnostic"), "changelog_coverage")
      /\ Light(Accepted("iam_drift", "diagnostic"), "iam_drift")
  OBVIOUS
<1>5. \A n : Light(ArmRecord(w, n), n)
  BY DEF ArmRecord
<1>6. ArmComponents(w) = ArmPair(w)
  <2>1. ArmComponents(w) = {ArmRecord(w, n) : n \in ThresholdArms}
    BY DEF ArmComponents, ArmRecord
  <2> QED
    BY <2>1 DEF ThresholdArms, ArmPair
<1> QED
  BY <1>1, <1>2, <1>3, <1>4, <1>5, <1>6

LEMMA SubstrateTileBears ==
  ASSUME NEW w
  PROVE  /\ IsFiniteSet(SubstrateRecords(w))
         /\ {r.name : r \in SubstrateRecords(w)} = SubstrateRoster
         /\ Weighed(SubstrateRecords(w), SubstrateRoster, SubstrateCritical)
<1> DEFINE first == {PriceCacheFreshness(w), SfSuccessRate4w(w), UnattendedFirstPassRate(w),
                     DataQualityIncidents(w), SchemaDriftIncidents(w)}
           second == {WatchdogFirings(w), DeploySuccessRate(w), UnpricedCostRows(w),
                      Accepted("alert_noise_ratio", "supporting"),
                      Accepted("changelog_coverage", "diagnostic")}
           third == {Accepted("iam_drift", "diagnostic"),
                     ArmRecord(w, "threshold_arm_brier_declared_v2"),
                     ArmRecord(w, "threshold_arm_brier_history_bands_v1"),
                     ArmRecord(w, "threshold_arm_brier_history_bands_v1"),
                     ArmRecord(w, "threshold_arm_brier_history_bands_v1")}
<1>1. SubstrateRecords(w) = (first \cup second) \cup third
  BY SubstrateBears DEF SubstrateRecords, NotBuilt, ArmPair
<1>2. IsFiniteSet(SubstrateRecords(w))
  <2>1. IsFiniteSet(first) /\ IsFiniteSet(second) /\ IsFiniteSet(third)
    BY FewAreFinite
  <2> HIDE DEF first, second, third
  <2>2. IsFiniteSet(first \cup second)
    BY <2>1, FS_Union
  <2> QED
    BY <1>1, <2>1, <2>2, FS_Union
<1> QED
  BY <1>1, <1>2, SubstrateBears
     DEF Weighed, Heavy, Light, Grave, SubstrateRoster, SubstrateCritical, ThresholdArms

LEMMA SubstrateFades ==
  ASSUME NEW w, NEW v, Loses(w, v), DOMAIN w.cells = DOMAIN SubstrateCells,
         \A a \in DOMAIN SubstrateCells : v.cells[a] \in SubstrateCells[a]
  PROVE  Paired(SubstrateRecords(w), SubstrateRecords(v))
<1>1. DOMAIN w.cells = {"sentinel", "executions", "quality_counts", "drift_counts", "substrate_ops",
                        "deploys", "cost_rows", "arms"}
  BY DEF SubstrateCells
<1>2. \A a \in DOMAIN w.cells : v.cells[a].kind = w.cells[a].kind \/ v.cells[a].kind \in Nothing
  BY DEF Loses, Fainter
<1>3. \A n, crit : Measured(v, n, crit) = Measured(w, n, crit)
  BY DEF Measured, Loses
<1>4. /\ IsNA(PriceCacheFreshness(v)) \/ PriceCacheFreshness(v) = PriceCacheFreshness(w)
      /\ IsNA(DeploySuccessRate(v)) \/ DeploySuccessRate(v) = DeploySuccessRate(w)
      /\ IsNA(UnpricedCostRows(v)) \/ UnpricedCostRows(v) = UnpricedCostRows(w)
  BY <1>1, <1>2, <1>3, NothingRead DEF PriceCacheFreshness, DeploySuccessRate, UnpricedCostRows, Nothing
<1>5. IsNA(WatchdogFirings(v)) \/ WatchdogFirings(v) = WatchdogFirings(w)
  <2>1. Body(v, "substrate_ops") = Body(w, "substrate_ops") \/ Body(v, "substrate_ops") \in Nothing
    BY <1>1, BodyFades, 0 \in Nat
  <2> QED
    BY <1>3, <2>1, NothingRead DEF WatchdogFirings, Nothing
<1>6. ASSUME NEW n, NEW crit, NEW kinds, Nothing \cap kinds = {}
      PROVE  IsNA(OfExecutions(v, n, crit, kinds)) \/ OfExecutions(v, n, crit, kinds) = OfExecutions(w, n, crit, kinds)
  <2>1. CASE v.cells.executions.kind = w.cells.executions.kind
    BY <1>3, <2>1 DEF OfExecutions
  <2>2. CASE v.cells.executions.kind \in Nothing
    <3>1. OfExecutions(v, n, crit, kinds) \in {Missing(n, crit), NotRun(n, crit)}
      BY <1>6, <2>2 DEF OfExecutions
    <3> QED
      BY <3>1, NothingRead
  <2> QED
    BY <1>1, <1>2, <2>1, <2>2
<1>7. /\ IsNA(SfSuccessRate4w(v)) \/ SfSuccessRate4w(v) = SfSuccessRate4w(w)
      /\ IsNA(UnattendedFirstPassRate(v)) \/ UnattendedFirstPassRate(v) = UnattendedFirstPassRate(w)
  BY <1>6 DEF SfSuccessRate4w, UnattendedFirstPassRate, Nothing
\* A count nobody could read, or nobody emitted.
<1>8. ASSUME NEW n, NEW a \in {"quality_counts", "drift_counts"}
      PROVE  IsNA(OfCloudWatch(v, n, a)) \/ OfCloudWatch(v, n, a) = OfCloudWatch(w, n, a)
  <2>1. v.cells[a].kind \in {"denied", "absent", "full"}
    <3>1. SubstrateCells[a] = {Fresh(k) : k \in {"denied", "absent", "full"}} /\ a \in DOMAIN SubstrateCells
      BY DEF SubstrateCells
    <3>2. v.cells[a] \in SubstrateCells[a]
      BY <3>1
    <3> QED
      BY <3>1, <3>2 DEF Fresh
  <2>2. CASE v.cells[a].kind = "full"
    <3>1. w.cells[a].kind = "full"
      BY <1>1, <1>2, <2>2 DEF Nothing
    <3> QED
      BY <1>3, <2>2, <3>1 DEF OfCloudWatch
  <2>3. CASE v.cells[a].kind # "full"
    <3>1. OfCloudWatch(v, n, a) \in {Missing(n, "critical"), NotRun(n, "critical")}
      BY <2>1, <2>3 DEF OfCloudWatch
    <3> QED
      BY <3>1, NothingRead
  <2> QED
    BY <2>2, <2>3
<1>9. /\ IsNA(DataQualityIncidents(v)) \/ DataQualityIncidents(v) = DataQualityIncidents(w)
      /\ IsNA(SchemaDriftIncidents(v)) \/ SchemaDriftIncidents(v) = SchemaDriftIncidents(w)
  BY <1>8 DEF DataQualityIncidents, SchemaDriftIncidents
<1>10. \A n : IsNA(ArmRecord(v, n)) \/ ArmRecord(v, n) = ArmRecord(w, n)
  <2>1. v.cells.arms.kind \in {"absent", "insufficient", "full"}
    <3>1. SubstrateCells.arms = {Fresh(k) : k \in {"absent", "insufficient", "full"}}
      BY DEF SubstrateCells
    <3>2. v.cells.arms \in SubstrateCells.arms
      BY <1>1
    <3> QED
      BY <3>1, <3>2 DEF Fresh
  <2> QED
    BY <1>1, <1>2, <1>3, <2>1, NothingRead DEF ArmRecord, Nothing
<1>11. /\ Fades(PriceCacheFreshness(w), PriceCacheFreshness(v))
       /\ Fades(SfSuccessRate4w(w), SfSuccessRate4w(v))
       /\ Fades(UnattendedFirstPassRate(w), UnattendedFirstPassRate(v))
       /\ Fades(DataQualityIncidents(w), DataQualityIncidents(v))
       /\ Fades(SchemaDriftIncidents(w), SchemaDriftIncidents(v))
       /\ Fades(WatchdogFirings(w), WatchdogFirings(v))
       /\ Fades(DeploySuccessRate(w), DeploySuccessRate(v))
       /\ Fades(UnpricedCostRows(w), UnpricedCostRows(v))
       /\ \A n : Fades(ArmRecord(w, n), ArmRecord(v, n))
  BY <1>4, <1>5, <1>7, <1>9, <1>10, SubstrateBears DEF Fades, Grave, Light
<1>12. /\ ArmComponents(w) = ArmPair(w) /\ ArmComponents(v) = ArmPair(v)
  BY SubstrateBears
<1>13. Paired(ArmPair(w), ArmPair(v)) /\ Paired(NotBuilt, NotBuilt)
  <2>1. Paired(ArmPair(w), ArmPair(v))
    BY <1>11 DEF Paired, ArmPair
  <2>2. Paired(NotBuilt, NotBuilt)
    BY DEF Paired, Fades
  <2> QED
    BY <2>1, <2>2
<1> DEFINE eight(u) == {PriceCacheFreshness(u), SfSuccessRate4w(u), UnattendedFirstPassRate(u),
                        DataQualityIncidents(u), SchemaDriftIncidents(u), WatchdogFirings(u),
                        DeploySuccessRate(u), UnpricedCostRows(u)}
<1>14. Paired(eight(w), eight(v))
  BY <1>11 DEF Paired
<1>15. \A u : SubstrateRecords(u) = eight(u) \cup NotBuilt \cup ArmComponents(u)
  BY DEF SubstrateRecords
<1> HIDE DEF eight
<1> QED
  BY <1>12, <1>13, <1>14, <1>15, PairedUnion

LEMMA SubstrateUnread ==
  ASSUME NEW w, NEW v, Unread(w, v, Lookback), DOMAIN w.cells = DOMAIN SubstrateCells,
         \A a \in DOMAIN SubstrateCells : w.cells[a] \in SubstrateCells[a]
  PROVE  SubstrateRecords(v) = SubstrateRecords(w)
<1>1. DOMAIN w.cells = {"sentinel", "executions", "quality_counts", "drift_counts", "substrate_ops",
                        "deploys", "cost_rows", "arms"}
  BY DEF SubstrateCells
<1>2. \A a \in DOMAIN w.cells \ {"substrate_ops"} : v.cells[a] = w.cells[a]
  <2>1. \A a \in DOMAIN w.cells \ {"substrate_ops"} : w.cells[a].age = 0
    <3>1. /\ \A c \in SubstrateCells.sentinel : c.age = 0
          /\ \A c \in SubstrateCells.deploys : c.age = 0
      BY DEF SubstrateCells, Exact
    <3>2. /\ \A c \in SubstrateCells.executions : c.age = 0
          /\ \A c \in SubstrateCells.quality_counts : c.age = 0
          /\ \A c \in SubstrateCells.drift_counts : c.age = 0
      BY DEF SubstrateCells, Fresh
    <3>3. /\ \A c \in SubstrateCells.cost_rows : c.age = 0
          /\ \A c \in SubstrateCells.arms : c.age = 0
      BY DEF SubstrateCells, Fresh
    <3> QED
      BY <1>1, <3>1, <3>2, <3>3
  <2> QED
    BY <2>1, BodyUnread DEF Lookback
<1>3. Body(v, "substrate_ops") = Body(w, "substrate_ops")
  BY <1>1 DEF Unread, Body, Lookback
<1>4. \A n, crit : Measured(v, n, crit) = Measured(w, n, crit)
  BY DEF Measured, Unread
<1>5. /\ PriceCacheFreshness(v) = PriceCacheFreshness(w) /\ WatchdogFirings(v) = WatchdogFirings(w)
      /\ DeploySuccessRate(v) = DeploySuccessRate(w) /\ UnpricedCostRows(v) = UnpricedCostRows(w)
  BY <1>1, <1>2, <1>3, <1>4
     DEF PriceCacheFreshness, WatchdogFirings, DeploySuccessRate, UnpricedCostRows
<1>6. /\ SfSuccessRate4w(v) = SfSuccessRate4w(w)
      /\ UnattendedFirstPassRate(v) = UnattendedFirstPassRate(w)
  BY <1>1, <1>2, <1>4 DEF SfSuccessRate4w, UnattendedFirstPassRate, OfExecutions
<1>7. /\ DataQualityIncidents(v) = DataQualityIncidents(w)
      /\ SchemaDriftIncidents(v) = SchemaDriftIncidents(w)
  BY <1>1, <1>2, <1>4 DEF DataQualityIncidents, SchemaDriftIncidents, OfCloudWatch
<1>8. ArmPair(v) = ArmPair(w)
  BY <1>1, <1>2, <1>4 DEF ArmPair, ArmRecord
<1> QED
  BY <1>5, <1>6, <1>7, <1>8, SubstrateBears DEF SubstrateRecords

-----------------------------------------------------------------------------
(* Agent Quality. *)

AgentCritical == {"agent_validation_failure_rate", "judge_calibration_cohen_kappa"}

\* The groomer writes one record for each of its components, whether it ran,
\* was paused or is missing, and none of them gates.
LEMMA GroomBears ==
  ASSUME NEW w
  PROVE  /\ IsFiniteSet(GroomComponents(w))
         /\ {r.name : r \in GroomComponents(w)} = GroomRoster
         /\ \A r \in GroomComponents(w) : r.criticality # "critical"
         /\ w.cells.groom_runs.kind = "absent" => \A r \in GroomComponents(w) : IsNA(r)
<1> DEFINE paused == {Accepted(n, "diagnostic") : n \in GroomRoster}
           missing == {Missing(n, "supporting") : n \in GroomRoster}
           ran == {GroomCompletionRate(w), GroomWetPerCompletion(w), GroomCommentChurn(w),
                   GroomLostChunks(w)}
<1>1. \/ GroomComponents(w) = ran /\ w.cells.groom_runs.kind # "absent"
      \/ GroomComponents(w) = paused
      \/ GroomComponents(w) = missing
  BY DEF GroomComponents, GroomAbsent
<1>2. IsFiniteSet(ran) /\ IsFiniteSet(paused) /\ IsFiniteSet(missing)
  <2>1. IsFiniteSet(ran)
    BY FourAreFinite
  <2>2. /\ paused = {Accepted("groom_completion_rate", "diagnostic"),
                     Accepted("groom_wet_per_completion", "diagnostic"),
                     Accepted("groom_comment_churn", "diagnostic"),
                     Accepted("groom_lost_chunks", "diagnostic")}
        /\ missing = {Missing("groom_completion_rate", "supporting"),
                      Missing("groom_wet_per_completion", "supporting"),
                      Missing("groom_comment_churn", "supporting"),
                      Missing("groom_lost_chunks", "supporting")}
    BY DEF GroomRoster
  <2> HIDE DEF ran, paused, missing
  <2> QED
    BY <2>1, <2>2, FourAreFinite
<1>3. /\ {r.name : r \in paused} = GroomRoster /\ {r.name : r \in missing} = GroomRoster
      /\ \A r \in paused \cup missing : r.criticality # "critical" /\ IsNA(r)
  <2>1. \A n : /\ Accepted(n, "diagnostic").name = n /\ Accepted(n, "diagnostic").criticality = "diagnostic"
               /\ Missing(n, "supporting").name = n /\ Missing(n, "supporting").criticality = "supporting"
               /\ IsNA(Accepted(n, "diagnostic")) /\ IsNA(Missing(n, "supporting"))
    BY Bears, NothingRead
  <2> QED
    BY <2>1
<1>4. /\ Light(GroomCompletionRate(w), "groom_completion_rate")
      /\ Light(GroomWetPerCompletion(w), "groom_wet_per_completion")
      /\ Light(GroomCommentChurn(w), "groom_comment_churn")
      /\ Light(GroomLostChunks(w), "groom_lost_chunks")
  BY Bears DEF Light, GroomCompletionRate, GroomWetPerCompletion, GroomCommentChurn, GroomLostChunks
<1>5. {r.name : r \in ran} = GroomRoster /\ \A r \in ran : r.criticality # "critical"
  BY <1>4 DEF Light, GroomRoster
<1> HIDE DEF ran, paused, missing
<1>6. IsFiniteSet(GroomComponents(w))
  BY <1>1, <1>2
<1>7. {r.name : r \in GroomComponents(w)} = GroomRoster
  BY <1>1, <1>3, <1>5
<1>8. \A r \in GroomComponents(w) : r.criticality # "critical"
  BY <1>1, <1>3, <1>5
<1>9. w.cells.groom_runs.kind = "absent" => \A r \in GroomComponents(w) : IsNA(r)
  BY <1>3 DEF GroomComponents, GroomAbsent, paused, missing
<1> QED
  BY <1>6, <1>7, <1>8, <1>9

LEMMA AgentBears ==
  ASSUME NEW w, NEW n, NEW crit, NEW kinds
  PROVE  /\ OfAgentBlock(w, n, crit, kinds).name = n
         /\ OfAgentBlock(w, n, crit, kinds).criticality = crit
         /\ Light(AgentLatency(w), "agent_latency_p95")
         /\ Light(StanceSourceProvenance(w), "stance_source_provenance")
         /\ Grave(JudgeCalibration, "judge_calibration_cohen_kappa")
<1>1. \A m, c, k : OfAgentBlock(w, m, c, k) \in {MissingStale(m, c), Measured(w, m, c), Missing(m, c)}
  <2> SUFFICES ASSUME NEW m, NEW c, NEW k
               PROVE  OfAgentBlock(w, m, c, k) \in {MissingStale(m, c), Measured(w, m, c), Missing(m, c)}
    OBVIOUS
  <2> QED
    BY DEF OfAgentBlock
<1>2. \A m, c, k : OfAgentBlock(w, m, c, k).name = m /\ OfAgentBlock(w, m, c, k).criticality = c
  <2> SUFFICES ASSUME NEW m, NEW c, NEW k
               PROVE  OfAgentBlock(w, m, c, k).name = m /\ OfAgentBlock(w, m, c, k).criticality = c
    OBVIOUS
  <2> QED
    BY <1>1, Bears
<1>3. Light(StanceSourceProvenance(w), "stance_source_provenance")
  BY FromArtifactBears DEF Light, StanceSourceProvenance
<1>4. Grave(JudgeCalibration, "judge_calibration_cohen_kappa")
  BY Bears DEF Grave, JudgeCalibration
<1> QED
  BY <1>2, <1>3, <1>4 DEF Light, AgentLatency

LEMMA AgentTileBears ==
  ASSUME NEW w
  PROVE  /\ IsFiniteSet(AgentRecords(w))
         /\ {r.name : r \in AgentRecords(w)} = AgentRoster
         /\ Weighed(AgentRecords(w), AgentRoster, AgentCritical)
<1> DEFINE blocks == AgentBlocks(w)
           three == {AgentLatency(w), StanceSourceProvenance(w), JudgeCalibration}
           groom == GroomComponents(w)
<1>1. AgentRecords(w) = blocks \cup three \cup groom
  BY DEF AgentRecords
<1>2. IsFiniteSet(blocks) /\ IsFiniteSet(three)
  <2>1. IsFiniteSet(blocks)
    BY FourAreFinite DEF AgentBlocks
  <2>2. three = {AgentLatency(w), StanceSourceProvenance(w), JudgeCalibration, JudgeCalibration,
                 JudgeCalibration}
    OBVIOUS
  <2> HIDE DEF blocks, three
  <2> QED
    BY <2>1, <2>2, FewAreFinite
<1>3. \A n, crit, kinds : /\ OfAgentBlock(w, n, crit, kinds).name = n
                          /\ OfAgentBlock(w, n, crit, kinds).criticality = crit
  BY AgentBears
<1>4. {r.name : r \in blocks \cup three} = AgentRoster \ GroomRoster
  BY <1>3, AgentBears DEF AgentBlocks, Light, Grave, AgentRoster, GroomRoster
<1>5. Weighed(blocks \cup three, AgentRoster, AgentCritical)
  BY <1>3, AgentBears DEF AgentBlocks, Weighed, Heavy, Light, Grave, AgentRoster, AgentCritical
<1>6. Weighed(groom, AgentRoster, AgentCritical)
  <2>1. GroomRoster \subseteq AgentRoster /\ GroomRoster \cap AgentCritical = {}
    BY DEF AgentRoster, GroomRoster, AgentCritical
  <2> QED
    BY <2>1, GroomBears DEF Weighed
<1> HIDE DEF blocks, three
<1>7. IsFiniteSet(AgentRecords(w))
  <2>1. IsFiniteSet(blocks \cup three)
    BY <1>2, FS_Union
  <2> QED
    BY <1>1, <2>1, GroomBears, FS_Union
<1>8. {r.name : r \in AgentRecords(w)} = AgentRoster
  <2>1. AgentRoster = (AgentRoster \ GroomRoster) \cup GroomRoster
    BY DEF AgentRoster
  <2>2. {r.name : r \in groom} = GroomRoster
    BY GroomBears
  <2>3. AgentRecords(w) = (blocks \cup three) \cup groom
    BY <1>1
  <2> HIDE DEF groom
  <2> QED
    BY <1>4, <2>1, <2>2, <2>3
<1>9. Weighed(AgentRecords(w), AgentRoster, AgentCritical)
  BY <1>1, <1>5, <1>6 DEF Weighed
<1> QED
  BY <1>7, <1>8, <1>9

LEMMA AgentFades ==
  ASSUME NEW w, NEW v, Loses(w, v), DOMAIN w.cells = DOMAIN AgentCells,
         \A a \in DOMAIN AgentCells : v.cells[a] \in AgentCells[a]
  PROVE  Paired(AgentRecords(w), AgentRecords(v))
<1>1. DOMAIN w.cells = {"agent_quality", "signals", "groom_runs", "paused_lanes"}
  BY DEF AgentCells
<1>2. \A n, crit : Measured(v, n, crit) = Measured(w, n, crit)
  BY DEF Measured, Loses
<1>3. ASSUME NEW n, NEW crit, NEW kinds, Nothing \cap kinds = {}
      PROVE  Fades(OfAgentBlock(w, n, crit, kinds), OfAgentBlock(v, n, crit, kinds))
  <2> DEFINE a == "agent_quality"
             read(u) == ~Stale(u, a, AgentMaxAge) /\ Body(u, a) \in kinds
  <2>1. CASE read(v)
    <3>1. \/ Body(v, a) = Body(w, a) /\ (Stale(w, a, AgentMaxAge) => Stale(v, a, AgentMaxAge))
          \/ Body(v, a) \in Nothing
      BY <1>1, BodyFades DEF AgentMaxAge
    <3>2. read(w)
      BY <1>3, <2>1, <3>1
    <3>3. ASSUME NEW u, read(u) PROVE OfAgentBlock(u, n, crit, kinds) = Measured(u, n, crit)
      BY <3>3 DEF OfAgentBlock
    <3> HIDE DEF read
    <3> QED
      BY <1>2, <2>1, <3>2, <3>3 DEF Fades
  <2>2. CASE ~read(v)
    <3>1. OfAgentBlock(v, n, crit, kinds) \in {MissingStale(n, crit), Missing(n, crit)}
      BY <2>2 DEF OfAgentBlock
    <3> QED
      BY <3>1, NothingRead, Bears, AgentBears DEF Fades
  <2> QED
    BY <2>1, <2>2
<1>4. Fades(AgentLatency(w), AgentLatency(v))
  BY <1>3 DEF AgentLatency, Nothing
<1>5. Fades(StanceSourceProvenance(w), StanceSourceProvenance(v))
  BY <1>1, FromArtifactFades DEF StanceSourceProvenance, AgentMaxAge
<1>6. Paired(AgentBlocks(w), AgentBlocks(v))
  <2>1. Nothing \cap {"long_only", "full"} = {}
    BY DEF Nothing
  <2>2. \A n, crit : Fades(OfAgentBlock(w, n, crit, {"long_only", "full"}),
                           OfAgentBlock(v, n, crit, {"long_only", "full"}))
    BY <1>3, <2>1
  <2> QED
    BY <2>2 DEF Paired, AgentBlocks
<1>7. Paired(GroomComponents(w), GroomComponents(v))
  <2>1. v.cells.groom_runs.kind = w.cells.groom_runs.kind \/ v.cells.groom_runs.kind = "absent"
    BY <1>1 DEF Loses, Fainter, Nothing, AgentCells, Exact
  <2>2. CASE v.cells.groom_runs.kind = "absent"
    <3>1. {r.name : r \in GroomComponents(w)} = {r.name : r \in GroomComponents(v)}
      BY GroomBears
    <3>2. /\ \A x \in GroomComponents(w) : x.criticality # "critical"
          /\ \A y \in GroomComponents(v) : IsNA(y)
      BY <2>2, GroomBears
    <3>3. /\ \A x \in GroomComponents(w) : \E y \in GroomComponents(v) : y.name = x.name
          /\ \A y \in GroomComponents(v) : \E x \in GroomComponents(w) : y.name = x.name
      BY <3>1
    <3> QED
      BY <3>2, <3>3 DEF Paired, Fades
  <2>3. CASE v.cells.groom_runs.kind = w.cells.groom_runs.kind /\ v.cells.groom_runs.kind # "absent"
    <3>1. GroomComponents(v) = GroomComponents(w)
      BY <1>2, <2>3 DEF GroomComponents, GroomCompletionRate, GroomWetPerCompletion,
         GroomCommentChurn, GroomLostChunks
    <3> QED
      BY <3>1 DEF Paired, Fades
  <2> QED
    BY <2>1, <2>2, <2>3
<1> DEFINE three(u) == {AgentLatency(u), StanceSourceProvenance(u), JudgeCalibration}
<1>8. Paired(three(w), three(v))
  <2>1. Fades(JudgeCalibration, JudgeCalibration)
    BY DEF Fades
  <2> QED
    BY <1>4, <1>5, <2>1 DEF Paired
<1>9. \A u : AgentRecords(u) = AgentBlocks(u) \cup three(u) \cup GroomComponents(u)
  BY DEF AgentRecords
<1> HIDE DEF three
<1> QED
  BY <1>6, <1>7, <1>8, <1>9, PairedUnion

LEMMA AgentUnread ==
  ASSUME NEW w, NEW v, Unread(w, v, AgentMaxAge), DOMAIN w.cells = DOMAIN AgentCells,
         \A a \in DOMAIN AgentCells : w.cells[a] \in AgentCells[a]
  PROVE  AgentRecords(v) = AgentRecords(w)
<1>1. DOMAIN w.cells = {"agent_quality", "signals", "groom_runs", "paused_lanes"}
  BY DEF AgentCells
<1>2. v.cells["groom_runs"] = w.cells["groom_runs"] /\ v.cells["paused_lanes"] = w.cells["paused_lanes"]
  <2>1. w.cells["groom_runs"].age = 0
    BY <1>1 DEF AgentCells, Exact
  <2>2. w.cells["paused_lanes"].age = 0
    <3>1. \A c \in AgentCells.paused_lanes : c.age = 0
      BY DEF AgentCells, Fresh
    <3> QED
      BY <1>1, <3>1
  <2> QED
    BY <1>1, <2>1, <2>2, BodyUnread DEF AgentMaxAge
<1>3. \A n, crit : Measured(v, n, crit) = Measured(w, n, crit)
  BY DEF Measured, Unread
<1>4. /\ Stale(v, "agent_quality", AgentMaxAge) = Stale(w, "agent_quality", AgentMaxAge)
      /\ Body(v, "agent_quality") = Body(w, "agent_quality")
  BY <1>1 DEF Unread, Body, Stale, AgentMaxAge, Lookback
<1>5. \A n, crit, kinds : OfAgentBlock(v, n, crit, kinds) = OfAgentBlock(w, n, crit, kinds)
  BY <1>3, <1>4 DEF OfAgentBlock
<1>6. AgentBlocks(v) = AgentBlocks(w) /\ AgentLatency(v) = AgentLatency(w)
  BY <1>5 DEF AgentBlocks, AgentLatency
<1>7. StanceSourceProvenance(v) = StanceSourceProvenance(w)
  BY <1>1, FromArtifactUnread DEF StanceSourceProvenance, AgentMaxAge
<1>8. GroomComponents(v) = GroomComponents(w)
  BY <1>2, <1>3 DEF GroomComponents, GroomAbsent, GroomCompletionRate, GroomWetPerCompletion,
     GroomCommentChurn, GroomLostChunks
<1> QED
  BY <1>6, <1>7, <1>8 DEF AgentRecords

-----------------------------------------------------------------------------
(* Behavioral, and the Director's own quality: nothing in them gates. *)

LEMMA BehavioralBears ==
  ASSUME NEW w
  PROVE  /\ IsFiniteSet(BehavioralRecords(w))
         /\ {r.name : r \in BehavioralRecords(w)} = BehavioralRoster
         /\ Weighed(BehavioralRecords(w), BehavioralRoster, {})
<1>1. IsFiniteSet(BehavioralRecords(w))
  BY FewAreFinite DEF BehavioralRecords
<1>2. Turnover(w).name = "turnover" /\ Turnover(w).criticality = "diagnostic"
  BY Bears DEF Turnover
<1>3. ASSUME NEW n, NEW crit
      PROVE  OfAnomaly(w, n, crit).name = n /\ OfAnomaly(w, n, crit).criticality = crit
  BY FromArtifactBears DEF OfAnomaly
<1> QED
  BY <1>1, <1>2, <1>3 DEF Weighed, BehavioralRecords, BehavioralRoster

LEMMA BehavioralFades ==
  ASSUME NEW w, NEW v, Loses(w, v), DOMAIN w.cells = DOMAIN BehavioralCells
  PROVE  Paired(BehavioralRecords(w), BehavioralRecords(v))
<1>1. DOMAIN w.cells = {"anomaly", "tripwire"}
  BY DEF BehavioralCells
<1>2. Fades(Turnover(w), Turnover(v))
  <2>1. v.cells.tripwire.kind = w.cells.tripwire.kind \/ v.cells.tripwire.kind \in Nothing
    BY <1>1 DEF Loses, Fainter
  <2>2. Measured(v, "turnover", "diagnostic") = Measured(w, "turnover", "diagnostic")
    BY DEF Measured, Loses
  <2>3. Turnover(v) = Turnover(w) \/ Turnover(v) = Missing("turnover", "diagnostic")
    BY <2>1, <2>2 DEF Turnover, Nothing
  <2>4. Turnover(w).name = "turnover" /\ Turnover(w).criticality = "diagnostic"
    BY Bears DEF Turnover
  <2> QED
    BY <2>3, <2>4, Bears, NothingRead DEF Fades
<1>3. ASSUME NEW n, NEW crit PROVE Fades(OfAnomaly(w, n, crit), OfAnomaly(v, n, crit))
  BY <1>1, FromArtifactFades DEF OfAnomaly, BehavioralMaxAge
<1> QED
  BY <1>2, <1>3 DEF Paired, BehavioralRecords

LEMMA BehavioralUnread ==
  ASSUME NEW w, NEW v, Unread(w, v, BehavioralMaxAge), DOMAIN w.cells = DOMAIN BehavioralCells,
         \A a \in DOMAIN BehavioralCells : w.cells[a] \in BehavioralCells[a]
  PROVE  BehavioralRecords(v) = BehavioralRecords(w)
<1>1. DOMAIN w.cells = {"anomaly", "tripwire"}
  BY DEF BehavioralCells
<1>2. v.cells["tripwire"] = w.cells["tripwire"]
  <2>1. w.cells["tripwire"].age = 0
    BY <1>1 DEF BehavioralCells, Exact
  <2> QED
    BY <1>1, <2>1, BodyUnread DEF BehavioralMaxAge
<1>3. Turnover(v) = Turnover(w)
  BY <1>2 DEF Turnover, Measured, Unread
<1>4. \A n, crit : OfAnomaly(v, n, crit) = OfAnomaly(w, n, crit)
  BY <1>1, FromArtifactUnread DEF OfAnomaly, BehavioralMaxAge
<1> QED
  BY <1>3, <1>4 DEF BehavioralRecords

\* The record of one retro grade.
GradeRecord(w, n) ==
  IF w.cells.retro_trend.kind = "full" THEN Measured(w, n, "supporting") ELSE Missing(n, "supporting")

LEMMA DirectorRecordsAre ==
  ASSUME NEW w
  PROVE  /\ DirectorRecords(w) = {GradeRecord(w, "director_grounding"), GradeRecord(w, "director_calibration"),
                                  GradeRecord(w, "director_actionability"), RouteDegraded(w)}
         /\ \A n : GradeRecord(w, n).name = n /\ GradeRecord(w, n).criticality = "supporting"
         /\ RouteDegraded(w).name = "director_route_degraded"
         /\ RouteDegraded(w).criticality = "supporting"
<1>1. DirectorRecords(w) = {GradeRecord(w, n) : n \in GradeNames} \cup {RouteDegraded(w)}
  BY DEF DirectorRecords, RetroGrades, GradeRecord
<1>2. DirectorRecords(w) = {GradeRecord(w, "director_grounding"), GradeRecord(w, "director_calibration"),
                            GradeRecord(w, "director_actionability"), RouteDegraded(w)}
  BY <1>1 DEF GradeNames
<1> QED
  BY <1>2, Bears DEF GradeRecord, RouteDegraded

LEMMA DirectorBears ==
  ASSUME NEW w
  PROVE  /\ IsFiniteSet(DirectorRecords(w))
         /\ {r.name : r \in DirectorRecords(w)} = DirectorRoster
         /\ Weighed(DirectorRecords(w), DirectorRoster, {})
<1>1. IsFiniteSet(DirectorRecords(w))
  <2>1. IsFiniteSet({GradeRecord(w, "director_grounding"), GradeRecord(w, "director_calibration"),
                     GradeRecord(w, "director_actionability"), RouteDegraded(w)})
    BY FourAreFinite
  <2> QED
    BY <2>1, DirectorRecordsAre
<1> QED
  BY <1>1, DirectorRecordsAre DEF Weighed, DirectorRoster, GradeNames

LEMMA DirectorFades ==
  ASSUME NEW w, NEW v, Loses(w, v), DOMAIN w.cells = DOMAIN DirectorCells
  PROVE  Paired(DirectorRecords(w), DirectorRecords(v))
<1>1. /\ v.cells.retro_trend.kind = w.cells.retro_trend.kind \/ v.cells.retro_trend.kind \in Nothing
      /\ v.cells.action_plan.kind = w.cells.action_plan.kind \/ v.cells.action_plan.kind \in Nothing
  BY DEF DirectorCells, Loses, Fainter
<1>2. \A n, crit : Measured(v, n, crit) = Measured(w, n, crit)
  BY DEF Measured, Loses
<1>3. /\ \A n : GradeRecord(v, n) = GradeRecord(w, n) \/ IsNA(GradeRecord(v, n))
      /\ RouteDegraded(v) = RouteDegraded(w) \/ IsNA(RouteDegraded(v))
  BY <1>1, <1>2, NothingRead DEF GradeRecord, RouteDegraded, Nothing
<1>4. /\ \A n : Fades(GradeRecord(w, n), GradeRecord(v, n))
      /\ Fades(RouteDegraded(w), RouteDegraded(v))
  BY <1>3, DirectorRecordsAre DEF Fades
<1> QED
  BY <1>4, DirectorRecordsAre DEF Paired

LEMMA DirectorUnread ==
  ASSUME NEW w, NEW v, Unread(w, v, Lookback), DOMAIN w.cells = DOMAIN DirectorCells,
         \A a \in DOMAIN DirectorCells : w.cells[a] \in DirectorCells[a]
  PROVE  DirectorRecords(v) = DirectorRecords(w)
<1>1. DOMAIN w.cells = {"retro_trend", "action_plan"}
  BY DEF DirectorCells
<1>2. \A a \in DOMAIN w.cells : v.cells[a] = w.cells[a]
  <2>1. \A a \in DOMAIN w.cells : w.cells[a].age = 0
    BY <1>1 DEF DirectorCells, Exact
  <2> QED
    BY <2>1, BodyUnread DEF Lookback
<1> QED
  BY <1>1, <1>2 DEF DirectorRecords, RetroGrades, RouteDegraded, Measured, Unread

-----------------------------------------------------------------------------
(* Contribution lift: its artifact brings the components. *)

\* Without one, everything is dark.
LEMMA LiftFades ==
  ASSUME NEW w, NEW v, Loses(w, v), DOMAIN w.cells = DOMAIN LiftCells,
         \A a \in DOMAIN LiftCells : v.cells[a] \in LiftCells[a]
  PROVE  LiftRecords(v) = LiftRecords(w) \/ \A r \in LiftRecords(v) : IsNA(r)
<1>1. DOMAIN w.cells = {"lift"}
  BY DEF LiftCells
<1>2. Body(v, "lift") = Body(w, "lift") \/ Body(v, "lift") \in Nothing
  BY <1>1, BodyFades, 0 \in Nat
<1>3. Body(v, "lift") \in {"absent", "notok", "partial", "full"}
  BY <1>1 DEF Body, LiftCells, Windowed
<1>4. CASE Body(v, "lift") = Body(w, "lift")
  BY <1>4 DEF LiftRecords, LiftComponents, Measured, Loses
<1>5. CASE Body(v, "lift") \in {"absent", "notok"}
  <2>1. LiftRecords(v) = LiftFallback
    BY <1>5 DEF LiftRecords
  <2> QED
    BY <2>1, NothingRead DEF LiftFallback, EvaluatorDeclared
<1> QED
  BY <1>2, <1>3, <1>4, <1>5 DEF Nothing

LEMMA LiftUnread ==
  ASSUME NEW w, NEW v, Unread(w, v, BacktesterMaxAge), DOMAIN w.cells = DOMAIN LiftCells
  PROVE  LiftRecords(v) = LiftRecords(w)
<1>1. DOMAIN w.cells = {"lift"}
  BY DEF LiftCells
<1>2. Body(v, "lift") = Body(w, "lift")
  BY <1>1 DEF Unread, Body, BacktesterMaxAge, Lookback
<1> QED
  BY <1>2 DEF LiftRecords, LiftComponents, Measured, Unread

LEMMA LiftIsFinite ==
  ASSUME NEW w
  PROVE  IsFiniteSet(LiftRecords(w)) /\ IsFiniteSet(LiftRoster)
<1>1. IsFiniteSet(LiftRoster)
  BY FourAreFinite DEF LiftRoster
<1>2. IsFiniteSet(LiftComponents(w))
  <2>1. LiftComponents(w) \subseteq {Measured(w, LiftCritical, "critical"), Accepted(LiftRetired, "diagnostic"),
                                     EvaluatorDeclared, Missing(LiftGap, "diagnostic")}
    BY DEF LiftComponents
  <2> QED
    BY <2>1, FourAreFinite, FS_Subset
<1>3. IsFiniteSet(LiftFallback)
  <2>1. LiftFallback \subseteq {Missing(LiftCritical, "diagnostic"), Missing(LiftRetired, "diagnostic"),
                                Missing(LiftGap, "diagnostic"), EvaluatorDeclared}
    BY DEF LiftFallback, LiftRoster
  <2> QED
    BY <2>1, FourAreFinite, FS_Subset
<1> QED
  BY <1>1, <1>2, <1>3 DEF LiftRecords

-----------------------------------------------------------------------------
(* Every tile. *)

\* The components that gate a tile.
Gating(t) ==
  CASE t = "research" -> ResearchCritical
    [] t = "backtester" -> BacktesterCritical
    [] t = "predictor" -> PredictorCritical
    [] t = "executor" -> ExecutorCritical
    [] t = "portfolio_outcome" -> OutcomeGating
    [] t = "substrate" -> SubstrateCritical
    [] t = "agent" -> AgentCritical
    [] OTHER -> {}

LEMMA NamesAreFinite ==
  ASSUME NEW records, IsFiniteSet(records)
  PROVE  IsFiniteSet({r.name : r \in records})
<1> DEFINE f == [r \in records |-> r.name]
<1>1. IsFiniteSet({f[r] : r \in records})
  <2>1. DOMAIN f = records
    OBVIOUS
  <2> HIDE DEF f
  <2> QED
    BY <2>1, FiniteImage
<1>2. {f[r] : r \in records} = {r.name : r \in records}
  OBVIOUS
<1> QED
  BY <1>1, <1>2

\* What every tile but contribution lift writes, whatever it finds: finitely
\* many records, of its roster, and those that gate among them.
LEMMA TileBears ==
  ASSUME NEW t \in AllTiles \ {"contribution_lift"}, NEW w
  PROVE  /\ IsFiniteSet(Records(t, w)) /\ IsFiniteSet(Roster[t])
         /\ Weighed(Records(t, w), Roster[t], Gating(t))
<1>1. CASE t = "research"
  BY <1>1, ResearchTileBears, NamesAreFinite DEF Records, Roster, Gating
<1>2. CASE t = "backtester"
  BY <1>2, BacktesterTileBears, NamesAreFinite DEF Records, Roster, Gating
<1>3. CASE t = "predictor"
  BY <1>3, PredictorTileBears DEF Records, Roster, Gating
<1>4. CASE t = "executor"
  BY <1>4, ExecutorTileBears, NamesAreFinite DEF Records, Roster, Gating
<1>5. CASE t = "portfolio_outcome"
  BY <1>5, OutcomeTileBears DEF Records, Roster, Gating
<1>6. CASE t = "substrate"
  BY <1>6, SubstrateTileBears, NamesAreFinite DEF Records, Roster, Gating
<1>7. CASE t = "agent"
  BY <1>7, AgentTileBears, NamesAreFinite DEF Records, Roster, Gating
<1>8. CASE t = "behavioral"
  BY <1>8, BehavioralBears, NamesAreFinite DEF Records, Roster, Gating
<1>9. CASE t = "director_quality"
  BY <1>9, DirectorBears, NamesAreFinite DEF Records, Roster, Gating
<1> QED
  BY <1>1, <1>2, <1>3, <1>4, <1>5, <1>6, <1>7, <1>8, <1>9 DEF AllTiles

\* A good week reports on its whole roster.
LEMMA GoodWeekReports ==
  ASSUME NEW t \in AllTiles \ {"contribution_lift"}
  PROVE  {r.name : r \in Records(t, GoodWorld(t))} = Roster[t]
<1> DEFINE w == GoodWorld(t)
<1>1. CASE t = "research"
  BY <1>1, ResearchTileBears DEF Records, Roster
<1>2. CASE t = "backtester"
  BY <1>2, BacktesterTileBears DEF Records, Roster
<1>3. CASE t = "predictor"
  <2>1. w.cells.latest = Fresh("full")
    <3>1. Cells[t] = PredictorCells
      BY <1>3 DEF Cells
    <3>2. "latest" \in DOMAIN PredictorCells /\ Fresh("full") \in PredictorCells["latest"]
      BY GoodCells DEF Whole, PredictorCells
    <3> QED
      BY <3>1, <3>2 DEF GoodWorld, Good
  <2>2. ~PredictorBlind(w)
    BY <2>1 DEF PredictorBlind, Fresh
  <2> QED
    BY <1>3, <2>2, PredictorTileBears DEF Records, Roster
<1>4. CASE t = "executor"
  BY <1>4, ExecutorTileBears DEF Records, Roster
<1>5. CASE t = "portfolio_outcome"
  <2>1. w.cells.eod_pnl = Fresh("full")
    <3>1. Cells[t] = OutcomeCells
      BY <1>5 DEF Cells
    <3>2. "eod_pnl" \in DOMAIN OutcomeCells /\ Fresh("full") \in OutcomeCells["eod_pnl"]
      BY GoodCells DEF Whole, OutcomeCells
    <3> QED
      BY <3>1, <3>2 DEF GoodWorld, Good
  <2>2. w.cells.eod_pnl.kind # "absent"
    BY <2>1 DEF Fresh
  <2> QED
    BY <1>5, <2>2, OutcomeTileBears DEF Records, Roster
<1>6. CASE t = "substrate"
  BY <1>6, SubstrateTileBears DEF Records, Roster
<1>7. CASE t = "agent"
  BY <1>7, AgentTileBears DEF Records, Roster
<1>8. CASE t = "behavioral"
  BY <1>8, BehavioralBears DEF Records, Roster
<1>9. CASE t = "director_quality"
  BY <1>9, DirectorBears DEF Records, Roster
<1> QED
  BY <1>1, <1>2, <1>3, <1>4, <1>5, <1>6, <1>7, <1>8, <1>9 DEF AllTiles

\* The components that gate a tile in a good week gate it in every week, but
\* for one that declares why not (CriticalKeepsItsWeight): neither a short
\* circuit of a builder nor a record it does not write makes one lighter.
THEOREM WeightIsKept == Spec => []CriticalKeepsItsWeight
<1>1. TilesInv => CriticalKeepsItsWeight
  <2> SUFFICES ASSUME TilesInv, tile # "contribution_lift",
                      NEW g \in Graded(tile, GoodWorld(tile)).components, g.criticality = "critical"
               PROVE  \E r \in built.components :
                        r.name = g.name /\ (r.criticality = "critical" \/ r.note = "declared")
    BY DEF CriticalKeepsItsWeight
  <2> DEFINE good == Records(tile, GoodWorld(tile))
             now == Records(tile, world)
             roster == Roster[tile]
  <2>1. /\ Graded(tile, GoodWorld(tile)).components = GradedAgainst(roster, good)
        /\ built.components = GradedAgainst(roster, now)
    BY DEF TilesInv, Graded, BuildTile
  <2>2. tile \in AllTiles \ {"contribution_lift"}
    BY DEF TilesInv
  <2>3. {r.name : r \in good} = roster
    BY <2>2, GoodWeekReports
  <2>4. Weighed(good, roster, Gating(tile)) /\ Weighed(now, roster, Gating(tile))
    BY <2>2, TileBears
  <2> HIDE DEF good, now, roster
  <2>5. g \in good
    BY <2>1, <2>3 DEF GradedAgainst
  <2>6. g.name \in Gating(tile) /\ g.name \in roster
    BY <2>4, <2>5 DEF Weighed
  <2>7. CASE \E r \in now : r.name = g.name
    BY <2>1, <2>4, <2>6, <2>7 DEF Weighed, Heavy, GradedAgainst
  <2>8. CASE \A r \in now : r.name # g.name
    <3>1. Unreported(g.name) \in built.components
      BY <2>1, <2>6, <2>8 DEF GradedAgainst
    <3> QED
      BY <3>1, Bears
  <2> QED
    BY <2>7, <2>8
<1> QED
  BY <1>1, TilesInvariant, PTL

\* No builder but Research's reads a body past its tile's declared age.
LEMMA TileUnread ==
  ASSUME NEW t \in AllTiles \ {"research"}, NEW w, NEW v, WorldOf(t, w), Unread(w, v, MaxAge[t])
  PROVE  Records(t, v) = Records(t, w)
<1>1. CASE t = "backtester"
  BY <1>1, BacktesterUnread DEF Records, WorldOf, Cells, MaxAge
<1>2. CASE t = "predictor"
  BY <1>2, PredictorUnread DEF Records, WorldOf, Cells, MaxAge
<1>3. CASE t = "executor"
  BY <1>3, ExecutorUnread DEF Records, WorldOf, Cells, MaxAge
<1>4. CASE t = "portfolio_outcome"
  BY <1>4, OutcomeUnread DEF Records, WorldOf, Cells, MaxAge
<1>5. CASE t = "substrate"
  BY <1>5, SubstrateUnread DEF Records, WorldOf, Cells, MaxAge
<1>6. CASE t = "agent"
  BY <1>6, AgentUnread DEF Records, WorldOf, Cells, MaxAge
<1>7. CASE t = "behavioral"
  BY <1>7, BehavioralUnread DEF Records, WorldOf, Cells, MaxAge
<1>8. CASE t = "director_quality"
  BY <1>8, DirectorUnread DEF Records, WorldOf, Cells, MaxAge
<1>9. CASE t = "contribution_lift"
  BY <1>9, LiftUnread DEF Records, WorldOf, Cells, MaxAge
<1> QED
  BY <1>1, <1>2, <1>3, <1>4, <1>5, <1>6, <1>7, <1>8, <1>9 DEF AllTiles

\* Nothing an artifact says once it is past its tile's declared age, or past
\* the walk-back, changes a verdict (StaleBodiesDoNotMatter), on any tile but
\* research (artifacts.artifact_is_stale and its callers).
THEOREM StaleBodiesSayNothing == Spec => []StaleBodiesDoNotMatter
<1>1. TilesInv => StaleBodiesDoNotMatter
  <2> SUFFICES ASSUME TilesInv, tile # "research", NEW a \in DOMAIN world.cells, TooOld(a),
                      NEW c \in Cells[tile][a], c.kind # "absent"
               PROVE  Verdicts([world EXCEPT !.cells[a].kind = c.kind]) = Verdicts(world)
    BY DEF StaleBodiesDoNotMatter, AgeIsRead
  <2> DEFINE v == [world EXCEPT !.cells[a].kind = c.kind]
  <2>1. tile \in AllTiles \ {"research"} /\ WorldOf(tile, world)
    BY DEF TilesInv
  <2>2. DOMAIN world = {"cells", "says"} /\ a \in DOMAIN Cells[tile] /\ world.cells[a] \in Cells[tile][a]
    BY <2>1 DEF WorldOf
  <2>3. /\ DOMAIN world.cells[a] = {"age", "kind"} /\ world.cells[a].age \in Nat
        /\ world.cells[a].kind = "absent" => world.cells[a].age = 0
    BY <2>1, <2>2, GoodIsACell DEF Dated
  <2>4. world.cells[a].age > MaxAge[tile] \/ world.cells[a].age > Lookback
    BY DEF TooOld
  <2>5. MaxAge[tile] \in Nat
    BY <2>1 DEF AllTiles, MaxAge, BacktesterMaxAge, PredictorMaxAge, ExecutorMaxAge, AgentMaxAge,
                BehavioralMaxAge, Lookback
  <2>6. world.cells[a].kind # "absent"
    BY <2>3, <2>4, <2>5 DEF Lookback
  <2>7. /\ v.says = world.says
        /\ \A b \in DOMAIN world.cells \ {a} : v.cells[b] = world.cells[b]
        /\ v.cells[a].age = world.cells[a].age /\ v.cells[a].kind = c.kind
    BY <2>2, <2>3
  <2> HIDE DEF v
  <2>8. Unread(world, v, MaxAge[tile])
    BY <2>3, <2>4, <2>6, <2>7 DEF Unread
  <2>9. Records(tile, v) = Records(tile, world)
    BY <2>1, <2>8, TileUnread
  <2>10. Verdicts(v) = Verdicts(world)
    BY <2>9 DEF Verdicts
  <2> QED
    BY <2>10 DEF v
<1> QED
  BY <1>1, TilesInvariant, PTL

\* Whatever inputs a tile loses, the records it is graded on fade.
LEMMA TileFades ==
  ASSUME NEW t \in AllTiles \ {"contribution_lift"}, NEW w, NEW v, WorldOf(t, w), WorldOf(t, v), Loses(w, v)
  PROVE  AllFade(GradedAgainst(Roster[t], Records(t, w)), GradedAgainst(Roster[t], Records(t, v)))
<1>1. CASE t = "research"
  BY <1>1, ResearchFades, PairedFade DEF Records, WorldOf, Cells
<1>2. CASE t = "backtester"
  BY <1>2, BacktesterFades, PairedFade DEF Records, WorldOf, Cells
<1>3. CASE t = "predictor"
  BY <1>3, PredictorFades DEF Records, WorldOf, Cells, Roster
<1>4. CASE t = "executor"
  BY <1>4, ExecutorFades, PairedFade DEF Records, WorldOf, Cells
<1>5. CASE t = "portfolio_outcome"
  BY <1>5, OutcomeFades DEF Records, WorldOf, Cells, Roster
<1>6. CASE t = "substrate"
  BY <1>6, SubstrateFades, PairedFade DEF Records, WorldOf, Cells
<1>7. CASE t = "agent"
  BY <1>7, AgentFades, PairedFade DEF Records, WorldOf, Cells
<1>8. CASE t = "behavioral"
  BY <1>8, BehavioralFades, PairedFade DEF Records, WorldOf, Cells
<1>9. CASE t = "director_quality"
  BY <1>9, DirectorFades, PairedFade DEF Records, WorldOf, Cells
<1> QED
  BY <1>1, <1>2, <1>3, <1>4, <1>5, <1>6, <1>7, <1>8, <1>9 DEF AllTiles

\* So a tile that turns GREEN with the loss had a supporting RED that is dark.
LEMMA LosingHides ==
  ASSUME NEW t \in AllTiles, NEW w, NEW v, WorldOf(t, w), WorldOf(t, v), Loses(w, v),
         Graded(t, w).status # "GREEN", Graded(t, v).status = "GREEN"
  PROVE  \E r \in Graded(t, w).components :
           /\ r.criticality = "supporting" /\ r.status = "RED"
           /\ \E s \in Graded(t, v).components : s.name = r.name /\ IsNA(s)
<1> DEFINE old == GradedAgainst(Roster[t], Records(t, w))
           new == GradedAgainst(Roster[t], Records(t, v))
<1>1. /\ Graded(t, w).components = old /\ Graded(t, w).status = ModuleStatus(old)
      /\ Graded(t, v).components = new /\ Graded(t, v).status = ModuleStatus(new)
  BY DEF Graded, BuildTile
<1>2. CASE t # "contribution_lift"
  <2>1. IsFiniteSet(old) /\ IsFiniteSet(new)
    BY <1>2, TileBears, GradedIsFinite
  <2>2. AllFade(old, new)
    BY <1>2, TileFades
  <2> HIDE DEF old, new
  <2> QED
    BY <1>1, <2>1, <2>2, FadingHides
<1>3. CASE t = "contribution_lift"
  <2>1. Records(t, w) = LiftRecords(w) /\ Records(t, v) = LiftRecords(v) /\ Roster[t] = LiftRoster
    BY <1>3 DEF Records, Roster
  <2>2. LiftRecords(v) = LiftRecords(w) \/ \A r \in LiftRecords(v) : IsNA(r)
    BY <1>3, LiftFades DEF WorldOf, Cells
  <2>3. \A r \in LiftRecords(v) : IsNA(r)
    BY <1>1, <2>1, <2>2
  <2>4. \A r \in new : IsNA(r)
    BY <2>1, <2>3, NothingRead DEF GradedAgainst
  <2>5. IsFiniteSet(new)
    BY <2>1, LiftIsFinite, GradedIsFinite
  <2> HIDE DEF new
  <2> QED
    BY <1>1, <2>4, <2>5, GreenSays
<1> QED
  BY <1>2, <1>3

\* Losing an input never turns a tile GREEN, but for one supporting RED that
\* goes dark with it (NoPassByLosingAnInput): on every one of the ten tiles, an
\* unmeasured critical holds module_agg.module_status at WATCH.
THEOREM LosingAnInputIsNoPass == Spec => NoPassByLosingAnInput
<1> DEFINE Passes == \A a \in DOMAIN world.cells :
                       Lost(a) /\ built.status # "GREEN" /\ built'.status = "GREEN" => HidesARed
<1>1. TilesInv /\ TilesInv' /\ [Next]_vars => [Passes]_vars
  <2> SUFFICES ASSUME TilesInv, TilesInv', [Next]_vars, NEW a \in DOMAIN world.cells, Lost(a),
                      built.status # "GREEN", built'.status = "GREEN", ~UNCHANGED vars
               PROVE  HidesARed
    OBVIOUS
  <2>1. PICK w, v, t : w = world /\ v = world' /\ t = tile
    OBVIOUS
  <2>2. tile' = tile
    BY DEF Next, Miss, Land, Turn, Finds
  <2>3. t \in AllTiles /\ WorldOf(t, w) /\ WorldOf(t, v)
    BY <2>1, <2>2 DEF TilesInv, WorldOf
  <2>4. built = Graded(t, w) /\ built' = Graded(t, v)
    BY <2>1, <2>2 DEF TilesInv, Graded, Records
  <2>5. /\ DOMAIN w = {"cells", "says"} /\ DOMAIN w.cells = DOMAIN Cells[t]
        /\ \A b \in DOMAIN w.cells : w.cells[b].age \in Nat /\ v.cells[b].age \in Nat
    BY <2>3, GoodIsACell DEF WorldOf, Dated
  <2>6. ASSUME NEW n, Turn(n) PROVE FALSE
    <3>1. PICK r : v = [w EXCEPT !.says[n] = r]
      BY <2>1, <2>6 DEF Turn, Finds
    <3>2. v.cells = w.cells
      BY <2>5, <3>1
    <3> QED
      BY <2>1, <2>5, <3>2 DEF Lost
  <2>7. ASSUME NEW b \in DOMAIN w.cells, NEW c \in Cells[t][b], v = [w EXCEPT !.cells[b] = c],
               Fainter(w.cells[b], c)
        PROVE  Loses(w, v)
    <3>1. /\ v.says = w.says /\ v.cells[b] = c
          /\ \A d \in DOMAIN w.cells \ {b} : v.cells[d] = w.cells[d]
      BY <2>5, <2>7
    <3> QED
      BY <2>5, <2>7, <3>1 DEF Loses, Fainter
  <2>8. ASSUME NEW b \in DOMAIN w.cells, Miss(b) PROVE Loses(w, v)
    <3>1. PICK c \in Cells[t][b] : /\ c.kind = w.cells[b].kind /\ c.age > w.cells[b].age
                                   /\ v = [w EXCEPT !.cells[b] = c]
      BY <2>1, <2>8 DEF Miss, Finds
    <3>2. c.age \in Nat
      BY <2>3, <2>5, GoodIsACell DEF Dated
    <3>3. Fainter(w.cells[b], c)
      BY <2>5, <3>1, <3>2 DEF Fainter
    <3> QED
      BY <2>7, <3>1, <3>3
  <2>9. ASSUME NEW b \in DOMAIN w.cells, Land(b) PROVE Loses(w, v)
    <3>1. PICK c \in Cells[t][b] : c.age = 0 /\ v = [w EXCEPT !.cells[b] = c]
      BY <2>1, <2>9 DEF Land, Finds
    <3>2. v.cells[b] = c /\ \A d \in DOMAIN w.cells \ {b} : v.cells[d] = w.cells[d]
      BY <2>5, <3>1
    <3>3. a = b
      BY <2>1, <2>5, <3>2 DEF Lost
    <3>4. c.kind \in Nothing
      BY <2>1, <2>5, <3>1, <3>2, <3>3 DEF Lost, Nothing
    <3> QED
      BY <2>7, <3>1, <3>4 DEF Fainter
  <2>10. Loses(w, v)
    BY <2>1, <2>5, <2>6, <2>8, <2>9 DEF Next
  <2>11. \E r \in Graded(t, w).components :
            /\ r.criticality = "supporting" /\ r.status = "RED"
            /\ \E s \in Graded(t, v).components : s.name = r.name /\ IsNA(s)
    BY <2>3, <2>4, <2>10, LosingHides
  <2> QED
    BY <2>4, <2>11 DEF HidesARed
<1> QED
  BY <1>1, TilesInvariant, PTL DEF Spec, NoPassByLosingAnInput

=============================================================================
