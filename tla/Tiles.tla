-------------------------------- MODULE Tiles --------------------------------
(***************************************************************************)
(* The tiles of the report card over a run of bad weeks.  Every artifact   *)
(* starts fresh and every component GREEN; then producers miss runs, land  *)
(* artifacts that lack something, recover, and the numbers of components   *)
(* turn.  After each of these the card is graded again, the way            *)
(* build_<tile>_tile and build_tile do (grading/tiles, module_agg.py).     *)
(***************************************************************************)
EXTENDS ResearchTile, BacktesterTile, PredictorTile, ExecutorTile, OutcomeTile, SubstrateTile, AgentTiles

CONSTANTS
  TileNames,  \* the tiles this instance grades
  MaxOff      \* bound: cells and readings away from the good week

AllTiles == {"research", "backtester", "predictor", "executor", "portfolio_outcome", "substrate",
             "agent", "behavioral", "director_quality", "contribution_lift"}

ASSUME TilesAssumption == TileNames \subseteq AllTiles /\ MaxOff \in Nat

VARIABLES
  tile,   \* the tile being graded
  world,  \* what it finds
  built   \* the tile the last card carries
vars == <<tile, world, built>>

Cells ==
  [research |-> ResearchCells, backtester |-> BacktesterCells, predictor |-> PredictorCells,
   executor |-> ExecutorCells, portfolio_outcome |-> OutcomeCells, substrate |-> SubstrateCells,
   agent |-> AgentCells, behavioral |-> BehavioralCells, director_quality |-> DirectorCells,
   contribution_lift |-> LiftCells]

Roster ==
  [research |-> ResearchRoster, backtester |-> BacktesterRoster, predictor |-> PredictorRoster,
   executor |-> ExecutorRoster, portfolio_outcome |-> OutcomeRoster, substrate |-> SubstrateRoster,
   agent |-> AgentRoster, behavioral |-> BehavioralRoster, director_quality |-> DirectorRoster,
   contribution_lift |-> LiftRoster]

\* The age each tile accepts of a dated artifact; exact keys have none.
MaxAge ==
  [research |-> ResearchMaxAge, backtester |-> BacktesterMaxAge, predictor |-> PredictorMaxAge,
   executor |-> ExecutorMaxAge, portfolio_outcome |-> Lookback, substrate |-> Lookback,
   agent |-> AgentMaxAge, behavioral |-> BehavioralMaxAge, director_quality |-> Lookback,
   contribution_lift |-> BacktesterMaxAge]

Records(t, w) ==
  CASE t = "research" -> ResearchRecords(w)
    [] t = "backtester" -> BacktesterRecords(w)
    [] t = "predictor" -> PredictorRecords(w)
    [] t = "executor" -> ExecutorRecords(w)
    [] t = "portfolio_outcome" -> OutcomeRecords(w)
    [] t = "substrate" -> SubstrateRecords(w)
    [] t = "agent" -> AgentRecords(w)
    [] t = "behavioral" -> BehavioralRecords(w)
    [] t = "director_quality" -> DirectorRecords(w)
    [] t = "contribution_lift" -> LiftRecords(w)

Graded(t, w) == BuildTile(Roster[t], Records(t, w))

(* --------------------------- what the weeks bring ------------------------ *)

Good(t, a) == IF Fresh("full") \in Cells[t][a] THEN Fresh("full") ELSE Fresh("running")
GoodWorld(t) == [cells |-> [a \in DOMAIN Cells[t] |-> Good(t, a)], says |-> [n \in Roster[t] |-> "GREEN"]]

Off(w) == Cardinality({a \in DOMAIN w.cells : w.cells[a] # Good(tile, a)})
            + Cardinality({n \in DOMAIN w.says : w.says[n] # "GREEN"})

CanTurn(n) == (IF n \in WithInterval THEN WideReadings ELSE Readings) \ {"GREEN"}

\* The next run finds w, and grades it.
Finds(w) ==
  /\ Off(w) <= MaxOff
  /\ world' = w
  /\ built' = Graded(tile, w)
  /\ UNCHANGED tile

\* The producer of a dated artifact misses its run: what there is gets older.
Miss(a) ==
  LET older == {c \in Cells[tile][a] : c.kind = world.cells[a].kind /\ c.age > world.cells[a].age}
  IN  \E c \in older : /\ \A d \in older : c.age <= d.age
                       /\ Finds([world EXCEPT !.cells[a] = c])

\* A producer lands something today, whole or not, or its key is cleared.
Land(a) ==
  \E c \in Cells[tile][a] :
    /\ c.age = 0
    /\ c # world.cells[a]
    /\ c = Good(tile, a) \/ world.cells[a] = Good(tile, a)
    /\ Finds([world EXCEPT !.cells[a] = c])

Turn(n) ==
  /\ world.says[n] = "GREEN"
  /\ \E r \in CanTurn(n) : Finds([world EXCEPT !.says[n] = r])

Init ==
  /\ tile \in TileNames
  /\ world = GoodWorld(tile)
  /\ built = Graded(tile, world)

Next == \/ \E a \in DOMAIN Cells[tile] : Miss(a) \/ Land(a)
        \/ \E n \in Roster[tile] : Turn(n)

Spec == Init /\ [][Next]_vars

(* ------------------------------- properties ------------------------------ *)

Lost(a) ==
  LET had == world.cells[a]
      has == world'.cells[a]
      nothing == {"absent", "denied", "unreadable", "unmeasured"}
  IN  had.age < has.age \/ (has.kind \in nothing /\ had.kind \notin nothing)

\* A supporting component that was RED has lost its reading.
HidesARed ==
  \E r \in built.components :
    /\ r.criticality = "supporting" /\ r.status = "RED"
    /\ \E s \in built'.components : s.name = r.name /\ IsNA(s)

\* Losing an input never turns a tile GREEN, but for one supporting RED that
\* goes dark with it: an unmeasured critical holds the tile at WATCH
\* (module_agg.module_status, over what every builder emits for a missing,
\* stale or unreadable artifact).
NoPassByLosingAnInput ==
  [][\A a \in DOMAIN world.cells :
       Lost(a) /\ built.status # "GREEN" /\ built'.status = "GREEN" => HidesARed]_vars

\* What the tile says of each component, without the wording.
Verdicts(w) == {[name |-> r.name, crit |-> r.criticality, status |-> r.status] : r \in Records(tile, w)}

TooOld(a) == world.cells[a].age > MaxAge[tile] \/ world.cells[a].age > Lookback

AgeIsRead ==
  \A a \in DOMAIN world.cells : TooOld(a) =>
    \A c \in Cells[tile][a] :
      c.kind # "absent" => Verdicts([world EXCEPT !.cells[a].kind = c.kind]) = Verdicts(world)

\* Nothing an artifact says once it is past the tile's declared age, or past
\* the walk-back, changes a single verdict: it cannot pass for this week's
\* (artifacts.artifact_is_stale and its callers).
StaleBodiesDoNotMatter == tile # "research" => AgeIsRead

\* The same of the Research tile, which declares RESEARCH_ARTIFACT_MAX_AGE_DAYS
\* and computes e2e_stale (research.py).
StaleResearchDoesNotMatter == tile = "research" => AgeIsRead

\* The components that gate the tile in a good week still do in any other,
\* unless a record declares why not: neither a short circuit nor a missing
\* record makes a critical component lighter.  Contribution lift takes its
\* components from the artifact and is left out.
CriticalKeepsItsWeight ==
  tile # "contribution_lift" =>
    \A g \in Graded(tile, GoodWorld(tile)).components :
      g.criticality = "critical" =>
        \E r \in built.components : r.name = g.name /\ (r.criticality = "critical" \/ r.note = "declared")

\* The Portfolio Outcome tile is RED exactly when a critical component it could
\* measure is red, by its point estimate or by a bad bound with the target out of
\* reach: the power downgrade lifts the RED of an interval that spans both bars
\* before the tile rolls up, and hides no other (power.annotate_power).
RedUnlessSpanning ==
  tile = "portfolio_outcome" =>
    (built.status = "RED") =
      (\E r \in built.components :
         /\ r.criticality = "critical" /\ ~IsNA(r)
         /\ world.says[r.name] \in {"RED", "RED-IN", "RED-OUT"})
=============================================================================
