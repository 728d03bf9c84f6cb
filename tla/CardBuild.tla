------------------------------ MODULE CardBuild ------------------------------
(***************************************************************************)
(* One build of the report card (grading/aggregate.py build_report_card):  *)
(* the freshness preflight judges the gated inputs, the scorecard inputs   *)
(* are read, the tiles are built by a thread pool, and the card is put     *)
(* together from the tiles, the composite and the census of components.    *)
(*                                                                         *)
(* A world is what the week left behind.  Starting from a week in which    *)
(* everything went well, the action Week changes up to MaxOff things in    *)
(* it; then one build runs, to a published card or to a failure.  What the *)
(* tiles make of their artifacts is the modules of Tiles: here a world     *)
(* says what each component came to and whether its builder raised.        *)
(***************************************************************************)
EXTENDS Sequences, TileRecords, Scorecard

CONSTANTS
  Declared,   \* the card's tiles in build order (registry.yaml card.tiles)
  Roster,     \* Roster[t]: the components tile t is obliged to render
  Critical,   \* the critical components; the others are supporting
  Cascade,    \* the tiles whose RED cascades
  GateOrder,  \* the gated inputs in order (GATED_ARTIFACT_IDS)
  Cadence,    \* the cadence the registry declares for each
  Low, High,  \* the levels a component's values come to
  MaxOff      \* bound: things that differ from the good week

Tiles == {Declared[k] : k \in DOMAIN Declared}
Gated == {GateOrder[k] : k \in DOMAIN GateOrder}
Self == "evaluator_coverage"
DeclaredComponents == UNION {Roster[t] : t \in Tiles}

\* What parse_card reconciles, that a component has one tile, and that the tile
\* of the coverage record does not cascade.
ASSUME CardAssumption ==
  /\ Declared \in Seq(Tiles) /\ {"portfolio_outcome", "backtester"} \subseteq Tiles
  /\ DOMAIN Roster = Tiles /\ IsFiniteSet(DeclaredComponents)
  /\ \A t, u \in Tiles : t # u => Roster[t] \cap Roster[u] = {}
  /\ Self \in Roster["backtester"] \cap Critical /\ Critical \subseteq DeclaredComponents
  /\ Cascade \subseteq Tiles \ {"backtester"}
  /\ GateOrder \in Seq(Gated) /\ DOMAIN Cadence = Gated
  /\ Low \in Nat /\ High \in Nat /\ 1 < Low /\ Low < High /\ MaxOff \in Nat

VARIABLES
  world,    \* what the week left behind
  off,      \* how many things in it differ from the good week
  pc,       \* where the build is
  checked,  \* the preflight's verdict per gated input so far
  tiles,    \* the tiles the pool has resolved; one of status "raised" is none
  card      \* the published card
vars == <<world, off, pc, checked, tiles, card>>

(* ---------------------------------- the week ----------------------------- *)

\* A gated input: written today, in the run's week, before it; without a date
\* of its own; not there; not parsable; not readable.
GateCells(a) ==
  CASE a \in {"backtest_e2e_lift", "research_signals"} ->
         {"today", "thisweek", "old", "absent", "denied"}
           \cup (IF a = "research_signals" THEN {"unparsable"} ELSE {})
    [] a = "eod_reconcile_pnl" -> {"today", "old", "undated", "absent", "denied"}
    [] OTHER -> {"today", "old", "undated", "absent", "unparsable", "denied"}

Outcomes == {"GREEN", "WATCH", "RED", "N/A-MISSING-INPUT", "stale", "declared", "dropped"}
Landed == ScoreArtifacts \ {"metrics", "e2e_lift"}

GoodWeek ==
  [mode |-> "real", registry |-> "ok", recadenced |-> "none", reads |-> "ok", slot |-> "ok",
   census |-> "ok", verdict |-> "PASS", builders |-> Tiles, raises |-> {},
   gate |-> [a \in Gated |-> "today"],
   art |-> [a \in Landed |-> IF a \in {"cio_lift", "team_lift"} THEN "retired" ELSE "full"],
   level |-> [n \in Leaves |-> High],
   says |-> [c \in DeclaredComponents |-> "GREEN"]]

\* The worlds one change away: in the run itself, in its inputs, in its tiles.
RunChanges ==
  {[world EXCEPT !.mode = m] : m \in {"dry", "rehearsal"}}
    \cup {[world EXCEPT !.registry = "unreadable"], [world EXCEPT !.reads = "denied"],
          [world EXCEPT !.slot = "raises"], [world EXCEPT !.census = "raises"],
          [world EXCEPT !.verdict = "UNKNOWN"]}
    \cup {[world EXCEPT !.recadenced = a] : a \in Gated}
InputChanges ==
  {[world EXCEPT !.level[n] = Low] : n \in Leaves}
    \cup (UNION {{[world EXCEPT !.gate[a] = c] : c \in GateCells(a)} : a \in Gated})
    \cup (UNION {{[world EXCEPT !.art[a] = k] : k \in ArtifactKinds(a)} : a \in Landed})
TileChanges ==
  {[world EXCEPT !.builders = @ \ {t}] : t \in Tiles}
    \cup {[world EXCEPT !.builders = @ \cup {"stray"}]}
    \cup {[world EXCEPT !.raises = @ \cup {t}] : t \in Tiles}
    \cup {[world EXCEPT !.says[c] = o] : c \in DeclaredComponents, o \in Outcomes}
Changed == RunChanges \cup InputChanges \cup TileChanges

Week ==
  /\ pc = "week" /\ off < MaxOff
  /\ \E w \in Changed \ {world} : world' = w
  /\ off' = off + 1
  /\ UNCHANGED <<pc, checked, tiles, card>>

(* -------------------------------- preflight ------------------------------ *)

\* _assert_in_window under the declared cadence.
InWindow(a, cell) ==
  CASE Cadence[a] = "weekly" -> cell \in {"today", "thisweek", "unparsable"}
    [] Cadence[a] = "daily" -> cell = "today"
    [] Cadence[a] = "event_driven" -> TRUE

\* The check functions.  research_signals is found by HEAD, whatever its body.
Finding(a) ==
  LET cell == world.gate[a]
  IN  CASE cell = "denied" -> "unreadable"
        [] cell = "unparsable" /\ a # "research_signals" -> "unreadable"
        [] cell \in {"absent", "undated"} -> "missing"
        [] world.recadenced = a /\ cell \notin {"denied", "absent", "undated"} -> "unreadable"
        [] OTHER -> IF InWindow(a, cell) THEN "ok" ELSE "stale"

\* Variant: whatever goes wrong with a check is a finding about its input.
AbsorbedOfAny(finding) ==
  IF world.mode = "dry" THEN "UNMEASURED"
  ELSE IF world.mode = "rehearsal" THEN "DEGRADED_REHEARSAL" ELSE "raise"

\* Only a missing or stale input is absorbed, and never in a real run.
Absorbed(finding) ==
  CASE finding = "unreadable" -> "raise"
    [] finding # "unreadable" /\ world.mode = "dry" -> "UNMEASURED"
    [] finding # "unreadable" /\ world.mode = "rehearsal" -> "DEGRADED_REHEARSAL"
    [] OTHER -> "raise"

Start ==
  /\ pc = "week"
  /\ pc' = "registry"
  /\ UNCHANGED <<world, off, checked, tiles, card>>

\* load_specs, before any check and never absorbed.
LoadSpecs ==
  /\ pc = "registry"
  /\ pc' = IF world.registry = "ok" THEN "gate" ELSE "failed"
  /\ UNCHANGED <<world, off, checked, tiles, card>>

CheckInput ==
  /\ pc = "gate" /\ Len(checked) < Len(GateOrder)
  /\ LET finding == Finding(GateOrder[Len(checked) + 1])
         status == IF finding = "ok" THEN "ok" ELSE Absorbed(finding)
     IN  IF status = "raise" THEN pc' = "failed" /\ UNCHANGED checked
         ELSE checked' = Append(checked, status) /\ UNCHANGED pc
  /\ UNCHANGED <<world, off, tiles, card>>

\* ------------------------------- the inputs -------------------------------

\* read_scorecard_inputs: an absent key is recorded, a failing read raises.
\* The scorecard reads the run's own dated keys only.
ReadInputs ==
  /\ pc = "gate" /\ Len(checked) = Len(GateOrder)
  /\ pc' = IF world.reads = "ok" THEN "slot" ELSE "failed"
  /\ UNCHANGED <<world, off, checked, tiles, card>>

Inputs ==
  [a \in ScoreArtifacts |->
     CASE a = "metrics" -> IF world.gate["backtest_metrics"] = "absent" THEN "absent" ELSE "full"
       [] a = "e2e_lift" -> IF world.gate["backtest_e2e_lift"] = "today" THEN "full" ELSE "absent"
       [] OTHER -> world.art[a]]

\* The threshold slot's scoring and the trial count fail soft.
ScoreSlot ==
  /\ pc = "slot"
  /\ pc' = "submit"
  /\ UNCHANGED <<world, off, checked, tiles, card>>

\* --------------------------------- the tiles ------------------------------

\* resolve_tile_builders: a builder for a tile nobody declared raises.
Submit ==
  /\ pc = "submit"
  /\ pc' = IF world.builders \subseteq Tiles THEN "pool" ELSE "failed"
  /\ UNCHANGED <<world, off, checked, tiles, card>>

CritOf(c) == IF c \in Critical THEN "critical" ELSE "supporting"

Rendered(c) ==
  CASE world.says[c] = "stale" -> MissingStale(c, CritOf(c))
    [] world.says[c] = "declared" -> Accepted(c, CritOf(c))
    [] OTHER -> Stated(c, CritOf(c), world.says[c])

\* A declared tile without a builder renders its roster unreported.
Emitted(t) ==
  IF t \in world.builders THEN {Rendered(c) : c \in {d \in Roster[t] : world.says[d] # "dropped"}} ELSE {}

\* One worker of the pool finishes; the tiles share no state.
BuildOne(t) ==
  /\ pc = "pool" /\ t \notin DOMAIN tiles
  /\ LET result == IF t \in world.raises \cap world.builders THEN [status |-> "raised"]
                   ELSE BuildTile(Roster[t], Emitted(t))
     IN  tiles' = [u \in DOMAIN tiles \cup {t} |-> IF u = t THEN result ELSE tiles[u]]
  /\ UNCHANGED <<world, off, pc, checked, card>>

Raised == {t \in DOMAIN tiles : tiles[t].status = "raised"}

\* Variant: a tile that raised is rendered without a record.
ResolveSurvivors ==
  /\ pc = "pool" /\ DOMAIN tiles = Tiles
  /\ pc' = "grade"
  /\ tiles' = [t \in Tiles |-> IF t \in Raised THEN BuildTile(Roster[t], {}) ELSE tiles[t]]
  /\ UNCHANGED <<world, off, checked, card>>

\* The pool has joined: any tile that raised fails the card.
Resolve ==
  /\ pc = "pool" /\ DOMAIN tiles = Tiles
  /\ pc' = IF Raised = {} THEN "grade" ELSE "failed"
  /\ UNCHANGED <<world, off, checked, tiles, card>>

(* ---------------------------------- the card ----------------------------- *)

\* module_agg.overall_status over the statuses s of the tiles on the card.
OverallStatus(s) ==
  LET lead == "portfolio_outcome"
  IN  CASE \A t \in DOMAIN s : Dark(s[t]) -> "N/A-NOT-RUN"
        [] \E t \in DOMAIN s : t \in Cascade \cup {lead} /\ s[t] = "RED" -> "RED"
        [] OTHER ->
             IF \/ lead \notin DOMAIN s
                \/ s[lead] = "WATCH" \/ Dark(s[lead])
                \/ Cardinality({t \in DOMAIN s : s[t] = "WATCH"}) >= 2
                \/ \E t \in Cascade \cap DOMAIN s : Dark(s[t])
             THEN "WATCH" ELSE "GREEN"

\* _component_score: a RED scores, low; a failure would score 0.
ScoreOf(r) == CASE r.status = "GREEN" -> High
                [] r.status = "WATCH" -> Low
                [] r.status = "RED" -> 1

\* The tile's numeric grade, the mean over what was measured; without one, the
\* class its status comes to, never that of a failure.
OutcomeVoter(t) ==
  LET scored == {r \in t.components : ~IsNA(r) /\ r.criticality # "diagnostic"}
      why == CASE t.status \in {"N/A-MISSING-INPUT", "N/A-NOT-RUN"} -> "input_absent"
               [] t.status = "N/A-LOW-N" -> "insufficient_data"
               [] t.status = "N/A-NOT-IMPL" -> "not_implemented"
               [] OTHER -> "unknown"
  IN  IF scored = {} THEN NotGradedBecause(why)
      ELSE [graded |-> TRUE, skip |-> "none", den |-> Cardinality(scored),
            num |-> SumFunction([r \in scored |-> ScoreOf(r)])]

\* The records a set of tiles renders; stubs of unreported components are not.
RecordsOn(ts) == {r \in UNION {ts[t].components : t \in DOMAIN ts} : r.status # "N/A-UNREPORTED"}

\* Variant: the denominator is what was rendered.
CensusOfRendered(ts) ==
  LET records == {r \in RecordsOn(ts) : r.name # Self}
      counted == {r \in records : r.note # "declared"}
  IN  [graded |-> Cardinality({r \in counted : ~IsNA(r)}), total |-> Cardinality(counted),
       unreported |-> DeclaredComponents \ ({r.name : r \in records} \cup {Self})]

\* card_component_census: the denominator is the declared roster, less what a
\* rendered record declares out.
Census(ts) ==
  LET records == {r \in RecordsOn(ts) : r.name # Self}
      out == {r.name : r \in {x \in records : x.note = "declared"}}
  IN  [graded |-> Cardinality({r \in records : ~IsNA(r) /\ r.name \notin out}),
       total |-> Cardinality((DeclaredComponents \cup {r.name : r \in records}) \ (out \cup {Self})),
       unreported |-> DeclaredComponents \ ({r.name : r \in records} \cup {Self})]

\* Target 95 percent, red line 80.
CoverageRecord(census) ==
  IF census.total = 0 THEN Missing(Self, "critical")
  ELSE Stated(Self, "critical",
              CASE 100 * census.graded >= 95 * census.total -> "GREEN"
                [] 100 * census.graded < 80 * census.total -> "RED"
                [] OTHER -> "WATCH")

\* The tile with its coverage record replaced, and its grade derived again from
\* the other records and the voting one.  n_graded and unreported keep what the
\* builder's list came to.
WithRecord(tile, record, voting) ==
  LET others == {r \in tile.components : r.name # Self /\ r.status # "N/A-UNREPORTED"}
      rebuilt == BuildTile(Roster["backtester"], others \cup voting)
  IN  [tile EXCEPT !.components = {r \in rebuilt.components : r.name # Self} \cup {record},
                   !.status = rebuilt.status, !.n_components = rebuilt.n_components]

Counted(tile, ts) ==
  LET record == CoverageRecord(Census(ts)) IN WithRecord(tile, record, {record})

\* A census that raised leaves a visible N/A; in the place of an unreported stub
\* it does not vote.
MarkUnmeasured(tile) ==
  LET record == Missing(Self, "critical")
  IN  WithRecord(tile, record, IF Self \in tile.unreported THEN {} ELSE {record})

\* Variant: the tile keeps the status its builder gave it.
ReplacedOnlyTheRecord(ts) ==
  [ts EXCEPT !["backtester"] =
     [IF world.census = "ok" THEN Counted(@, ts) ELSE MarkUnmeasured(@) EXCEPT !.status = ts["backtester"].status]]

ReplaceEvaluatorCoverage(ts) ==
  [ts EXCEPT !["backtester"] = IF world.census = "ok" THEN Counted(@, ts) ELSE MarkUnmeasured(@)]

\* stamp_composite_scope: complete over its voters is not complete over the card.
ScopedQualifier(qualifier, ts) ==
  CASE world.census # "ok" -> "SCOPE-UNKNOWN"
    [] world.census = "ok" /\ qualifier = "COMPLETE" /\ ~(DOMAIN ts \subseteq Voters) -> "PARTIAL-SCOPE"
    [] OTHER -> qualifier

CardOf(in, ts) ==
  LET outcome == ts["portfolio_outcome"]
      score == ComputeScorecard(in, world.level, OutcomeVoter(outcome),
                                outcome.n_graded = outcome.n_components)
      final == ReplaceEvaluatorCoverage(ts)
      census == Census(ts)
      attested == world.verdict = "PASS"
  IN  [status |-> IF score.status = "ok" /\ ~attested THEN "partial" ELSE score.status,
       degraded_attestation |-> ~attested,
       score |-> score,
       qualifier |-> ScopedQualifier(score.coverage.qualifier, final),
       tiles |-> final,
       tiles_overall_status |-> OverallStatus([t \in DOMAIN final |-> final[t].status]),
       tiles_unmeasured |-> {t \in DOMAIN final : Dark(final[t].status)},
       degraded_component_census |-> world.census # "ok" \/ census.unreported # {},
       stale_tiles |-> {t \in DOMAIN final : \E r \in final[t].components : r.note = "stale"},
       leaderboard |-> world.slot]

Grade ==
  /\ pc = "grade"
  /\ card' = CardOf(Inputs, tiles)
  /\ pc' = "published"
  /\ UNCHANGED <<world, off, checked, tiles>>

NoCard == [status |-> "none"]

Init ==
  /\ world = GoodWeek /\ off = 0 /\ pc = "week"
  /\ checked = <<>> /\ tiles = << >> /\ card = NoCard

Next ==
  \/ Week \/ Start \/ LoadSpecs \/ CheckInput \/ ReadInputs \/ ScoreSlot \/ Submit
  \/ \E t \in Tiles : BuildOne(t)
  \/ Resolve \/ Grade

Spec == Init /\ [][Next]_vars

(* -------------------------------- properties ----------------------------- *)

Published == pc = "published"

\* A GREEN card is earned by every tile that could have said otherwise: each
\* builder returned, the outcome's critical components were all measured and
\* good, and no cascade tile is RED or dark.  A tile whose builder raised
\* cannot leave the card GREEN by leaving it (aggregate.py, module_agg.py).
GreenIsEarned ==
  Published /\ card.tiles_overall_status = "GREEN" =>
    /\ world.raises \cap world.builders = {}
    /\ \A c \in Roster["portfolio_outcome"] \cap Critical : world.says[c] = "GREEN"
    /\ \A t \in Cascade : /\ t \in world.builders
                          /\ \A c \in Roster[t] \cap Critical : world.says[c] # "RED"
                          /\ \E c \in Roster[t] : world.says[c] \in {"GREEN", "WATCH", "RED"}

Without(ts, names) ==
  [t \in DOMAIN ts |-> [ts[t] EXCEPT !.components = {r \in @ : r.name \notin names}]]

NoHigher(new, old) == new.graded * old.total <= old.graded * new.total

\* Losing a record, or a whole tile's, never raises the coverage the card
\* publishes: the denominator does not shrink with what reported
\* (coverage.card_component_census).
CoverageNeverRisesByLosing ==
  Published /\ world.census = "ok" =>
    \A lost \in {{c} : c \in DeclaredComponents} \cup {Roster[t] : t \in Tiles} :
      Census(card.tiles).total > 0 => NoHigher(Census(Without(card.tiles, lost)), Census(card.tiles))

\* The coverage record speaks of the card it is on, and its tile's status takes
\* it into account, or both say that nothing was measured; when the census
\* failed there is no number and the card says so
\* (coverage.replace_evaluator_coverage).
CoverageIsOfThisCard ==
  Published =>
    LET backtester == card.tiles["backtester"]
        record == CHOOSE r \in backtester.components : r.name = Self
        derived == ModuleStatus(backtester.components)
    IN  /\ backtester.status = derived \/ (Dark(backtester.status) /\ Dark(derived))
        /\ IF world.census = "ok" THEN record = CoverageRecord(Census(card.tiles))
           ELSE IsNA(record) /\ card.degraded_component_census

\* Every card rests on inputs the preflight judged: in a real run each of them
\* in its window, in a dry run or a rehearsal missing or stale ones recorded as
\* such.  No mode builds a card over an input that could not be read or under
\* rules that could not be loaded (freshness_preflight.assert_input_freshness).
CardRestsOnJudgedInputs ==
  Published =>
    /\ world.registry = "ok" /\ world.reads = "ok"
    /\ \A k \in DOMAIN GateOrder :
         LET a == GateOrder[k]
             window == /\ world.gate[a] \notin {"absent", "undated", "denied"}
                       /\ InWindow(a, world.gate[a])
         IN  /\ world.gate[a] # "denied" /\ (window => world.recadenced # a)
             /\ IF window THEN checked[k] = "ok" ELSE world.mode # "real" /\ checked[k] # "ok"

\* What becomes of the composite if the producer of a had failed instead.
Failing(a) ==
  ComputeScorecard([Inputs EXCEPT ![a] = "failed"], world.level,
                   OutcomeVoter(card.tiles["portfolio_outcome"]),
                   card.tiles["portfolio_outcome"].n_graded = card.tiles["portfolio_outcome"].n_components)

NoBetter(new, old) ==
  AtMost(new.overall, old.overall) /\ \A m \in Modules : AtMost(new.modules[m], old.modules[m])

\* The artifacts whose status their grader reads.
StatusIsRead ==
  {"macro_eval", "veto_result", "trigger_scorecard", "shadow_book", "exit_timing", "sizing_ab",
   "excursion_summary", "action_entropy"}

\* Had a producer reported a failure instead of its result, neither its module
\* nor the headline would be graded higher, and the headline's coverage would
\* name the failure (scorecard.RENORMALIZATION_RULE).
ReportedFailureCounts ==
  Published =>
    \A a \in StatusIsRead :
      Inputs[a] \in {"bare", "full"} =>
        /\ NoBetter(Failing(a), card.score)
        /\ Failing(a).coverage.failed # {}
        /\ Failing(a).coverage.qualifier = "PARTIAL-FAILURE-SCORED-ZERO"

\* The same of every producer the scorecard reads: "the grade can never rise
\* because the system broke" (scorecard.RENORMALIZATION_RULE).
FailureNeverRaises ==
  Published =>
    \A a \in {b \in Landed : "failed" \in ArtifactKinds(b)} :
      Inputs[a] \in {"bare", "full"} => NoBetter(Failing(a), card.score)
=============================================================================
