----------------------------- MODULE OutcomeTile -----------------------------
(***************************************************************************)
(* The Portfolio Outcome tile (grading/tiles/portfolio_outcome.py): the    *)
(* end-of-day P&L export and what is joined to it, the model zoo's PBO,    *)
(* and the power downgrade (grading/power.py) applied before the roll-up.  *)
(*                                                                         *)
(* leaderboard kinds: "few_splits" and "few_specs" are below the declared  *)
(* floors, "dominant" had one winner in every split, "over" misses the     *)
(* declared bar.                                                           *)
(***************************************************************************)
EXTENDS TileRecords

OutcomeCells ==
  [eod_pnl |-> Exact({"full"}),
   trial_count |-> Exact({"full"}),
   leaderboard |-> Exact({"notok", "few_splits", "few_specs", "dominant", "over", "full"}),
   regimes |-> Exact({"one_regime", "full"}),
   attribution |-> Exact({"full"})]

OutcomeRoster ==
  {"sharpe_ratio", "information_ratio", "psr", "alpha_vs_spy", "max_drawdown", "sortino_ratio",
   "calmar_ratio", "cvar_95_daily", "hit_rate_daily", "beta_vs_spy", "max_dd_duration_days", "dsr",
   "pbo", "regime_weighted_alpha", "alpha_trend", "attribution_residual_pct_of_active",
   "bf_selection_effect", "active_return_ex_index_sleeve", "beta_adjusted_alpha"}

\* Components with an interval, whose bad bound can make them RED.
WithInterval == {"sharpe_ratio", "information_ratio", "sortino_ratio", "cvar_95_daily", "hit_rate_daily"}

OutcomeCritical == {"sharpe_ratio", "information_ratio", "psr", "alpha_vs_spy", "max_drawdown"}

\* Without the export: one record for each of nine components, and no other.
AbsentBattery ==
  {Missing(n, "critical") : n \in OutcomeCritical}
    \cup {Missing(n, "supporting") : n \in {"sortino_ratio", "calmar_ratio", "cvar_95_daily"}}
    \cup {Missing("alpha_trend", "diagnostic")}

CriticalBattery(w) == {Measured(w, n, "critical") : n \in OutcomeCritical}

SupportingBattery(w) ==
  {Measured(w, n, "supporting") : n \in {"sortino_ratio", "calmar_ratio", "cvar_95_daily"}}

DiagnosticBattery(w) ==
  {Measured(w, n, "diagnostic") : n \in {"hit_rate_daily", "beta_vs_spy", "max_dd_duration_days"}}

\* The deflated Sharpe needs the trials the deployed configuration was picked
\* from.
Dsr(w) ==
  IF w.cells.trial_count.kind = "full" THEN Measured(w, "dsr", "supporting") ELSE NotImpl("dsr", "supporting")

\* The floors bind before the dominance downgrade, and that before the bar; no
\* red line is declared, so it is never RED.
Pbo(w) ==
  CASE w.cells.leaderboard.kind = "absent" -> NotImpl("pbo", "supporting")
    [] w.cells.leaderboard.kind \in {"notok", "few_splits", "few_specs"} -> LowN("pbo", "supporting")
    [] w.cells.leaderboard.kind \in {"dominant", "over"} -> Stated("pbo", "supporting", "WATCH")
    [] OTHER -> Stated("pbo", "supporting", "GREEN")

\* Not decomposed unless two regimes have enough days each.
RegimeWeightedAlpha(w) ==
  IF w.cells.regimes.kind = "full" THEN Measured(w, "regime_weighted_alpha", "critical")
  ELSE Missing("regime_weighted_alpha", "critical")

AlphaTrend(w) == Measured(w, "alpha_trend", "diagnostic")

\* Any failure to build the attribution makes all four absent together.
AttributionBattery(w) ==
  LET of(n, crit) == IF w.cells.attribution.kind = "full" THEN Measured(w, n, crit) ELSE Missing(n, crit)
  IN  {of("attribution_residual_pct_of_active", "diagnostic"), of("bf_selection_effect", "supporting"),
       of("active_return_ex_index_sleeve", "supporting"), of("beta_adjusted_alpha", "supporting")}

\* target_inside_ci and _red_is_ci_driven, of a RED.
TargetInside(r) == r.note \in {"RED-IN", "RED-CI"}
RedIsCiDriven(r) == r.note \in {"RED-CI", "RED-OUT"}

\* Variant: the target is not looked for in the interval.
AnnotateAnyBound(records) ==
  {IF r.status = "RED" /\ RedIsCiDriven(r) THEN [r EXCEPT !.status = "WATCH"] ELSE r : r \in records}

\* annotate_power: a RED of the bad bound alone, of an interval that holds the
\* target, is WATCH before the tile rolls its records up; every other stands.
AnnotatePower(records) ==
  {IF r.status = "RED" /\ TargetInside(r) /\ RedIsCiDriven(r) THEN [r EXCEPT !.status = "WATCH"]
   ELSE r : r \in records}

OutcomeRecords(w) ==
  IF w.cells.eod_pnl.kind = "absent" THEN AnnotatePower(AbsentBattery \cup {Pbo(w)})
  ELSE AnnotatePower(CriticalBattery(w) \cup SupportingBattery(w) \cup DiagnosticBattery(w)
                       \cup {Dsr(w), Pbo(w), RegimeWeightedAlpha(w), AlphaTrend(w)}
                       \cup AttributionBattery(w))
=============================================================================
