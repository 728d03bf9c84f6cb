---------------------------- MODULE MC_CardBuild ----------------------------
(***************************************************************************)
(* A card of four tiles with one or two components each, one of them       *)
(* cascading; the component weights of research and executor are those of  *)
(* thresholds/registry.yaml, the others rounded to stay small.             *)
(***************************************************************************)
EXTENDS CardBuild

MCDeclared == <<"portfolio_outcome", "research", "backtester", "agent">>
MCRoster ==
  [portfolio_outcome |-> {"sharpe_ratio", "hit_rate_daily"},
   research |-> {"research_composite_ic", "cio"},
   backtester |-> {"evaluator_coverage", "grading_freshness"},
   agent |-> {"agent_latency_p95"}]
MCCritical ==
  {"sharpe_ratio", "research_composite_ic", "evaluator_coverage", "grading_freshness"}
MCCascade == {"research"}

MCGateOrder ==
  <<"backtest_metrics", "backtest_e2e_lift", "predictor_meta_weights_manifest", "research_signals",
    "eod_reconcile_pnl">>
MCCadence ==
  [backtest_metrics |-> "weekly", backtest_e2e_lift |-> "weekly",
   predictor_meta_weights_manifest |-> "event_driven", research_signals |-> "weekly",
   eod_reconcile_pnl |-> "daily"]

MCWeight ==
  [research |-> [scanner |-> 2, macro_agent |-> 2, composite_scoring |-> 4, calibration_diagnostics |-> 3],
   predictor |-> [meta_model |-> 1, veto_gate |-> 1],
   executor |-> [entry_triggers |-> 2, risk_guard |-> 3, exit_rules |-> 3, position_sizing |-> 2,
                 portfolio |-> 5, excursion |-> 3, action_entropy |-> 2]]
MCOverallWeight == [portfolio_outcome |-> 4, research |-> 2, predictor |-> 1, executor |-> 1]
=============================================================================
