-------------------------- MODULE MCPaperWorkflow --------------------------
(***************************************************************************)
(* Values for model checking PaperWorkflow.                                *)
(***************************************************************************)
EXTENDS PaperWorkflow

\* Both sides of the spread limit and of every limit price; crossed quotes
\* too.
Models ==
  [ snapshot : [ symbol : {"TMF"}, bid : {10, 12}, ask : {11, 12, 14},
                 bid_size : {0, 2}, ask_size : {0, 2, 4},
                 quote_age : {0, 4}, score : {0, 4, 5} ],
    type : {"LIMIT"}, limit : {11, 12}, max_spread : {2},
    stale_quote : {3} ]
  \cup
  [ snapshot : [ symbol : {"TMF", "TX"}, bid : {10}, ask : {11, 13},
                 bid_size : {1}, ask_size : {0, 1, 3, 4},
                 quote_age : {0}, score : {1, 4, 5, 10} ],
    type : {"MARKET"}, limit : {0}, max_spread : {2},
    stale_quote : {3} ]

\* A quantity of 3 at a score of 4 tenths is worth one contract.
Simulated ==
  [ symbol : {"TMF"}, direction : {"LONG", "SHORT"}, quantity : {1, 3},
    exposure : {5}, quote_age : {0}, approved : {TRUE},
    outcome : {"acknowledge"}, model : Models ]

\* Requests that name the outcome, some of them too big, too old, FLAT or
\* without approval.
Named ==
  [ symbol : {"TMF", "TX"}, direction : {"LONG", "SHORT", "FLAT"},
    quantity : {1, 2}, exposure : {0, 5, 6}, quote_age : {0, 3, 4},
    approved : BOOLEAN, outcome : BrokerOutcome, model : {None} ]

AllRequests == Simulated \cup Named

\* Default settings, looser ones, and settings that may not trade at all.
AllPolicies ==
  [ trading_mode : {"paper"}, live_trading_enabled : {FALSE},
    broker_provider : {"paper"}, max_exposure : {5, 6},
    stale_quote : {3, 4}, price_band_pct : {2},
    max_order_size : {[TX |-> 1, MTX |-> 4, TMF |-> 20]},
    margin_per_exposure : {10000}, max_margin : {50000},
    max_daily_loss : {0, 5000}, max_position : {5},
    kill_switch_active : {FALSE}, broker_heartbeat_healthy : {TRUE} ]
  \cup
  [ trading_mode : {"paper"}, live_trading_enabled : {TRUE},
    broker_provider : {"paper"}, max_exposure : {5}, stale_quote : {3},
    price_band_pct : {2},
    max_order_size : {[TX |-> 1, MTX |-> 4, TMF |-> 20]},
    margin_per_exposure : {10000}, max_margin : {50000},
    max_daily_loss : {5000}, max_position : {5},
    kill_switch_active : {FALSE}, broker_heartbeat_healthy : {TRUE} ]

=============================================================================
