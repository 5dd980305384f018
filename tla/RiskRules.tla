----------------------------- MODULE RiskRules -----------------------------
(***************************************************************************)
(* The guardrails of backend/app/domain/risk_rules.py as operators on an   *)
(* order intent, a policy and a paper risk state.                          *)
(*                                                                         *)
(* Exposures and positions are counted in 1/20 of a TX contract (one TMF), *)
(* the price band in percent.  A price of 0 is a price that is not given.  *)
(***************************************************************************)
EXTENDS Integers

\* RiskPolicy, with limits for these contracts
RiskPolicy(contracts) ==
  [ trading_mode : STRING, live_trading_enabled : BOOLEAN,
    broker_provider : STRING, max_exposure : Int, stale_quote : Int,
    price_band_pct : Nat,
    max_order_size : [contracts -> Int],
    margin_per_exposure : Nat, max_margin : Nat, max_daily_loss : Int,
    max_position : Nat, kill_switch_active : BOOLEAN,
    broker_heartbeat_healthy : BOOLEAN ]

Abs(x) == IF x < 0 THEN -x ELSE x

\* _is_price_reasonable
PriceReasonable(intent, policy) ==
  \/ intent.order_price = 0 \/ intent.reference_price = 0
  \/ Abs(intent.order_price - intent.reference_price) * 100
       <= intent.reference_price * policy.price_band_pct

\* _projected_position
ProjectedPosition(intent, state) ==
  IF intent.side = "BUY"
    THEN state.current_position + intent.exposure
    ELSE state.current_position - intent.exposure

\* The largest order the policy takes in a contract; 0 if it has no entry.
MaxContractSize(intent, policy) ==
  IF intent.symbol \in DOMAIN policy.max_order_size
    THEN policy.max_order_size[intent.symbol] ELSE 0

\* Mutation: the comparison is the wrong way round.
BelowExposureLimit(intent, policy) == intent.exposure >= policy.max_exposure

WithinExposure(intent, policy) == intent.exposure <= policy.max_exposure

\* The checks of evaluate_paper_order, by name.
Checks(intent, policy, state) ==
  [ LIVE_TRADING_DISABLED |->
      ~ policy.live_trading_enabled /\ policy.trading_mode = "paper",
    PAPER_BROKER_ONLY |-> policy.broker_provider = "paper",
    IDEMPOTENCY_KEY_PRESENT |-> intent.idempotency_key # "",
    PAPER_ONLY_INTENT |-> intent.paper_only,
    MAX_EXPOSURE |-> WithinExposure(intent, policy),
    STALE_QUOTE |-> intent.quote_age <= policy.stale_quote,
    PRICE_REASONABILITY |-> PriceReasonable(intent, policy),
    MAX_ORDER_SIZE_BY_CONTRACT |->
      /\ MaxContractSize(intent, policy) > 0
      /\ intent.quantity <= MaxContractSize(intent, policy),
    MARGIN_PROXY |->
      intent.exposure * policy.margin_per_exposure <= policy.max_margin,
    DUPLICATE_ORDER_PREVENTION |->
      intent.idempotency_key \notin state.seen_idempotency_keys,
    DAILY_LOSS_LIMIT |-> state.daily_realized_loss < policy.max_daily_loss,
    POSITION_LIMIT |->
      Abs(ProjectedPosition(intent, state)) <= policy.max_position,
    KILL_SWITCH |-> ~ state.kill_switch_active /\ ~ policy.kill_switch_active,
    BROKER_HEARTBEAT |->
      state.broker_heartbeat_healthy /\ policy.broker_heartbeat_healthy ]

\* evaluate_paper_order(...).approved
Approved(intent, policy, state) ==
  LET checks == Checks(intent, policy, state) IN
    \A name \in DOMAIN checks : checks[name]

\* new_paper_risk_state
NewRiskState ==
  [ seen_idempotency_keys |-> {}, daily_realized_loss |-> 0,
    current_position |-> 0, kill_switch_active |-> FALSE,
    broker_heartbeat_healthy |-> TRUE ]

=============================================================================
