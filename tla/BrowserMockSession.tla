------------------------ MODULE BrowserMockSession ------------------------
(***************************************************************************)
(* The demo session of frontend/app/components/browserOnlyMockRuntime.ts:  *)
(* a visitor advances the market, runs the strategy, simulates orders and  *)
(* resets, in any order.  The panel calls one of the four functions per    *)
(* click and replaces the session by its result.                           *)
(*                                                                         *)
(* The market data of a session are those of its tick.  Amounts of money   *)
(* are hundredths of a TWD.                                                *)
(***************************************************************************)
EXTENDS BrowserMockMarket, OrderStateMachine

CONSTANTS
  Quantities,   \* quantities the visitor may type
  MaxTick,      \* bound on current_tick
  MaxOrders     \* bound on the orders of a session

ConstantsAssumption ==
  /\ Quantities \subseteq Nat
  /\ MaxTick \in Nat
  /\ MaxOrders \in Nat

VARIABLES
  current_tick,
  selected_symbol,
  latest_signal,   \* its direction
  latest_order,
  portfolio,
  performance

vars == <<current_tick, selected_symbol, latest_signal, latest_order,
          portfolio, performance>>

None == "none"
NoPrice == 0

MaxTxEquivalentExposure == 5
StartingCashTwd == 100000000

EmptyPortfolio ==
  [ symbol |-> None, position_contracts |-> 0, average_price |-> NoPrice,
    mark_price |-> NoPrice, tx_equivalent_position |-> 0,
    unrealized_pnl_twd |-> 0, equity_twd |-> StartingCashTwd ]

EmptyPerformance ==
  [ simulated_orders |-> 0, simulated_fills |-> 0, simulated_rejects |-> 0,
    simulated_partial_fills |-> 0, unrealized_pnl_twd |-> 0,
    equity_twd |-> StartingCashTwd ]

NoOrder == [simulation_outcome |-> None]

-----------------------------------------------------------------------------
\* The strategy and the risk checks

\* directionFromSnapshot
DirectionFromSnapshot(snapshot) ==
  CASE snapshot.change_points > 200  -> "LONG"
    [] snapshot.change_points < -200 -> "SHORT"
    [] OTHER                         -> "FLAT"

\* The checks of evaluateRisk that can fail.
RiskApproved(snapshot, symbol, quantity, direction) ==
  /\ direction # "FLAT"
  /\ quantity <= [TX |-> 1, MTX |-> 4, TMF |-> 20][symbol]
  /\ TxEquivalentRatio[symbol] * quantity <= MaxTxEquivalentExposure
  /\ snapshot.quote_age_seconds <= 3
  /\ snapshot.ask - snapshot.bid <= [TX |-> 500, MTX |-> 300, TMF |-> 200][symbol]

-----------------------------------------------------------------------------
\* The fill model

Available(snapshot, side) ==
  IF side = "BUY" THEN snapshot.ask_size ELSE snapshot.bid_size

\* Mutation: all that is quoted is taken.
FillQuantityAvailable(snapshot, side, quantity) ==
  IF snapshot.market_regime \in {"stale_quote", "illiquid"} THEN 0
  ELSE Available(snapshot, side)

\* Mutation: an illiquid market trades.
FillQuantityIlliquid(snapshot, side, quantity) ==
  IF quantity <= Available(snapshot, side) THEN quantity
  ELSE Available(snapshot, side)

\* The size that trades, 0 if simulateFill rejects the order.
FillQuantity(snapshot, side, quantity) ==
  IF \/ snapshot.market_regime \in {"stale_quote", "illiquid"}
     \/ snapshot.quote_age_seconds > 3
     \/ snapshot.liquidity_score < 20 THEN 0
  ELSE IF quantity <= Available(snapshot, side) THEN quantity
  ELSE Available(snapshot, side)

FillPrice(snapshot, side) ==
  IF side = "BUY" THEN snapshot.ask + snapshot.slippage_points_estimate
  ELSE snapshot.bid - snapshot.slippage_points_estimate

\* simulateFill, and the order that simulateBrowserOnlyPaperOrder makes of it
Order(symbol, direction, quantity) ==
  LET snapshot == MarketSnapshot(symbol, current_tick)
      side == IF direction = "SHORT" THEN "SELL" ELSE "BUY"
      approved == RiskApproved(snapshot, symbol, quantity, direction)
      filled == IF approved THEN FillQuantity(snapshot, side, quantity) ELSE 0 IN
    [ symbol |-> symbol, side |-> side, quantity |-> quantity,
      tick |-> current_tick, risk_approved |-> approved,
      simulation_outcome |->
        CASE filled <= 0       -> "REJECTED"
          [] filled = quantity -> "FILLED"
          [] OTHER             -> "PARTIALLY_FILLED",
      simulated_fill_quantity |-> filled,
      simulated_fill_price |->
        IF filled <= 0 THEN NoPrice ELSE FillPrice(snapshot, side),
      remaining_quantity |-> quantity - filled ]

\* Mutation: the gateway fills what it has not accepted.
OmsTimelineUnaccepted(order) ==
  <<"PENDING", "RISK_CHECKED", "SUBMITTED", order.simulation_outcome>>

\* buildOmsTimeline: the statuses of the events of an order.  The event of the
\* risk check comes before its verdict.
OmsTimeline(order) ==
  <<"PENDING", "RISK_CHECKED">>
    \o (IF order.risk_approved THEN <<"SUBMITTED", "ACCEPTED">> ELSE <<>>)
    \o <<order.simulation_outcome>>

-----------------------------------------------------------------------------
\* The portfolio

Abs(x) == IF x < 0 THEN -x ELSE x

\* The quotient, rounded half up, of integers with a positive divisor.
Rounded(a, b) == (2 * a + b) \div (2 * b)

\* markPortfolio, with the last price of the portfolio's symbol
Mark(p, last) ==
  IF p.symbol = None \/ p.average_price = NoPrice
    THEN [p EXCEPT !.unrealized_pnl_twd = 0, !.equity_twd = StartingCashTwd]
    ELSE LET unrealized == (last - p.average_price) * p.position_contracts
                             * PointValueTwd[p.symbol] IN
           [p EXCEPT !.mark_price = last, !.unrealized_pnl_twd = unrealized,
                     !.equity_twd = StartingCashTwd + unrealized]

SameSide(a, b) == (a > 0 /\ b > 0) \/ (a < 0 /\ b < 0)

SignedQuantity(order) ==
  IF order.side = "BUY" THEN order.simulated_fill_quantity
  ELSE -order.simulated_fill_quantity

NextAveragePrice(p, order, nextPosition) ==
  IF nextPosition = 0 THEN NoPrice
  ELSE IF /\ p.average_price # NoPrice
          /\ SameSide(p.position_contracts, nextPosition)
    THEN Rounded(p.average_price * Abs(p.position_contracts)
                   + order.simulated_fill_price * Abs(SignedQuantity(order)),
                 Abs(nextPosition))
  ELSE order.simulated_fill_price

\* What markPortfolio finds in a list with the one snapshot of an order: the
\* price of another symbol is looked up at tick 0.
LastPriceFromOrder(p, order) ==
  LastPriceForTick(p.symbol, IF p.symbol = order.symbol THEN order.tick ELSE 0)

NothingFilled(order) == order.simulated_fill_quantity <= 0

\* applyOrderToPortfolio
ApplyOrderToPortfolio(p, order) ==
  IF NothingFilled(order)
    THEN IF p.symbol = None THEN p ELSE Mark(p, LastPriceFromOrder(p, order))
    ELSE LET nextPosition == p.position_contracts + SignedQuantity(order)
             last == LastPriceForTick(order.symbol, order.tick) IN
           Mark([p EXCEPT
                   !.symbol = order.symbol,
                   !.position_contracts = nextPosition,
                   !.tx_equivalent_position =
                     nextPosition * TxEquivalentRatio[order.symbol],
                   !.average_price = NextAveragePrice(p, order, nextPosition),
                   !.mark_price = last],
                last)

OneIf(outcome, order) == IF order.simulation_outcome = outcome THEN 1 ELSE 0

\* performanceFromOrder
PerformanceFromOrder(previous, order, p) ==
  [ simulated_orders |-> previous.simulated_orders + 1,
    simulated_fills |-> previous.simulated_fills + OneIf("FILLED", order),
    simulated_rejects |-> previous.simulated_rejects + OneIf("REJECTED", order),
    simulated_partial_fills |->
      previous.simulated_partial_fills + OneIf("PARTIALLY_FILLED", order),
    unrealized_pnl_twd |-> p.unrealized_pnl_twd,
    equity_twd |-> p.equity_twd ]

-----------------------------------------------------------------------------

\* createInitialBrowserOnlyMockSession
Init ==
  /\ current_tick = 0
  /\ selected_symbol = "TMF"
  /\ latest_signal = None
  /\ latest_order = NoOrder
  /\ portfolio = EmptyPortfolio
  /\ performance = EmptyPerformance

\* advanceBrowserOnlyMockTick
AdvanceTick ==
  /\ current_tick < MaxTick
  /\ current_tick' = current_tick + 1
  /\ portfolio' =
       IF portfolio.symbol = None THEN portfolio
       ELSE Mark(portfolio, LastPriceForTick(portfolio.symbol, current_tick'))
  /\ performance' =
       [performance EXCEPT
          !.unrealized_pnl_twd = portfolio'.unrealized_pnl_twd,
          !.equity_twd = portfolio'.equity_twd]
  /\ UNCHANGED <<selected_symbol, latest_signal, latest_order>>

\* runBrowserOnlyMockStrategy
RunStrategy(symbol) ==
  /\ selected_symbol' = symbol
  /\ latest_signal' =
       DirectionFromSnapshot(MarketSnapshot(symbol, current_tick))
  /\ UNCHANGED <<current_tick, latest_order, portfolio, performance>>

\* What is not in 1..20 is moved there; nothing typed counts as 0, and 0 as 1.
BoundedQuantity(quantity) ==
  IF quantity = 0 THEN 1 ELSE IF quantity > 20 THEN 20 ELSE quantity

\* simulateBrowserOnlyPaperOrder: the signal at hand is used if the symbol is
\* still selected, however old it is; otherwise the strategy runs first.
SimulateOrder(symbol, quantity) ==
  LET direction ==
        IF selected_symbol = symbol /\ latest_signal # None THEN latest_signal
        ELSE DirectionFromSnapshot(MarketSnapshot(symbol, current_tick))
      order == Order(symbol, direction, BoundedQuantity(quantity)) IN
    /\ performance.simulated_orders < MaxOrders
    /\ selected_symbol' = symbol
    /\ latest_signal' = direction
    /\ latest_order' = order
    /\ portfolio' = ApplyOrderToPortfolio(portfolio, order)
    /\ performance' = PerformanceFromOrder(performance, order, portfolio')
    /\ UNCHANGED current_tick

\* resetBrowserOnlyMockSession
Reset ==
  /\ current_tick' = 0
  /\ selected_symbol' = "TMF"
  /\ latest_signal' = None
  /\ latest_order' = NoOrder
  /\ portfolio' = EmptyPortfolio
  /\ performance' = EmptyPerformance

Next ==
  \/ AdvanceTick
  \/ \E symbol \in BrowserMockSymbol : RunStrategy(symbol)
  \/ \E symbol \in BrowserMockSymbol, quantity \in Quantities :
       SimulateOrder(symbol, quantity)
  \/ Reset

Spec == Init /\ [][Next]_vars

-----------------------------------------------------------------------------
\* What the panels show of a session, for the symbol that is selected

LookbackTicks == 12

\* Mutation: the order is shown under any symbol.
LatestOrderOfAny(symbol) == latest_order

LatestOrderOf(symbol) ==
  IF latest_order # NoOrder /\ latest_order.symbol = symbol THEN latest_order
  ELSE NoOrder

\* buildBrowserOnlyVisualizationData
BrowserOnlyVisualizationData(symbol) ==
  LET startTick ==
        IF current_tick < LookbackTicks THEN 0
        ELSE current_tick - LookbackTicks + 1 IN
    [ price_path |->
        [ i \in 1..(current_tick - startTick + 1) |->
            MarketSnapshot(symbol, startTick + i - 1) ],
      latest_snapshot |-> MarketSnapshot(symbol, current_tick),
      latest_order |-> LatestOrderOf(symbol) ]

Quality(snapshot) ==
  [ spread |-> snapshot.ask - snapshot.bid,
    liquidity_score |-> snapshot.liquidity_score,
    quote_age_seconds |-> snapshot.quote_age_seconds,
    slippage |-> snapshot.slippage_points_estimate ]

\* buildMarketRealism: an order keeps the quality of the quote it met.
MarketRealism(order) == Quality(MarketSnapshot(order.symbol, order.tick))

\* The prices, the quality of the last quote, and how far the order was filled.
BrowserOnlyMockVisualizationPanel(symbol) ==
  LET data == BrowserOnlyVisualizationData(symbol)
      order == data.latest_order IN
    [ prices |-> [i \in DOMAIN data.price_path |-> data.price_path[i].last],
      quality |-> Quality(data.latest_snapshot),
      outcome |-> order.simulation_outcome,
      filled |-> IF order = NoOrder THEN 0 ELSE order.simulated_fill_quantity,
      remaining |-> IF order = NoOrder THEN 0 ELSE order.remaining_quantity ]

\* The regimes, the quality of the quote the order met, or else of the last
\* one, and the outcome with its reason.
MarketRealismVisualizationPanel(symbol) ==
  LET data == BrowserOnlyVisualizationData(symbol)
      order == data.latest_order IN
    [ regimes |->
        [i \in DOMAIN data.price_path |-> data.price_path[i].market_regime],
      quality |-> IF order = NoOrder THEN Quality(data.latest_snapshot)
                  ELSE MarketRealism(order),
      outcome |-> order.simulation_outcome,
      refused |-> order # NoOrder /\ ~order.risk_approved,
      filled |-> IF order = NoOrder THEN 0 ELSE order.simulated_fill_quantity ]

-----------------------------------------------------------------------------

TypeOK ==
  /\ current_tick \in 0..MaxTick
  /\ selected_symbol \in BrowserMockSymbol
  /\ latest_signal \in {None, "LONG", "SHORT", "FLAT"}
  /\ \/ latest_order = NoOrder
     \/ latest_order \in
          [ symbol : BrowserMockSymbol, side : {"BUY", "SELL"},
            quantity : 1..20, risk_approved : BOOLEAN, tick : 0..MaxTick,
            simulation_outcome : {"FILLED", "PARTIALLY_FILLED", "REJECTED"},
            simulated_fill_quantity : Nat, simulated_fill_price : Nat,
            remaining_quantity : Nat ]
  /\ portfolio \in
       [ symbol : BrowserMockSymbol \cup {None}, position_contracts : Int,
         average_price : Nat, mark_price : Nat, tx_equivalent_position : Int,
         unrealized_pnl_twd : Int, equity_twd : Int ]
  /\ performance \in
       [ simulated_orders : 0..MaxOrders, simulated_fills : 0..MaxOrders,
         simulated_rejects : 0..MaxOrders,
         simulated_partial_fills : 0..MaxOrders,
         unrealized_pnl_twd : Int, equity_twd : Int ]

(***************************************************************************)
(* The average price of a position (docs/browser-only-mock-demo-           *)
(* runtime.md:178) lies between a lowest and a highest price at which the  *)
(* session could trade up to now.  It does not hold: an order that reduces *)
(* a position adds its value to that of the position, and the sum is       *)
(* divided by what is left.                                                *)
(***************************************************************************)
AverageIsAmongPrices ==
  LET prices ==
        { FillPrice(MarketSnapshot(symbol, tick), side) :
            symbol \in BrowserMockSymbol, tick \in 0..current_tick,
            side \in {"BUY", "SELL"} } IN
    portfolio.position_contracts # 0 =>
      \E low, high \in prices :
        low <= portfolio.average_price /\ portfolio.average_price <= high

(***************************************************************************)
(* The fill model is conservative (docs/browser-only-mock-demo-runtime.md: *)
(* 211-219): whatever signal an order was placed on, it only trades on a   *)
(* fresh and liquid quote, within the exposure limit, at the touch or      *)
(* worse.                                                                  *)
(***************************************************************************)
FillsAreConservative ==
  latest_order.simulation_outcome \in {"FILLED", "PARTIALLY_FILLED"} =>
    LET order == latest_order
        snapshot == MarketSnapshot(order.symbol, order.tick) IN
      /\ snapshot.market_regime \notin {"stale_quote", "illiquid"}
      /\ snapshot.quote_age_seconds <= 3
      /\ order.quantity * TxEquivalentRatio[order.symbol]
           <= MaxTxEquivalentExposure
      /\ IF order.side = "BUY"
           THEN order.simulated_fill_price >= snapshot.ask
           ELSE order.simulated_fill_price <= snapshot.bid

(***************************************************************************)
(* "Explains spread, liquidity, quote age, slippage, and fill reason so    *)
(* users can understand why a paper order filled, partially filled, or     *)
(* rejected" (docs/customer-interactive-demo-trial.md:120): whatever the   *)
(* visitor selects and however far the market has moved since, an order    *)
(* that is shown with a fresh and liquid quote and no refusal has traded,  *)
(* and no other; what it traded is what the panel next to it shows; and    *)
(* quality is never shown that the selected symbol has not had.            *)
(***************************************************************************)
OutcomeIsExplained ==
  \A symbol \in BrowserMockSymbol :
    LET realism == MarketRealismVisualizationPanel(symbol)
        chart == BrowserOnlyMockVisualizationPanel(symbol) IN
      /\ \/ realism.quality = chart.quality
         \/ \E tick \in 0..current_tick :
              realism.quality = Quality(MarketSnapshot(symbol, tick))
      /\ realism.outcome # None =>
           (realism.filled > 0 <=>
              /\ ~realism.refused
              /\ realism.quality.quote_age_seconds <= 3
              /\ realism.quality.liquidity_score >= 20)
      /\ chart.outcome = realism.outcome /\ chart.filled = realism.filled
      /\ chart.remaining > 0 <=>
           realism.outcome \in {"PARTIALLY_FILLED", "REJECTED"}

(***************************************************************************)
(* The runtime has an OMS of its own.  The statuses it shows of an order   *)
(* are a path through the transition table of the backend's OMS (whose NEW *)
(* is called PENDING here), and only an order that traded ends as filled.  *)
(***************************************************************************)
TimelineIsLegal ==
  latest_order # NoOrder =>
    LET timeline == OmsTimeline(latest_order)
        Status(s) == IF s = "PENDING" THEN "NEW" ELSE s IN
      /\ \A i \in 1..(Len(timeline) - 1) :
           \E event \in OrderEventType \ {"MARK_UNKNOWN"} :
             /\ CanApply(Status(timeline[i]), event)
             /\ EVENT_TARGET_STATUS[event] = timeline[i + 1]
      /\ timeline[Len(timeline)] \in {"FILLED", "PARTIALLY_FILLED"} <=>
           latest_order.simulated_fill_quantity > 0

=============================================================================
