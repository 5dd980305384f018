------------------------- MODULE BrowserDemoProofs -------------------------
(***************************************************************************)
(* Proofs about the browser-only demo as a part of the Command Center, for *)
(* any quantities, ticks and number of orders, and the types of all parts. *)
(*                                                                         *)
(* The quotes are bounded by arithmetic on their table; what is known of   *)
(* an order is carried through the session, its copy in localStorage and   *)
(* the copy that is being restored.                                        *)
(***************************************************************************)
EXTENDS CommandCenterProofs, FiniteSetTheorems

-----------------------------------------------------------------------------
(* Quotes *)

Regimes == {"normal", "trending", "volatile", "illiquid", "stale_quote"}
LEMMA RegimeTyped ==
  ASSUME NEW t \in Nat
  PROVE  Demo!MarketRegimeForTick(t) \in Regimes
<1>1. t % 8 \in 0..7
  OBVIOUS
<1>2. QED
  BY <1>1 DEF Demo!MarketRegimeForTick, Demo!MarketRegimeOrder, Regimes

Within(x, low, high) == x \in Int /\ low <= x /\ x <= high

ConfigOK(c) ==
  /\ c.driftStep \in Nat
  /\ Within(c.volatilityPoints, 0, 18)
  /\ \A i \in 1..6 : Within(c.wave[i], -110, 150)
  /\ Within(c.spreadMultiplier, 100, 420)
  /\ Within(c.quoteAgeSeconds, 1, 8)
  /\ Within(c.liquidityBase, 12, 82)
  /\ Within(c.slippageMultiplier, 35, 100)

LEMMA Config ==
  ASSUME NEW regime \in Regimes
  PROVE  ConfigOK(Demo!MarketRegimeConfig[regime])
<1>1. CASE regime = "normal"
  BY <1>1, SMT DEF Demo!MarketRegimeConfig, ConfigOK, Within
<1>2. CASE regime = "trending"
  BY <1>2, SMT DEF Demo!MarketRegimeConfig, ConfigOK, Within
<1>3. CASE regime = "volatile"
  BY <1>3, SMT DEF Demo!MarketRegimeConfig, ConfigOK, Within
<1>4. CASE regime = "illiquid"
  BY <1>4, SMT DEF Demo!MarketRegimeConfig, ConfigOK, Within
<1>5. CASE regime = "stale_quote"
  BY <1>5, SMT DEF Demo!MarketRegimeConfig, ConfigOK, Within
<1>6. QED
  BY <1>1, <1>2, <1>3, <1>4, <1>5 DEF Regimes
LEMMA LastPriceBound ==
  ASSUME NEW symbol \in Demo!BrowserMockSymbol, NEW t \in Nat
  PROVE  Demo!LastPriceForTick(symbol, t) \in Nat /\ Demo!LastPriceForTick(symbol, t) >= 1900000
<1> DEFINE config == Demo!MarketRegimeConfig[Demo!MarketRegimeForTick(t)]
           d == (t \div 6) * config.driftStep
           w == config.wave[(t % 6) + 1]
           v == (2 * (t % 4) - 3) * config.volatilityPoints
           o == [TX |-> 0, MTX |-> -600, TMF |-> -900][symbol]
<1>1. /\ t \div 6 \in Nat /\ t % 4 \in 0..3
      /\ (t % 6) + 1 \in 1..6
  OBVIOUS
<1>2. ConfigOK(config)
  <2>1. Demo!MarketRegimeForTick(t) \in Regimes
    BY RegimeTyped
  <2>2. QED
    BY <2>1, Config
<1>3. Within(o, -900, 0)
  BY DEF Demo!BrowserMockSymbol, Within
<1>4. Within(v, -54, 54)
  <2>1. Within(config.volatilityPoints, 0, 18)
    BY <1>2 DEF ConfigOK
  <2> HIDE DEF config
  <2>2. QED
    BY <1>1, <2>1 DEF Within
<1>5. d \in Nat
  <2>1. config.driftStep \in Nat
    BY <1>2 DEF ConfigOK
  <2> HIDE DEF config
  <2>2. QED
    BY <1>1, <2>1
<1>6. Within(w, -110, 150)
  <2> HIDE DEF config
  <2>1. QED
    BY <1>1, <1>2 DEF ConfigOK
<1>7. Demo!LastPriceForTick(symbol, t) =
        (20000 * 600 + d * 60 + w * 60 + v * 25 + o + 3) \div 6
  <2>1. (t \div 6) * config.driftStep * 60 = d * 60
    OBVIOUS
  <2>2. (2 * (t % 4) - 3) * config.volatilityPoints * 25 = v * 25
    OBVIOUS
  <2>3. QED
    BY SMT DEF Demo!LastPriceForTick
<1> HIDE DEF d, w, v, o
<1>8. QED
  BY SMT, <1>3, <1>4, <1>5, <1>6, <1>7 DEF Within

LEMMA Product ==
  ASSUME NEW m \in Nat, NEW n \in Nat, NEW a \in Int, NEW b \in Int,
         0 <= a, a <= m, 0 <= b, b <= n
  PROVE  a * b \in Int /\ 0 <= a * b /\ a * b <= m * n
<1>1. a * b <= m * b
  OBVIOUS
<1>2. m * b <= m * n
  OBVIOUS
<1>3. a * b \in Nat /\ m * b \in Nat /\ m * n \in Nat
  OBVIOUS
<1>4. QED
  BY <1>1, <1>2, <1>3

LEMMA Snapshot ==
  ASSUME NEW symbol \in Demo!BrowserMockSymbol, NEW t \in Nat
  PROVE  LET s == Demo!MarketSnapshot(symbol, t) IN
           /\ Within(s.slippage_points_estimate, 0, 500)
           /\ s.bid \in Nat /\ s.bid >= 500
           /\ s.ask \in Nat
<1> DEFINE config == Demo!MarketRegimeConfig[Demo!MarketRegimeForTick(t)]
           base == [TX |-> 100, MTX |-> 50, TMF |-> 20][symbol]
           smaller == IF symbol = "TX" THEN 1 ELSE 0
           last == Demo!LastPriceForTick(symbol, t)
           wide == config.spreadMultiplier + 15 * (t % 3)
           spread == (base * wide + 50) \div 100
           thin == 100 - (config.liquidityBase - 4 * smaller)
           slip == (spread * thin * config.slippageMultiplier + 5000)
                     \div 10000
           s == Demo!MarketSnapshot(symbol, t)
<1>1. ConfigOK(config)
  <2>1. Demo!MarketRegimeForTick(t) \in Regimes
    BY RegimeTyped
  <2>2. QED
    BY <2>1, Config
<1>2. last \in Nat /\ last >= 1900000
  BY LastPriceBound, SMT
<1>3. base \in {20, 50, 100} /\ smaller \in {0, 1}
  BY DEF Demo!BrowserMockSymbol
<1>4. Within(wide, 0, 450)
  <2>1. t % 3 \in 0..2
    OBVIOUS
  <2>2. Within(config.spreadMultiplier, 100, 420)
    BY <1>1 DEF ConfigOK
  <2> HIDE DEF config
  <2>3. QED
    BY <2>1, <2>2 DEF Within
<1>5. Within(thin, 0, 92)
  <2>2. Within(config.liquidityBase, 12, 82)
    BY <1>1 DEF ConfigOK
  <2> HIDE DEF config, smaller
  <2>3. QED
    BY <2>2, <1>3 DEF Within
<1>6. Within(config.slippageMultiplier, 0, 100)
  <2>2. Within(config.slippageMultiplier, 35, 100)
    BY <1>1 DEF ConfigOK
  <2> HIDE DEF config
  <2>3. QED
    BY <2>2 DEF Within
<1>7. Within(spread, 0, 450)
  <2> HIDE DEF wide, base
  <2>2. QED
    BY <1>3, <1>4, SMT DEF Within
<1>8. Within(slip, 0, 500)
  <2> HIDE DEF spread, thin, config
  <2>1. Within(spread * thin, 0, 41400)
    <3>1. 450 * 92 = 41400
      BY SMT
    <3>2. QED
      BY <1>5, <1>7, <3>1, Product, SMT DEF Within
  <2>2. Within(spread * thin * config.slippageMultiplier, 0, 4140000)
    <3>1. 41400 * 100 = 4140000
      BY SMT
    <3> DEFINE both == spread * thin
    <3> HIDE DEF both
    <3>2. Within(both, 0, 41400)
      BY <2>1, SMT DEF both
    <3>3. Within(both * config.slippageMultiplier, 0, 4140000)
      BY <3>1, <3>2, <1>6, Product, SMT DEF Within
    <3>4. QED
      BY <3>3, SMT DEF both
  <2> DEFINE all == spread * thin * config.slippageMultiplier
  <2>3. Within(all, 0, 4140000)
    BY <2>2, SMT
  <2> HIDE DEF all
  <2>4. Within((all + 5000) \div 10000, 0, 500)
    BY <2>3, SMT DEF Within
  <2>5. QED
    BY <2>4, SMT DEF all
<1>9. /\ s.slippage_points_estimate = slip
      /\ s.bid = (2 * last - spread + 1) \div 2
      /\ s.ask = (2 * last + spread + 1) \div 2
  BY SMT DEF Demo!MarketSnapshot
<1> HIDE DEF s, last, spread, slip
<1>10. QED
  BY SMT, <1>2, <1>7, <1>8, <1>9 DEF s, Within

\* What decides whether an order trades on a quote.
LEMMA QuoteQuality ==
  ASSUME NEW symbol \in Demo!BrowserMockSymbol, NEW t \in Nat
  PROVE  LET s == Demo!MarketSnapshot(symbol, t) IN
           /\ s.market_regime \in Regimes
           /\ s.bid_size \in Nat /\ s.ask_size \in Nat
           /\ s.quote_age_seconds \in Nat /\ s.liquidity_score \in Int
           /\ s.market_regime = "stale_quote" => s.quote_age_seconds > 3
           /\ s.market_regime = "illiquid" => s.liquidity_score < 20
           /\ s.market_regime \notin {"stale_quote", "illiquid"} =>
                /\ s.bid_size > 0 /\ s.ask_size > 0
                /\ s.quote_age_seconds <= 3 /\ s.liquidity_score >= 20
<1> DEFINE regime == Demo!MarketRegimeForTick(t)
           config == Demo!MarketRegimeConfig[regime]
           smaller == IF symbol = "TX" THEN 1 ELSE 0
           size == config.bidSizeBase + (t % 3) - smaller
           s == Demo!MarketSnapshot(symbol, t)
<1>1. regime \in Regimes
  BY RegimeTyped
<1>2. /\ smaller \in {0, 1} /\ t % 3 \in 0..2 /\ t % 2 \in 0..1
      /\ (t + 1) % 3 \in 0..2
  OBVIOUS
<1>3. /\ s.market_regime = regime
      /\ s.bid_size = IF size < 0 THEN 0 ELSE size
      /\ s.ask_size = config.askSizeBase + ((t + 1) % 3) - smaller
      /\ s.quote_age_seconds = config.quoteAgeSeconds
           + IF regime = "stale_quote" THEN t % 2 ELSE 0
      /\ s.liquidity_score = config.liquidityBase - 4 * smaller
  BY SMT DEF Demo!MarketSnapshot
<1> HIDE DEF smaller, s
<1>4. ASSUME NEW r \in Regimes, regime = r
      PROVE  /\ config.bidSizeBase \in Nat /\ config.askSizeBase \in Nat \ {0}
             /\ config.quoteAgeSeconds \in Nat /\ config.liquidityBase \in Nat
             /\ r = "stale_quote" => config.quoteAgeSeconds > 3
             /\ r = "illiquid" => config.liquidityBase < 20
             /\ r \notin {"stale_quote", "illiquid"} =>
                  /\ config.bidSizeBase > 1 /\ config.askSizeBase > 1
                  /\ config.quoteAgeSeconds <= 3
                  /\ config.liquidityBase >= 24
  BY <1>4, SMT DEF Demo!MarketRegimeConfig, Regimes
<1> HIDE DEF config, regime
<1>5. QED
  BY <1>1, <1>2, <1>3, <1>4, SMT DEF s

-----------------------------------------------------------------------------
(* Orders *)

\* Order, at a tick that may be past.
OrderAt(t, symbol, direction, quantity) ==
  LET snapshot == Demo!MarketSnapshot(symbol, t)
      side == IF direction = "SHORT" THEN "SELL" ELSE "BUY"
      approved == Demo!RiskApproved(snapshot, symbol, quantity, direction)
      filled ==
        IF approved THEN Demo!FillQuantity(snapshot, side, quantity) ELSE 0 IN
    [ symbol |-> symbol, side |-> side, quantity |-> quantity,
      tick |-> t, risk_approved |-> approved,
      simulation_outcome |->
        CASE filled <= 0       -> "REJECTED"
          [] filled = quantity -> "FILLED"
          [] OTHER             -> "PARTIALLY_FILLED",
      simulated_fill_quantity |-> filled,
      simulated_fill_price |->
        IF filled <= 0 THEN Demo!NoPrice
        ELSE Demo!FillPrice(snapshot, side),
      remaining_quantity |-> quantity - filled ]

LEMMA OrderIsOrderAt ==
  ASSUME NEW symbol, NEW direction, NEW quantity
  PROVE  Demo!Order(symbol, direction, quantity)
           = OrderAt(current_tick, symbol, direction, quantity)
BY Zenon DEF Demo!Order, OrderAt

Directions == {"LONG", "SHORT", "FLAT"}

\* The order was made by the runtime, at some tick up to t.
MadeBy(o, t) ==
  \E t0 \in 0..t, symbol \in Demo!BrowserMockSymbol,
     direction \in Directions, quantity \in 1..20 :
    o = OrderAt(t0, symbol, direction, quantity)

\* An order trades on a quote that is fresh and liquid, if it is approved.
Trades(o, quote) ==
  /\ o.risk_approved
  /\ quote.quote_age_seconds <= 3
  /\ quote.liquidity_score >= 20

\* What an order tells of itself and of the quote it met.
OrderTells(o, quote) ==
  /\ o.symbol \in Demo!BrowserMockSymbol
  /\ o.side \in {"BUY", "SELL"} /\ o.quantity \in 1..20
  /\ o.risk_approved \in BOOLEAN /\ o.tick \in Nat
  /\ o.simulated_fill_quantity \in 0..o.quantity
  /\ o.simulated_fill_price \in Nat
  /\ o.remaining_quantity = o.quantity - o.simulated_fill_quantity
  /\ o.simulation_outcome =
       IF o.simulated_fill_quantity = 0 THEN "REJECTED"
       ELSE IF o.remaining_quantity = 0 THEN "FILLED"
       ELSE "PARTIALLY_FILLED"
  /\ o.simulated_fill_quantity > 0 <=> Trades(o, quote)
  /\ o.simulated_fill_quantity > 0 =>
       /\ quote.market_regime \notin {"stale_quote", "illiquid"}
       /\ o.quantity * Demo!TxEquivalentRatio[o.symbol]
            <= Demo!MaxTxEquivalentExposure
       /\ IF o.side = "BUY" THEN o.simulated_fill_price >= quote.ask
          ELSE o.simulated_fill_price <= quote.bid

LEMMA OrdersTell ==
  ASSUME NEW t \in Nat, NEW symbol \in Demo!BrowserMockSymbol,
         NEW direction \in Directions, NEW quantity \in 1..20
  PROVE  LET o == OrderAt(t, symbol, direction, quantity) IN
           OrderTells(o, Demo!MarketSnapshot(o.symbol, o.tick))
<1> DEFINE quote == Demo!MarketSnapshot(symbol, t)
           side == IF direction = "SHORT" THEN "SELL" ELSE "BUY"
           approved == Demo!RiskApproved(quote, symbol, quantity, direction)
           filled ==
             IF approved THEN Demo!FillQuantity(quote, side, quantity) ELSE 0
           price == IF filled <= 0 THEN Demo!NoPrice
                    ELSE Demo!FillPrice(quote, side)
           o == OrderAt(t, symbol, direction, quantity)
           traded == /\ approved
                     /\ quote.quote_age_seconds <= 3
                     /\ quote.liquidity_score >= 20
<1>1. /\ o.symbol = symbol /\ o.side = side /\ o.quantity = quantity
      /\ o.tick = t
      /\ o.simulated_fill_quantity = filled
      /\ o.simulated_fill_price = price
      /\ o.remaining_quantity = quantity - filled
      /\ o.simulation_outcome = CASE filled <= 0       -> "REJECTED"
                                  [] filled = quantity -> "FILLED"
                                  [] OTHER             -> "PARTIALLY_FILLED"
  BY Zenon DEF OrderAt
<1>2. o.risk_approved = approved
  BY Zenon DEF OrderAt
<1>3. approved \in BOOLEAN
  BY Zenon DEF Demo!RiskApproved
<1>4. /\ quote.market_regime \in Regimes
      /\ quote.bid_size \in Nat /\ quote.ask_size \in Nat
      /\ quote.quote_age_seconds \in Nat /\ quote.liquidity_score \in Int
      /\ quote.market_regime = "stale_quote" => quote.quote_age_seconds > 3
      /\ quote.market_regime = "illiquid" => quote.liquidity_score < 20
      /\ quote.market_regime \notin {"stale_quote", "illiquid"} =>
           /\ quote.bid_size > 0 /\ quote.ask_size > 0
           /\ quote.quote_age_seconds <= 3 /\ quote.liquidity_score >= 20
  BY QuoteQuality, Zenon
<1>5. /\ Within(quote.slippage_points_estimate, 0, 500)
      /\ quote.bid \in Nat /\ quote.bid >= 500
      /\ quote.ask \in Nat
  BY Snapshot, Zenon
<1>6. approved => quantity * Demo!TxEquivalentRatio[symbol]
                    <= Demo!MaxTxEquivalentExposure
  <2>1. Demo!TxEquivalentRatio[symbol] \in Nat
    BY DEF Demo!TxEquivalentRatio, Demo!BrowserMockSymbol
  <2>2. approved => Demo!TxEquivalentRatio[symbol] * quantity
                      <= Demo!MaxTxEquivalentExposure
    BY Zenon DEF Demo!RiskApproved
  <2> HIDE DEF approved
  <2>3. QED
    BY <2>1, <2>2
<1>7. side \in {"BUY", "SELL"}
  OBVIOUS
<1> HIDE DEF quote, approved, side
<1>8. /\ filled \in 0..quantity
      /\ filled > 0 <=> traded
      /\ traded => quote.market_regime \notin {"stale_quote", "illiquid"}
  BY <1>4, <1>7, SMT DEF Demo!FillQuantity, Demo!Available, Regimes
<1>9. /\ price \in Nat
      /\ filled > 0 => IF side = "BUY" THEN price >= quote.ask
                       ELSE price <= quote.bid
  <2> HIDE DEF filled
  <2>1. QED
    BY <1>5, <1>8, SMT DEF Demo!FillPrice, Demo!NoPrice, Within
<1> HIDE DEF filled, price
<1>10. o.simulation_outcome =
         IF o.simulated_fill_quantity = 0 THEN "REJECTED"
         ELSE IF o.remaining_quantity = 0 THEN "FILLED"
         ELSE "PARTIALLY_FILLED"
  <2> HIDE DEF o
  <2>1. QED
    BY <1>1, <1>8, SMT
<1>11. Demo!MarketSnapshot(o.symbol, o.tick) = quote
  <2> HIDE DEF o
  <2>1. QED
    BY <1>1, Zenon DEF quote
<1> HIDE DEF o
<1>12. /\ o.symbol \in Demo!BrowserMockSymbol
       /\ o.quantity * Demo!TxEquivalentRatio[o.symbol]
            = quantity * Demo!TxEquivalentRatio[symbol]
  BY <1>1, Zenon
<1>13. o.simulated_fill_quantity > 0 <=> Trades(o, quote)
  BY <1>1, <1>2, <1>8, Zenon DEF Trades
<1>14. o.simulated_fill_quantity > 0 =>
         /\ quote.market_regime \notin {"stale_quote", "illiquid"}
         /\ o.quantity * Demo!TxEquivalentRatio[o.symbol]
              <= Demo!MaxTxEquivalentExposure
         /\ IF o.side = "BUY" THEN o.simulated_fill_price >= quote.ask
            ELSE o.simulated_fill_price <= quote.bid
  BY <1>1, <1>2, <1>6, <1>8, <1>9, <1>12, Zenon
<1>15. /\ o.side \in {"BUY", "SELL"} /\ o.quantity \in 1..20
       /\ o.risk_approved \in BOOLEAN /\ o.tick \in Nat
       /\ o.simulated_fill_quantity \in 0..o.quantity
       /\ o.simulated_fill_price \in Nat
       /\ o.remaining_quantity = o.quantity - o.simulated_fill_quantity
  BY <1>1, <1>2, <1>3, <1>7, <1>8, <1>9, Zenon
<1>16. OrderTells(o, quote)
  BY <1>10, <1>12, <1>13, <1>14, <1>15, Zenon DEF OrderTells
<1>17. QED
  BY <1>11, <1>16, Zenon DEF o

-----------------------------------------------------------------------------
(* The portfolio and the performance *)

Portfolios ==
  [ symbol : Demo!BrowserMockSymbol \cup {Demo!None},
    position_contracts : Int, average_price : Nat, mark_price : Nat,
    tx_equivalent_position : Int, unrealized_pnl_twd : Int,
    equity_twd : Int ]

Performances ==
  [ simulated_orders : 0..MaxOrders, simulated_fills : 0..MaxOrders,
    simulated_rejects : 0..MaxOrders,
    simulated_partial_fills : 0..MaxOrders,
    unrealized_pnl_twd : Int, equity_twd : Int ]

\* No outcome is counted more often than there were orders.
Counted(p) ==
  /\ p.simulated_fills <= p.simulated_orders
  /\ p.simulated_rejects <= p.simulated_orders
  /\ p.simulated_partial_fills <= p.simulated_orders

LEMMA MarkTyped ==
  ASSUME NEW p \in Portfolios, NEW last \in Nat
  PROVE  Demo!Mark(p, last) \in Portfolios
<1> DEFINE pnl == (last - p.average_price) * p.position_contracts
                    * Demo!PointValueTwd[p.symbol]
<1>1. CASE p.symbol = Demo!None \/ p.average_price = Demo!NoPrice
  <2>1. Demo!Mark(p, last) =
          [p EXCEPT !.unrealized_pnl_twd = 0,
                    !.equity_twd = Demo!StartingCashTwd]
    BY <1>1, Zenon DEF Demo!Mark
  <2>2. Demo!StartingCashTwd \in Int
    BY SMT DEF Demo!StartingCashTwd
  <2>3. ASSUME NEW x \in Int, NEW y \in Int
        PROVE  [p EXCEPT !.unrealized_pnl_twd = x, !.equity_twd = y]
                 \in Portfolios
    BY DEF Portfolios
  <2>4. 0 \in Int
    OBVIOUS
  <2>5. QED
    BY <2>1, <2>2, <2>3, <2>4, Zenon
<1>2. CASE ~(p.symbol = Demo!None \/ p.average_price = Demo!NoPrice)
  <2>1. pnl \in Int
    <3>1. Demo!PointValueTwd[p.symbol] \in Int
      BY <1>2 DEF Portfolios, Demo!BrowserMockSymbol, Demo!PointValueTwd
    <3>2. p.average_price \in Int /\ p.position_contracts \in Int
      BY DEF Portfolios
    <3>3. (last - p.average_price) * p.position_contracts \in Int
      BY <3>2
    <3>4. QED
      BY <3>1, <3>3
  <2>2. Demo!Mark(p, last) =
          [p EXCEPT !.mark_price = last, !.unrealized_pnl_twd = pnl,
                    !.equity_twd = Demo!StartingCashTwd + pnl]
    BY <1>2, Zenon DEF Demo!Mark
  <2>3. Demo!StartingCashTwd + pnl \in Int
    BY <2>1, SMT DEF Demo!StartingCashTwd
  <2> HIDE DEF pnl
  <2>4. QED
    BY <2>1, <2>2, <2>3 DEF Portfolios
<1>3. QED
  BY <1>1, <1>2

LEMMA RoundedTyped ==
  ASSUME NEW a \in Nat, NEW b \in Nat \ {0}
  PROVE  Demo!Rounded(a, b) \in Nat
<1>1. 2 * a + b \in Nat /\ 2 * b \in Nat /\ 2 * b > 0
  OBVIOUS
<1>2. \A x \in Nat, y \in Nat : y > 0 => x \div y \in Nat
  OBVIOUS
<1>3. QED
  BY <1>1, <1>2 DEF Demo!Rounded

LEMMA NextAveragePriceTyped ==
  ASSUME NEW p \in Portfolios, NEW o, NEW quote, OrderTells(o, quote),
         NEW next \in Int
  PROVE  Demo!NextAveragePrice(p, o, next) \in Nat
<1>1. /\ p.average_price \in Nat /\ p.position_contracts \in Int
      /\ o.simulated_fill_price \in Nat
      /\ Demo!SignedQuantity(o) \in Int
  BY DEF Portfolios, OrderTells, Demo!SignedQuantity
<1>2. \A x \in Int : Demo!Abs(x) \in Nat
  BY DEF Demo!Abs
<1>3. next # 0 => Demo!Abs(next) \in Nat \ {0}
  BY DEF Demo!Abs
<1>4. /\ p.average_price * Demo!Abs(p.position_contracts) \in Nat
      /\ o.simulated_fill_price * Demo!Abs(Demo!SignedQuantity(o)) \in Nat
  BY <1>1, <1>2
<1>5. p.average_price * Demo!Abs(p.position_contracts)
        + o.simulated_fill_price * Demo!Abs(Demo!SignedQuantity(o)) \in Nat
  BY <1>4
<1>6. QED
  BY <1>1, <1>3, <1>5, RoundedTyped, Zenon
     DEF Demo!NextAveragePrice, Demo!NoPrice

LEMMA LastPriceTyped ==
  ASSUME NEW symbol \in Demo!BrowserMockSymbol, NEW t \in Nat
  PROVE  Demo!LastPriceForTick(symbol, t) \in Nat
BY LastPriceBound, SMT

\* What an order makes of a portfolio is a portfolio: the average price stays
\* a natural number, because fill prices are.
LEMMA ApplyTyped ==
  ASSUME NEW p \in Portfolios, NEW o, NEW quote, OrderTells(o, quote)
  PROVE  Demo!ApplyOrderToPortfolio(p, o) \in Portfolios
<1>1. /\ o.symbol \in Demo!BrowserMockSymbol /\ o.tick \in Nat
  BY DEF OrderTells
<1>2. CASE Demo!NothingFilled(o)
  <2>1. p.symbol # Demo!None => Demo!LastPriceFromOrder(p, o) \in Nat
    <3>1. p.symbol \in Demo!BrowserMockSymbol \cup {Demo!None}
      BY DEF Portfolios
    <3>2. 0 \in Nat
      OBVIOUS
    <3>3. QED
      BY <1>1, <3>1, <3>2, LastPriceTyped, Zenon DEF Demo!LastPriceFromOrder
  <2>2. QED
    BY <1>2, <2>1, MarkTyped, Zenon DEF Demo!ApplyOrderToPortfolio
<1>3. CASE ~Demo!NothingFilled(o)
  <2> DEFINE next == p.position_contracts + Demo!SignedQuantity(o)
             last == Demo!LastPriceForTick(o.symbol, o.tick)
             tx == next * Demo!TxEquivalentRatio[o.symbol]
             average == Demo!NextAveragePrice(p, o, next)
             opened == [p EXCEPT !.symbol = o.symbol,
                                 !.position_contracts = next,
                                 !.tx_equivalent_position = tx,
                                 !.average_price = average,
                                 !.mark_price = last]
  <2>1. next \in Int
    BY DEF Portfolios, OrderTells, Demo!SignedQuantity
  <2>2. last \in Nat
    BY <1>1, LastPriceTyped, Zenon
  <2>3. average \in Nat
    BY <2>1, NextAveragePriceTyped, Zenon
  <2>4. tx \in Int
    <3>1. Demo!TxEquivalentRatio[o.symbol] \in Int
      BY <1>1 DEF Demo!BrowserMockSymbol, Demo!TxEquivalentRatio
    <3> HIDE DEF next
    <3>2. QED
      BY <2>1, <3>1
  <2>5. Demo!ApplyOrderToPortfolio(p, o) = Demo!Mark(opened, last)
    BY <1>3, Zenon DEF Demo!ApplyOrderToPortfolio
  <2> HIDE DEF next, last, tx, average
  <2>6. opened \in Portfolios
    BY <1>1, <2>1, <2>2, <2>3, <2>4 DEF Portfolios
  <2> HIDE DEF opened
  <2>7. QED
    BY <2>2, <2>5, <2>6, MarkTyped, Zenon
<1>4. QED
  BY <1>2, <1>3

LEMMA PerformanceTyped ==
  ASSUME NEW previous \in Performances, Counted(previous),
         previous.simulated_orders < MaxOrders, MaxOrders \in Nat,
         NEW o, NEW p \in Portfolios
  PROVE  LET next == Demo!PerformanceFromOrder(previous, o, p) IN
           next \in Performances /\ Counted(next)
<1> DEFINE fills == Demo!OneIf("FILLED", o)
           rejects == Demo!OneIf("REJECTED", o)
           partials == Demo!OneIf("PARTIALLY_FILLED", o)
           next == Demo!PerformanceFromOrder(previous, o, p)
<1>1. fills \in 0..1 /\ rejects \in 0..1 /\ partials \in 0..1
  BY DEF Demo!OneIf
<1>2. next = [ simulated_orders |-> previous.simulated_orders + 1,
               simulated_fills |-> previous.simulated_fills + fills,
               simulated_rejects |-> previous.simulated_rejects + rejects,
               simulated_partial_fills |->
                 previous.simulated_partial_fills + partials,
               unrealized_pnl_twd |-> p.unrealized_pnl_twd,
               equity_twd |-> p.equity_twd ]
  BY Zenon DEF Demo!PerformanceFromOrder
<1> HIDE DEF fills, rejects, partials, next
<1>3. p.unrealized_pnl_twd \in Int /\ p.equity_twd \in Int
  BY DEF Portfolios
<1>4. QED
  BY <1>1, <1>2, <1>3 DEF Performances, Counted, next

-----------------------------------------------------------------------------
(* Sessions *)

\* A session the runtime can come to: its order was made at some earlier tick.
SessionOK(s) ==
  /\ s.current_tick \in 0..MaxTick
  /\ s.selected_symbol \in Demo!BrowserMockSymbol
  /\ s.latest_signal \in Directions \cup {Demo!None}
  /\ s.latest_order = Demo!NoOrder \/ MadeBy(s.latest_order, s.current_tick)
  /\ s.portfolio \in Portfolios
  /\ s.performance \in Performances
  /\ Counted(s.performance)

\* The same of the session that is shown.
ShownOK ==
  /\ current_tick \in 0..MaxTick
  /\ selected_symbol \in Demo!BrowserMockSymbol
  /\ latest_signal \in Directions \cup {Demo!None}
  /\ latest_order = Demo!NoOrder \/ MadeBy(latest_order, current_tick)
  /\ portfolio \in Portfolios
  /\ performance \in Performances
  /\ Counted(performance)

LEMMA SessionFields ==
  /\ Demo!Session.current_tick = current_tick
  /\ Demo!Session.selected_symbol = selected_symbol
  /\ Demo!Session.latest_signal = latest_signal
  /\ Demo!Session.latest_order = latest_order
  /\ Demo!Session.portfolio = portfolio
  /\ Demo!Session.performance = performance
BY Zenon DEF Demo!Session

LEMMA InitialFields ==
  /\ Demo!InitialSession.current_tick = 0
  /\ Demo!InitialSession.selected_symbol = "TMF"
  /\ Demo!InitialSession.latest_signal = Demo!None
  /\ Demo!InitialSession.latest_order = Demo!NoOrder
  /\ Demo!InitialSession.portfolio = Demo!EmptyPortfolio
  /\ Demo!InitialSession.performance = Demo!EmptyPerformance
BY Zenon DEF Demo!InitialSession

LEMMA SessionIsShown == ShownOK <=> SessionOK(Demo!Session)
BY SessionFields, Zenon DEF ShownOK, SessionOK

LEMMA DemoConstants == MaxTick \in Nat /\ MaxOrders \in Nat
BY ConstantsAssumption, Zenon DEF Demo!ConstantsAssumption

LEMMA InitialOK == SessionOK(Demo!InitialSession)
<1>1. Demo!StartingCashTwd \in Int
  BY SMT DEF Demo!StartingCashTwd
<1>2. Demo!EmptyPortfolio \in Portfolios
  <2> DEFINE Empty(cash) ==
        [ symbol |-> Demo!None, position_contracts |-> 0,
          average_price |-> 0, mark_price |-> 0,
          tx_equivalent_position |-> 0, unrealized_pnl_twd |-> 0,
          equity_twd |-> cash ]
  <2>1. \A cash \in Int : Empty(cash) \in Portfolios
    BY DEF Portfolios
  <2>2. Demo!EmptyPortfolio = Empty(Demo!StartingCashTwd)
    BY Zenon DEF Demo!EmptyPortfolio, Demo!NoPrice
  <2> HIDE DEF Empty
  <2>3. QED
    BY <1>1, <2>1, <2>2
<1>3. Demo!EmptyPerformance \in Performances /\ Counted(Demo!EmptyPerformance)
  <2> DEFINE Empty(cash) ==
        [ simulated_orders |-> 0, simulated_fills |-> 0,
          simulated_rejects |-> 0, simulated_partial_fills |-> 0,
          unrealized_pnl_twd |-> 0, equity_twd |-> cash ]
  <2>1. \A cash \in Int : Empty(cash) \in Performances /\ Counted(Empty(cash))
    BY DemoConstants DEF Performances, Counted
  <2>2. Demo!EmptyPerformance = Empty(Demo!StartingCashTwd)
    BY Zenon DEF Demo!EmptyPerformance
  <2> HIDE DEF Empty
  <2>3. QED
    BY <1>1, <2>1, <2>2
<1>4. 0 \in 0..MaxTick /\ "TMF" \in Demo!BrowserMockSymbol
  BY DemoConstants DEF Demo!BrowserMockSymbol
<1>5. QED
  BY <1>2, <1>3, <1>4, InitialFields, Zenon DEF SessionOK

LEMMA BecomeFields ==
  ASSUME NEW s, Demo!Become(s), SessionOK(s)
  PROVE  ShownOK'
<1>1. /\ current_tick' = s.current_tick
      /\ selected_symbol' = s.selected_symbol
      /\ latest_signal' = s.latest_signal
      /\ latest_order' = s.latest_order
      /\ portfolio' = s.portfolio
      /\ performance' = s.performance
  BY DEF Demo!Become
<1>2. QED
  BY <1>1, Zenon DEF ShownOK, SessionOK

LEMMA MadeByLater ==
  ASSUME NEW o, NEW t \in Nat, NEW u \in Nat, t <= u, MadeBy(o, t)
  PROVE  MadeBy(o, u)
<1>1. 0..t \subseteq 0..u
  OBVIOUS
<1>2. QED
  BY <1>1, Zenon DEF MadeBy

LEMMA DirectionTyped ==
  ASSUME NEW snapshot
  PROVE  Demo!DirectionFromSnapshot(snapshot) \in Directions
BY DEF Demo!DirectionFromSnapshot, Directions

LEMMA AdvanceStep ==
  ASSUME ShownOK, Demo!AdvanceTick
  PROVE  ShownOK'
<1> DEFINE last == Demo!LastPriceForTick(portfolio.symbol, current_tick + 1)
<1>1. /\ current_tick < MaxTick /\ current_tick' = current_tick + 1
      /\ UNCHANGED <<selected_symbol, latest_signal, latest_order>>
  BY DEF Demo!AdvanceTick
<1>2. /\ current_tick \in Nat /\ current_tick + 1 \in Nat
      /\ current_tick <= current_tick + 1 /\ current_tick + 1 \in 0..MaxTick
  BY <1>1, DemoConstants DEF ShownOK
<1>3. portfolio' \in Portfolios
  <2>1. portfolio \in Portfolios
    BY DEF ShownOK
  <2>2. portfolio.symbol # Demo!None =>
          portfolio.symbol \in Demo!BrowserMockSymbol
    BY <2>1 DEF Portfolios
  <2>3. portfolio.symbol # Demo!None => last \in Nat
    BY <1>2, <2>2, LastPriceTyped, Zenon
  <2>4. portfolio' = IF portfolio.symbol = Demo!None THEN portfolio
                     ELSE Demo!Mark(portfolio, last)
    BY <1>1, Zenon DEF Demo!AdvanceTick
  <2> HIDE DEF last
  <2>5. QED
    BY <2>1, <2>3, <2>4, MarkTyped, Zenon
<1>4. performance' \in Performances /\ Counted(performance')
  <2>1. portfolio'.unrealized_pnl_twd \in Int /\ portfolio'.equity_twd \in Int
    BY <1>3 DEF Portfolios
  <2>2. performance' =
          [performance EXCEPT
             !.unrealized_pnl_twd = portfolio'.unrealized_pnl_twd,
             !.equity_twd = portfolio'.equity_twd]
    BY DEF Demo!AdvanceTick
  <2>3. performance \in Performances /\ Counted(performance)
    BY DEF ShownOK
  <2>4. QED
    BY <2>1, <2>2, <2>3 DEF Performances, Counted
<1>5. latest_order' = Demo!NoOrder \/ MadeBy(latest_order', current_tick')
  BY <1>1, <1>2, MadeByLater, Zenon DEF ShownOK
<1>6. QED
  BY <1>1, <1>2, <1>3, <1>4, <1>5, Zenon DEF ShownOK

LEMMA RunStrategyStep ==
  ASSUME ShownOK, NEW symbol \in Demo!BrowserMockSymbol,
         Demo!RunStrategy(symbol)
  PROVE  ShownOK'
<1>1. /\ selected_symbol' = symbol
      /\ latest_signal' \in Directions
      /\ UNCHANGED <<current_tick, latest_order, portfolio, performance>>
  BY DirectionTyped, Zenon DEF Demo!RunStrategy
<1>2. QED
  BY <1>1, Zenon DEF ShownOK

LEMMA SimulateOrderStep ==
  ASSUME ShownOK, NEW symbol \in Demo!BrowserMockSymbol,
         NEW quantity \in Quantities, Demo!SimulateOrder(symbol, quantity)
  PROVE  ShownOK'
<1> DEFINE direction ==
             IF selected_symbol = symbol /\ latest_signal # Demo!None
               THEN latest_signal
               ELSE Demo!DirectionFromSnapshot(
                      Demo!MarketSnapshot(symbol, current_tick))
           bounded == Demo!BoundedQuantity(quantity)
           o == OrderAt(current_tick, symbol, direction, bounded)
           quote == Demo!MarketSnapshot(o.symbol, o.tick)
<1>1. direction \in Directions
  BY DirectionTyped, Zenon DEF ShownOK
<1>2. bounded \in 1..20
  <2>1. quantity \in Nat
    BY ConstantsAssumption DEF Demo!ConstantsAssumption
  <2>2. QED
    BY <2>1 DEF Demo!BoundedQuantity
<1>3. current_tick \in Nat /\ current_tick \in 0..current_tick
  BY DemoConstants DEF ShownOK
<1> HIDE DEF direction, bounded
<1>4. OrderTells(o, quote)
  BY <1>1, <1>2, <1>3, OrdersTell, Zenon
<1>5. MadeBy(o, current_tick)
  BY <1>1, <1>2, <1>3, Zenon DEF MadeBy
<1>6. /\ performance.simulated_orders < MaxOrders
      /\ selected_symbol' = symbol /\ latest_signal' = direction
      /\ latest_order' = o
      /\ portfolio' = Demo!ApplyOrderToPortfolio(portfolio, o)
      /\ performance' =
           Demo!PerformanceFromOrder(performance, o, portfolio')
      /\ current_tick' = current_tick
  BY OrderIsOrderAt, Zenon DEF Demo!SimulateOrder, direction, bounded
<1> HIDE DEF o, quote
<1>7. portfolio' \in Portfolios
  BY <1>4, <1>6, ApplyTyped, Zenon DEF ShownOK
<1>8. performance' \in Performances /\ Counted(performance')
  BY <1>6, <1>7, PerformanceTyped, DemoConstants, Zenon DEF ShownOK
<1>9. QED
  BY <1>1, <1>5, <1>6, <1>7, <1>8, Zenon DEF ShownOK

-----------------------------------------------------------------------------
(* The page and its copy in localStorage *)

AtMostOne(S) == S = {} \/ \E x : S = {x}

\* While the page is open and at rest the copy is the session; when it was
\* left so, and until the next visit has restored it, the copy is what was
\* left.  A page that shows nothing yet holds the initial session.
DemoInv ==
  /\ demoPhase \in {"closed", "mounting", "changed", "open"}
  /\ ShownOK
  /\ \A s \in (stored \ {Demo!Foreign}) \cup restoring \cup left : SessionOK(s)
  /\ AtMostOne(stored) /\ AtMostOne(restoring) /\ AtMostOne(left)
  /\ Demo!Foreign \notin restoring \cup left
  /\ demoPhase \in {"closed", "mounting"} =>
       Demo!Session = Demo!InitialSession
  /\ demoPhase = "mounting" => stored = {Demo!InitialSession}
  /\ demoPhase = "open" => stored = {Demo!Session}
  /\ demoPhase = "closed" /\ left # {} => stored = left
  /\ demoPhase = "mounting" /\ left # {} => restoring = left

LEMMA ForeignIsNone ==
  /\ Demo!Session # Demo!Foreign
  /\ Demo!InitialSession # Demo!Foreign
<1>1. ASSUME NEW s, s = Demo!Foreign, "current_tick" \in DOMAIN s
      PROVE  FALSE
  <2>1. DOMAIN s = {"mock_seed"}
    BY <1>1 DEF Demo!Foreign
  <2>2. QED
    BY <1>1, <2>1
<1>2. "current_tick" \in DOMAIN Demo!Session
  BY DEF Demo!Session
<1>3. "current_tick" \in DOMAIN Demo!InitialSession
  BY DEF Demo!InitialSession
<1>4. QED
  BY <1>1, <1>2, <1>3, Zenon

LEMMA DemoInit ==
  ASSUME Init
  PROVE  DemoInv
<1>1. /\ Demo!Init /\ stored \in {{}, {Demo!Foreign}} /\ restoring = {}
      /\ demoPhase = "closed" /\ left = {}
  BY Zenon DEF Init, Demo!PanelInit
<1>2. Demo!Session = Demo!InitialSession
  BY <1>1, Zenon DEF Demo!Init, Demo!Session, Demo!InitialSession
<1>3. ShownOK
  BY <1>2, InitialOK, SessionIsShown, Zenon
<1>4. AtMostOne(stored) /\ AtMostOne({})
  BY <1>1, Zenon DEF AtMostOne
<1>5. QED
  BY <1>1, <1>2, <1>3, <1>4 DEF DemoInv

LEMMA MountStep ==
  ASSUME DemoInv, Demo!Mount
  PROVE  DemoInv'
<1>1. /\ demoPhase = "closed" /\ demoPhase' = "mounting"
      /\ restoring' = stored \ {Demo!Foreign}
      /\ stored' = {Demo!InitialSession}
      /\ UNCHANGED <<current_tick, selected_symbol, latest_signal,
                     latest_order, portfolio, performance, left>>
  BY DEF Demo!Mount, Demo!Loaded, Demo!LoadStoredSession, Demo!vars
<1>2. ShownOK'
  BY <1>1, Zenon DEF DemoInv, ShownOK
<1>3. Demo!Session' = Demo!InitialSession
  BY <1>1, Zenon DEF DemoInv, Demo!Session
<1>4. left' # {} => restoring' = left'
  BY <1>1 DEF DemoInv
<1>5. AtMostOne(stored') /\ AtMostOne(restoring') /\ AtMostOne(left')
  BY <1>1 DEF DemoInv, AtMostOne
<1>6. \A s \in (stored' \ {Demo!Foreign}) \cup restoring' \cup left' :
        SessionOK(s)
  BY <1>1, InitialOK DEF DemoInv
<1>7. Demo!Foreign \notin restoring' \cup left'
  BY <1>1 DEF DemoInv
<1>8. QED
  BY <1>1, <1>2, <1>3, <1>4, <1>5, <1>6, <1>7 DEF DemoInv

LEMMA RestoreStep ==
  ASSUME DemoInv, Demo!Restore
  PROVE  DemoInv'
<1>1. /\ demoPhase = "mounting" /\ restoring' = {} /\ left' = {}
      /\ stored' = stored /\ stored = {Demo!InitialSession}
  BY DEF Demo!Restore, DemoInv
<1>2. AtMostOne({}) /\ AtMostOne(stored)
  BY Zenon DEF DemoInv, AtMostOne
<1>3. CASE restoring = {}
  <2>1. /\ demoPhase' = "open"
        /\ UNCHANGED <<current_tick, selected_symbol, latest_signal,
                       latest_order, portfolio, performance>>
    BY <1>3 DEF Demo!Restore, Demo!vars
  <2>2. ShownOK' /\ Demo!Session' = Demo!Session
    BY <2>1, Zenon DEF DemoInv, ShownOK, Demo!Session
  <2>3. stored' = {Demo!Session'}
    BY <1>1, <2>2, Zenon DEF DemoInv
  <2>4. QED
    BY <1>1, <1>2, <2>1, <2>2, <2>3, InitialOK DEF DemoInv
<1>4. CASE restoring # {}
  <2>1. /\ demoPhase' = "changed"
        /\ \E s \in restoring : Demo!Become(s)
    BY <1>4, Zenon DEF Demo!Restore
  <2>2. ShownOK'
    BY <2>1, BecomeFields, Zenon DEF DemoInv
  <2>3. QED
    BY <1>1, <1>2, <2>1, <2>2, InitialOK DEF DemoInv
<1>5. QED
  BY <1>3, <1>4

LEMMA SaveStep ==
  ASSUME DemoInv, Demo!Save
  PROVE  DemoInv'
<1>1. /\ demoPhase' = "open" /\ stored' = {Demo!Session}
      /\ UNCHANGED <<current_tick, selected_symbol, latest_signal,
                     latest_order, portfolio, performance, restoring, left>>
  BY DEF Demo!Save, Demo!vars
<1>2. ShownOK' /\ Demo!Session' = Demo!Session
  BY <1>1, Zenon DEF DemoInv, ShownOK, Demo!Session
<1>3. SessionOK(Demo!Session)
  BY SessionIsShown, Zenon DEF DemoInv
<1>4. AtMostOne(stored')
  BY <1>1, Zenon DEF AtMostOne
<1>5. QED
  BY <1>1, <1>2, <1>3, <1>4 DEF DemoInv

LEMMA ActStep ==
  ASSUME DemoInv, Demo!Act
  PROVE  DemoInv'
<1>1. /\ demoPhase' = "changed"
      /\ UNCHANGED <<stored, restoring, left>>
  BY DEF Demo!Act
<1>2. ShownOK'
  BY AdvanceStep, RunStrategyStep, SimulateOrderStep, Zenon
     DEF DemoInv, Demo!Act
<1>3. QED
  BY <1>1, <1>2 DEF DemoInv

LEMMA ResetStep ==
  ASSUME DemoInv, Demo!ResetDemo
  PROVE  DemoInv'
<1>1. /\ demoPhase' = "changed" /\ stored' = {}
      /\ UNCHANGED <<restoring, left>> /\ Demo!Reset
  BY DEF Demo!ResetDemo
<1>2. Demo!Become(Demo!InitialSession)
  BY <1>1, InitialFields, Zenon DEF Demo!Reset, Demo!Become
<1>3. ShownOK' /\ AtMostOne(stored')
  BY <1>1, <1>2, InitialOK, BecomeFields, Zenon DEF AtMostOne
<1>4. QED
  BY <1>1, <1>3 DEF DemoInv

LEMMA CloseStep ==
  ASSUME DemoInv, Demo!Close
  PROVE  DemoInv'
<1>1. /\ demoPhase' = "closed" /\ restoring' = {} /\ stored' = stored
      /\ left' = IF demoPhase = "open" THEN {Demo!Session} ELSE {}
      /\ Demo!Become(Demo!InitialSession)
  BY DEF Demo!Close
<1>2. ShownOK'
  BY <1>1, InitialOK, BecomeFields, Zenon
<1>3. Demo!Session' = Demo!InitialSession
  BY <1>1, InitialFields, Zenon
     DEF Demo!Become, Demo!Session, Demo!InitialSession
<1>4. SessionOK(Demo!Session)
  BY SessionIsShown, Zenon DEF DemoInv
<1>5. AtMostOne(left') /\ AtMostOne(restoring')
  BY <1>1, Zenon DEF AtMostOne
<1>6. left' # {} => stored' = left'
  BY <1>1 DEF DemoInv
<1>7. QED
  BY <1>1, <1>2, <1>3, <1>4, <1>5, <1>6, ForeignIsNone DEF DemoInv

LEMMA DemoStep ==
  ASSUME DemoInv, Demo!PanelNext \/ UNCHANGED browser
  PROVE  DemoInv'
<1>1. CASE UNCHANGED browser
  <2>1. UNCHANGED <<current_tick, selected_symbol, latest_signal,
                    latest_order, portfolio, performance, stored, restoring,
                    demoPhase, left>>
    BY <1>1 DEF browser
  <2>2. ShownOK' /\ Demo!Session' = Demo!Session
    BY <2>1, Zenon DEF DemoInv, ShownOK, Demo!Session
  <2>3. QED
    BY <2>1, <2>2 DEF DemoInv
<1>2. QED
  BY <1>1, MountStep, RestoreStep, SaveStep, ActStep, ResetStep, CloseStep,
     Zenon DEF Demo!PanelNext

LEMMA DemoInvariant == Spec => []DemoInv
<1>1. Init => DemoInv
  BY DemoInit
<1>2. DemoInv /\ [Next]_vars => DemoInv'
  BY PartSteps, DemoStep, Zenon
<1>3. QED
  BY <1>1, <1>2, PTL DEF Spec

(***************************************************************************)
(* Whenever the page was closed at rest, the next visit restores the very  *)
(* session that was left, although mounting overwrites its copy in         *)
(* localStorage before it is shown (the two effects of                     *)
(* BrowserOnlyMockDemoPanel.tsx).                                          *)
(***************************************************************************)
THEOREM ComesBackSafe == Spec => []ComesBack
<1>1. DemoInv => ComesBack
  BY Zenon DEF DemoInv, ComesBack, Demo!ComesBack
<1>2. QED
  BY <1>1, DemoInvariant, PTL

-----------------------------------------------------------------------------
(* What the demo shows of an order *)

\* The quote an order met.
Met(o) == Demo!MarketSnapshot(o.symbol, o.tick)

LEMMA ShownOrder ==
  ASSUME ShownOK, latest_order # Demo!NoOrder
  PROVE  /\ OrderTells(latest_order, Met(latest_order))
         /\ latest_order.tick \in 0..current_tick
<1>1. PICK t \in 0..current_tick, symbol \in Demo!BrowserMockSymbol,
           direction \in Directions, quantity \in 1..20 :
             latest_order = OrderAt(t, symbol, direction, quantity)
  BY Zenon DEF ShownOK, MadeBy
<1>2. t \in Nat
  BY DemoConstants DEF ShownOK
<1>3. latest_order.tick = t
  BY <1>1, Zenon DEF OrderAt
<1>4. QED
  BY <1>1, <1>2, <1>3, OrdersTell, Zenon DEF Met

LEMMA NoOrderOutcome == Demo!NoOrder.simulation_outcome = "none"
BY DEF Demo!NoOrder, Demo!None

(***************************************************************************)
(* Whatever signal an order was placed on, however old, it only trades on  *)
(* a fresh and liquid quote, within the exposure limit, at the touch or    *)
(* worse; for all quantities and any length of the session (simulateFill,  *)
(* evaluateRisk).                                                          *)
(***************************************************************************)
THEOREM FillsAreConservativeSafe == Spec => []FillsAreConservative
<1>1. ASSUME DemoInv
      PROVE  FillsAreConservative
  <2> DEFINE o == latest_order
             quote == Met(o)
  <2>1. SUFFICES ASSUME o.simulation_outcome \in {"FILLED",
                                                  "PARTIALLY_FILLED"}
                 PROVE  /\ quote.market_regime \notin {"stale_quote",
                                                       "illiquid"}
                        /\ quote.quote_age_seconds <= 3
                        /\ o.quantity * Demo!TxEquivalentRatio[o.symbol]
                             <= Demo!MaxTxEquivalentExposure
                        /\ IF o.side = "BUY"
                             THEN o.simulated_fill_price >= quote.ask
                             ELSE o.simulated_fill_price <= quote.bid
    BY Zenon DEF FillsAreConservative, Demo!FillsAreConservative, Met
  <2>2. o # Demo!NoOrder
    BY <2>1, NoOrderOutcome
  <2>3. OrderTells(o, quote)
    BY <1>1, <2>2, ShownOrder, Zenon DEF DemoInv
  <2> HIDE DEF o, quote
  <2>4. o.simulated_fill_quantity \in Nat /\ o.simulated_fill_quantity # 0
    BY <2>1, <2>3 DEF OrderTells
  <2>5. o.simulated_fill_quantity > 0
    BY <2>4
  <2>6. QED
    BY <2>3, <2>5, Zenon DEF OrderTells, Trades
<1>2. QED
  BY <1>1, DemoInvariant, PTL

\* The outcome of an order is one of three, and an order that was refused is
\* rejected.
LEMMA Outcomes ==
  ASSUME NEW o, NEW quote, OrderTells(o, quote)
  PROVE  /\ o.simulation_outcome \in {"FILLED", "PARTIALLY_FILLED",
                                      "REJECTED"}
         /\ ~o.risk_approved => o.simulation_outcome = "REJECTED"
         /\ o.simulation_outcome \in {"FILLED", "PARTIALLY_FILLED"} <=>
              o.simulated_fill_quantity > 0
         /\ o.remaining_quantity > 0 <=>
              o.simulation_outcome \in {"PARTIALLY_FILLED", "REJECTED"}
<1>1. /\ o.quantity \in 1..20 /\ o.simulated_fill_quantity \in 0..o.quantity
      /\ o.remaining_quantity = o.quantity - o.simulated_fill_quantity
      /\ o.simulation_outcome =
           IF o.simulated_fill_quantity = 0 THEN "REJECTED"
           ELSE IF o.remaining_quantity = 0 THEN "FILLED"
           ELSE "PARTIALLY_FILLED"
  BY Zenon DEF OrderTells
<1>2. ~o.risk_approved => ~(o.simulated_fill_quantity > 0)
  BY Zenon DEF OrderTells, Trades
<1>3. QED
  BY <1>1, <1>2

\* The backend's name of a status.
BackendStatus(s) == IF s = "PENDING" THEN "NEW" ELSE s

Leads(from, to) ==
  \E event \in Demo!OrderEventType \ {"MARK_UNKNOWN"} :
    /\ Demo!CanApply(BackendStatus(from), event)
    /\ Demo!EVENT_TARGET_STATUS[event] = to

LEMMA LegalSteps ==
  /\ Leads("PENDING", "RISK_CHECKED")
  /\ Leads("RISK_CHECKED", "REJECTED")
  /\ Leads("RISK_CHECKED", "SUBMITTED")
  /\ Leads("SUBMITTED", "ACCEPTED")
  /\ Leads("ACCEPTED", "REJECTED")
  /\ Leads("ACCEPTED", "FILLED")
  /\ Leads("ACCEPTED", "PARTIALLY_FILLED")
<1> USE DEF Leads, BackendStatus, Demo!OrderEventType, Demo!CanApply,
            Demo!EVENT_TARGET_STATUS, Demo!ALLOWED_TRANSITIONS,
            Demo!OrderStatus
<1>1. Leads("PENDING", "RISK_CHECKED")
  <2>1. WITNESS "RISK_APPROVE" \in Demo!OrderEventType \ {"MARK_UNKNOWN"}
  <2>2. QED
    OBVIOUS
<1>2. Leads("RISK_CHECKED", "REJECTED") /\ Leads("ACCEPTED", "REJECTED")
  OBVIOUS
<1>3. Leads("RISK_CHECKED", "SUBMITTED") /\ Leads("SUBMITTED", "ACCEPTED")
  OBVIOUS
<1>4. Leads("ACCEPTED", "FILLED") /\ Leads("ACCEPTED", "PARTIALLY_FILLED")
  OBVIOUS
<1>5. QED
  BY <1>1, <1>2, <1>3, <1>4

LEMMA ThreeParts ==
  ASSUME NEW S, NEW a \in Seq(S), NEW b \in Seq(S), NEW c \in Seq(S)
  PROVE  /\ Len(a \o b \o c) = Len(a) + Len(b) + Len(c)
         /\ \A i \in 1..Len(a) : (a \o b \o c)[i] = a[i]
         /\ \A i \in 1..Len(b) : (a \o b \o c)[Len(a) + i] = b[i]
         /\ \A i \in 1..Len(c) : (a \o b \o c)[Len(a) + Len(b) + i] = c[i]
<1>1. a \o b \in Seq(S) /\ Len(a \o b) = Len(a) + Len(b)
  OBVIOUS
<1>2. /\ Len(a) \in Nat /\ Len(b) \in Nat
  OBVIOUS
<1>3. /\ \A i \in 1..Len(a) : (a \o b)[i] = a[i]
      /\ \A i \in 1..Len(b) : (a \o b)[Len(a) + i] = b[i]
  BY <1>2
<1>4. /\ Len((a \o b) \o c) = Len(a \o b) + Len(c)
      /\ \A i \in 1..Len(a \o b) : ((a \o b) \o c)[i] = (a \o b)[i]
      /\ \A i \in 1..Len(c) : ((a \o b) \o c)[Len(a \o b) + i] = c[i]
  BY <1>1
<1>5. QED
  BY <1>1, <1>2, <1>3, <1>4

LEMMA TimelineLegal ==
  ASSUME NEW o, NEW quote, OrderTells(o, quote)
  PROVE  LET timeline == Demo!OmsTimeline(o) IN
           /\ \A i \in 1..(Len(timeline) - 1) :
                Leads(timeline[i], timeline[i + 1])
           /\ timeline[Len(timeline)] = o.simulation_outcome
<1> DEFINE end == o.simulation_outcome
<1>1. CASE o.risk_approved
  <2>1. Demo!OmsTimeline(o) =
          <<"PENDING", "RISK_CHECKED">> \o <<"SUBMITTED", "ACCEPTED">> \o <<end>>
    BY <1>1, Zenon DEF Demo!OmsTimeline
  <2> HIDE DEF end
  <2>2. LET timeline == Demo!OmsTimeline(o) IN
          /\ Len(timeline) = 5
          /\ timeline[1] = "PENDING" /\ timeline[2] = "RISK_CHECKED"
          /\ timeline[3] = "SUBMITTED" /\ timeline[4] = "ACCEPTED"
          /\ timeline[5] = end
    BY <2>1, ThreeParts
  <2>3. Leads("ACCEPTED", end)
    BY LegalSteps, Outcomes DEF end
  <2>4. QED
    BY <2>2, <2>3, LegalSteps DEF end
<1>2. CASE ~o.risk_approved
  <2>1. Demo!OmsTimeline(o) =
          <<"PENDING", "RISK_CHECKED">> \o <<>> \o <<end>>
    BY <1>2, Zenon DEF Demo!OmsTimeline
  <2> HIDE DEF end
  <2>2. LET timeline == Demo!OmsTimeline(o) IN
          /\ Len(timeline) = 3
          /\ timeline[1] = "PENDING" /\ timeline[2] = "RISK_CHECKED"
          /\ timeline[3] = end
    BY <2>1, ThreeParts
  <2>3. Leads("RISK_CHECKED", end)
    BY <1>2, LegalSteps, Outcomes DEF end
  <2>4. QED
    BY <2>2, <2>3, LegalSteps DEF end
<1>3. QED
  BY <1>1, <1>2

(***************************************************************************)
(* The statuses the browser's own OMS shows of any order are a path        *)
(* through the backend's transition table, and only an order that traded   *)
(* ends as filled (buildOmsTimeline).                                      *)
(***************************************************************************)
THEOREM TimelineIsLegalSafe == Spec => []TimelineIsLegal
<1>1. ASSUME DemoInv
      PROVE  TimelineIsLegal
  <2> DEFINE timeline == Demo!OmsTimeline(latest_order)
  <2>1. SUFFICES ASSUME latest_order # Demo!NoOrder
                 PROVE  /\ \A i \in 1..(Len(timeline) - 1) :
                             Leads(timeline[i], timeline[i + 1])
                        /\ timeline[Len(timeline)] \in {"FILLED",
                                                        "PARTIALLY_FILLED"}
                             <=> latest_order.simulated_fill_quantity > 0
    BY Zenon DEF TimelineIsLegal, Demo!TimelineIsLegal, Leads, BackendStatus
  <2>2. OrderTells(latest_order, Met(latest_order))
    BY <1>1, <2>1, ShownOrder, Zenon DEF DemoInv
  <2>3. QED
    BY <2>2, TimelineLegal, Outcomes, Zenon
<1>2. QED
  BY <1>1, DemoInvariant, PTL

\* What the panels show for a symbol, field by field.
LEMMA Views ==
  ASSUME NEW symbol
  PROVE  LET placed == Demo!LatestOrderOf(symbol)
             realism == Demo!MarketRealismVisualizationPanel(symbol)
             chart == Demo!BrowserOnlyMockVisualizationPanel(symbol)
             now == Demo!Quality(Demo!MarketSnapshot(symbol, current_tick)) IN
           /\ realism.quality = IF placed = Demo!NoOrder THEN now
                                ELSE Demo!Quality(Met(placed))
           /\ realism.outcome = placed.simulation_outcome
           /\ realism.refused <=> placed # Demo!NoOrder /\ ~placed.risk_approved
           /\ realism.filled = IF placed = Demo!NoOrder THEN 0
                               ELSE placed.simulated_fill_quantity
           /\ chart.quality = now
           /\ chart.outcome = realism.outcome
           /\ chart.filled = realism.filled
           /\ chart.remaining = IF placed = Demo!NoOrder THEN 0
                                ELSE placed.remaining_quantity
<1> DEFINE data == Demo!BrowserOnlyVisualizationData(symbol)
<1>1. /\ data.latest_order = Demo!LatestOrderOf(symbol)
      /\ data.latest_snapshot = Demo!MarketSnapshot(symbol, current_tick)
  BY Zenon DEF Demo!BrowserOnlyVisualizationData
<1> HIDE DEF data
<1>2. LET realism == Demo!MarketRealismVisualizationPanel(symbol)
          placed == data.latest_order IN
        /\ realism.quality = IF placed = Demo!NoOrder
                               THEN Demo!Quality(data.latest_snapshot)
                             ELSE Demo!MarketRealism(placed)
        /\ realism.outcome = placed.simulation_outcome
        /\ realism.refused = (placed # Demo!NoOrder /\ ~placed.risk_approved)
        /\ realism.filled = IF placed = Demo!NoOrder THEN 0
                            ELSE placed.simulated_fill_quantity
  BY Zenon DEF Demo!MarketRealismVisualizationPanel, data
<1>3. LET chart == Demo!BrowserOnlyMockVisualizationPanel(symbol)
          placed == data.latest_order IN
        /\ chart.quality = Demo!Quality(data.latest_snapshot)
        /\ chart.outcome = placed.simulation_outcome
        /\ chart.filled = IF placed = Demo!NoOrder THEN 0
                          ELSE placed.simulated_fill_quantity
        /\ chart.remaining = IF placed = Demo!NoOrder THEN 0
                             ELSE placed.remaining_quantity
  BY Zenon DEF Demo!BrowserOnlyMockVisualizationPanel, data
<1>4. \A o : Demo!MarketRealism(o) = Demo!Quality(Met(o))
  BY Zenon DEF Demo!MarketRealism, Met
<1>5. QED
  BY <1>1, <1>2, <1>3, <1>4, Zenon

LEMMA QualityFields ==
  ASSUME NEW quote
  PROVE  /\ Demo!Quality(quote).quote_age_seconds = quote.quote_age_seconds
         /\ Demo!Quality(quote).liquidity_score = quote.liquidity_score
BY Zenon DEF Demo!Quality

(***************************************************************************)
(* Whatever symbol the visitor selects, and however far the market has     *)
(* moved on, what the panels show of quote quality, refusal and fill       *)
(* explains the outcome of the order that is shown, and the quality is one *)
(* this symbol has had (buildMarketRealism, the two visualization panels). *)
(***************************************************************************)
THEOREM OutcomeIsExplainedSafe == Spec => []OutcomeIsExplained
<1>1. ASSUME DemoInv, NEW symbol \in Demo!BrowserMockSymbol
      PROVE  LET realism == Demo!MarketRealismVisualizationPanel(symbol)
                 chart == Demo!BrowserOnlyMockVisualizationPanel(symbol) IN
        /\ \/ realism.quality = chart.quality
           \/ \E t \in 0..current_tick :
                realism.quality = Demo!Quality(Demo!MarketSnapshot(symbol, t))
        /\ realism.outcome # Demo!None =>
             (realism.filled > 0 <=>
                /\ ~realism.refused
                /\ realism.quality.quote_age_seconds <= 3
                /\ realism.quality.liquidity_score >= 20)
        /\ chart.outcome = realism.outcome /\ chart.filled = realism.filled
        /\ chart.remaining > 0 <=>
             realism.outcome \in {"PARTIALLY_FILLED", "REJECTED"}
  <2> DEFINE realism == Demo!MarketRealismVisualizationPanel(symbol)
             chart == Demo!BrowserOnlyMockVisualizationPanel(symbol)
             now == Demo!Quality(Demo!MarketSnapshot(symbol, current_tick))
             o == Demo!LatestOrderOf(symbol)
  <2>1. /\ realism.quality = IF o = Demo!NoOrder THEN now
                             ELSE Demo!Quality(Met(o))
        /\ realism.outcome = o.simulation_outcome
        /\ realism.refused <=> o # Demo!NoOrder /\ ~o.risk_approved
        /\ realism.filled = IF o = Demo!NoOrder THEN 0
                            ELSE o.simulated_fill_quantity
        /\ chart.quality = now
        /\ chart.outcome = realism.outcome
        /\ chart.filled = realism.filled
        /\ chart.remaining = IF o = Demo!NoOrder THEN 0
                             ELSE o.remaining_quantity
    BY Views, Zenon
  <2>2. CASE o = Demo!NoOrder
    <3>1. /\ realism.quality = chart.quality
          /\ realism.outcome = Demo!None
          /\ chart.remaining = 0
      BY <2>1, <2>2, NoOrderOutcome, Zenon DEF Demo!None
    <3>2. ~(0 > 0) /\ Demo!None \notin {"PARTIALLY_FILLED", "REJECTED"}
      BY DEF Demo!None
    <3>3. QED
      BY <2>1, <3>1, <3>2, Zenon
  <2>3. CASE o # Demo!NoOrder
    <3>1. o = latest_order /\ o.symbol = symbol
      BY <2>3, Zenon DEF Demo!LatestOrderOf
    <3>2. OrderTells(o, Met(o)) /\ o.tick \in 0..current_tick
      BY <1>1, <2>3, <3>1, ShownOrder, Zenon DEF DemoInv
    <3> HIDE DEF o, realism, chart
    <3>3. /\ realism.quality = Demo!Quality(Met(o))
          /\ Met(o) = Demo!MarketSnapshot(symbol, o.tick)
      BY <2>1, <2>3, <3>1, Zenon DEF Met
    <3>4. /\ realism.quality.quote_age_seconds = Met(o).quote_age_seconds
          /\ realism.quality.liquidity_score = Met(o).liquidity_score
      BY <3>3, QualityFields, Zenon
    <3>5. realism.filled > 0 <=> Trades(o, Met(o))
      BY <2>1, <2>3, <3>2, Zenon DEF OrderTells
    <3>6. chart.remaining > 0 <=>
            realism.outcome \in {"PARTIALLY_FILLED", "REJECTED"}
      BY <2>1, <2>3, <3>2, Outcomes, Zenon
    <3>7. o.risk_approved \in BOOLEAN
      BY <3>2, Zenon DEF OrderTells
    <3>8. realism.filled > 0 <=>
            /\ ~realism.refused
            /\ realism.quality.quote_age_seconds <= 3
            /\ realism.quality.liquidity_score >= 20
      BY <2>1, <2>3, <3>4, <3>5, <3>7, Zenon DEF Trades
    <3>9. QED
      BY <2>1, <3>2, <3>3, <3>6, <3>8, Zenon DEF realism, chart
  <2>4. QED
    BY <2>2, <2>3, Zenon
<1>2. DemoInv => OutcomeIsExplained
  BY <1>1, Zenon DEF OutcomeIsExplained, Demo!OutcomeIsExplained
<1>3. QED
  BY <1>2, DemoInvariant, PTL

-----------------------------------------------------------------------------
(* The types of all parts *)

LEMMA ListTyped ==
  ASSUME ConstantsAssumption, runsRecorded \in Seq(Runs)
  PROVE  /\ Records!ListRuns \in Seq(Runs)
         /\ Len(Records!ListRuns) <= RunLimit
         /\ Records!First(Records!ListRuns) \in Runs \cup {Nothing}
<1> DEFINE n == IF Len(runsRecorded) < RunLimit THEN Len(runsRecorded)
                ELSE RunLimit
           list == SubSeq(runsRecorded, 1, n)
<1>1. n \in Nat /\ n <= RunLimit /\ n <= Len(runsRecorded)
  BY DEF ConstantsAssumption, Records!ConstantsAssumption
<1> HIDE DEF n
<1>2. list \in Seq(Runs) /\ Len(list) = n
  BY <1>1
<1> HIDE DEF list
<1>3. list # <<>> => list[1] \in Runs
  BY <1>2
<1>4. Records!First(list) \in Runs \cup {Nothing}
  BY <1>3 DEF Records!First
<1>5. Records!ListRuns = list
  BY DEF Records!ListRuns, list, n
<1>6. QED
  BY <1>1, <1>2, <1>4, <1>5

RecordsRequest ==
  [ id : 0..(MaxTimelines - 1), run : Runs,
    missing : (SUBSET Records!Timeline) \ {{}} ]

RecordsTypeInv ==
  /\ runsRecorded \in Seq(Runs)
  /\ runs \in Seq(Runs) /\ Len(runs) <= RunLimit
  /\ {selected, oms, audit} \subseteq Runs \cup {Nothing}
  /\ runsError \in BOOLEAN /\ loading \in BOOLEAN /\ calm \in BOOLEAN
  /\ runRequests \subseteq RecordsRequest
  /\ runClicks \in 0..MaxTimelines

LEMMA RecordsTypeStep ==
  ASSUME ConstantsAssumption, RecordsTypeInv,
         Records!Next \/ UNCHANGED records
  PROVE  RecordsTypeInv'
<1> USE DEF RecordsTypeInv
<1>0. MaxTimelines \in Nat
  BY DEF ConstantsAssumption, Records!ConstantsAssumption
<1>1. CASE Records!Visit
  <2>1. /\ Records!ListRuns \in Seq(Runs)
        /\ Len(Records!ListRuns) <= RunLimit
        /\ Records!First(Records!ListRuns) \in Runs \cup {Nothing}
    BY ListTyped
  <2>2. /\ runs' = Records!ListRuns
        /\ selected' = Records!First(Records!ListRuns)
        /\ oms' \in {Records!First(Records!ListRuns), Nothing}
        /\ audit' \in {Records!First(Records!ListRuns), Nothing}
        /\ runRequests' = {} /\ runClicks' = 0
        /\ runsRecorded' = runsRecorded
    BY <1>1 DEF Records!Visit, Records!Mount
  <2>3. /\ runsError' \in BOOLEAN /\ loading' \in BOOLEAN
        /\ calm' \in BOOLEAN
    BY <1>1, Zenon DEF Records!Visit, Records!Mount
  <2>4. /\ runs' \in Seq(Runs) /\ Len(runs') <= RunLimit
        /\ {selected', oms', audit'} \subseteq Runs \cup {Nothing}
    BY <2>1, <2>2
  <2>5. runClicks' \in 0..MaxTimelines /\ runRequests' \subseteq RecordsRequest
    BY <1>0, <2>2
  <2>6. QED
    BY <2>2, <2>3, <2>4, <2>5
<1>2. CASE Records!Refresh
  <2>1. UNCHANGED calm
    BY <1>2, Zenon DEF Records!Refresh
  <2>2. UNCHANGED <<runsError, loading>>
    BY <1>2, Zenon DEF Records!Refresh, Records!panel
  <2>3. /\ runs' = Records!ListRuns
        /\ UNCHANGED <<runsRecorded, selected, oms, audit>>
        /\ UNCHANGED <<runRequests, runClicks>>
    BY <1>2 DEF Records!Refresh, Records!panel
  <2>4. runs' \in Seq(Runs) /\ Len(runs') <= RunLimit
    BY <2>3, ListTyped
  <2>5. QED
    BY <2>1, <2>2, <2>3, <2>4
<1>3. ASSUME NEW run \in Runs, Records!Record(run)
      PROVE  RecordsTypeInv'
  <2>1. <<run>> \in Seq(Runs)
    OBVIOUS
  <2>2. runsRecorded' \in Seq(Runs)
    BY <1>3, <2>1 DEF Records!Record
  <2>3. QED
    BY <1>3, <2>2 DEF Records!Record, Records!panel
<1>4. ASSUME NEW run \in Runs, Records!SelectRun(run)
      PROVE  RecordsTypeInv'
  <2> DEFINE request == [ id |-> runClicks, run |-> run,
                          missing |-> Records!Timeline ]
  <2>1. request \in RecordsRequest
    BY <1>0, <1>4 DEF Records!SelectRun, RecordsRequest, Records!Timeline
  <2>2. runRequests' = runRequests \cup {request}
    BY <1>4 DEF Records!SelectRun
  <2>3. /\ runsError' \in BOOLEAN /\ loading' \in BOOLEAN
        /\ calm' \in BOOLEAN
    BY <1>4, Zenon DEF Records!SelectRun
  <2> HIDE DEF request
  <2>4. /\ selected' = run
        /\ runClicks' \in 0..MaxTimelines
        /\ UNCHANGED <<runsRecorded, runs, oms, audit>>
    BY <1>0, <1>4 DEF Records!SelectRun
  <2>5. QED
    BY <2>1, <2>2, <2>3, <2>4
<1>5. ASSUME NEW request \in runRequests, Records!Fail(request)
      PROVE  RecordsTypeInv'
  BY <1>5 DEF Records!Fail, Records!ClearOnFailure
<1>6. ASSUME NEW request \in runRequests, NEW timeline \in Records!Timeline,
             Records!Answer(request, timeline)
      PROVE  RecordsTypeInv'
  <2> DEFINE rest == [request EXCEPT !.missing = @ \ {timeline}]
  <2>1. request.missing # {timeline} => rest \in RecordsRequest
    <3>1. request \in RecordsRequest /\ timeline \in request.missing
      BY <1>6 DEF Records!Answer
    <3> HIDE DEF RecordsTypeInv
    <3>2. request.missing # {timeline} =>
            request.missing \ {timeline}
              \in (SUBSET Records!Timeline) \ {{}}
      BY <3>1 DEF RecordsRequest
    <3>3. QED
      BY <3>1, <3>2 DEF RecordsRequest
  <2>2. runRequests' \subseteq runRequests
          \cup (IF request.missing = {timeline} THEN {} ELSE {rest})
    BY <1>6 DEF Records!Answer
  <2> HIDE DEF rest
  <2>3. runRequests' \subseteq RecordsRequest
    BY <2>1, <2>2
  <2>4. request.run \in Runs
    BY DEF RecordsRequest
  <2>5. QED
    BY <1>6, <2>3, <2>4 DEF Records!Answer, Records!ShowWhenComplete
<1>7. CASE UNCHANGED records
  BY <1>7 DEF records
<1>8. QED
  BY <1>1, <1>2, <1>3, <1>4, <1>5, <1>6, <1>7 DEF Records!Next

LEMMA RecordsTyped ==
  ASSUME RecordsTypeInv
  PROVE  Records!TypeOK
BY DEF RecordsTypeInv, RecordsRequest, Records!TypeOK

TimeoutRequest ==
  [ id : 0..(MaxActions - 1), action : {"preview", "mark"}, order : Orders,
    outcome : {"sent", "checked", "ok", "refused"} ]

Renderings == {{}} \cup {{seen} : seen \in SUBSET Orders}

TimeoutTypeInv ==
  /\ expired \subseteq Orders /\ candidates \subseteq Orders
  /\ previewed \subseteq Orders /\ marked \subseteq Orders
  /\ refreshes \in Nat /\ rendering \in Renderings
  /\ {preview, mark} \subseteq Orders \cup {Nothing}
  /\ preview = Nothing \/ mark = Nothing
  /\ failed \in BOOLEAN
  /\ pending \in [action : {"preview", "mark"}, order : Orders]
                   \cup {Timeout!NoAction}
  /\ timeoutRequests \subseteq TimeoutRequest
  /\ timeoutClicks \in 0..MaxActions

LEMMA TimeoutTypeStep ==
  ASSUME ConstantsAssumption, TimeoutTypeInv,
         Timeout!Next \/ UNCHANGED timeout
  PROVE  TimeoutTypeInv'
<1> USE DEF TimeoutTypeInv
<1>0. MaxActions \in Nat
  BY DEF ConstantsAssumption, Timeout!ConstantsAssumption
<1>1. CASE Timeout!Visit
  <2>1. failed' \in BOOLEAN
    BY <1>1, Zenon DEF Timeout!Visit
  <2>2. /\ candidates' \subseteq Orders /\ previewed' = {} /\ marked' = {}
        /\ preview' = Nothing /\ mark' = Nothing
        /\ pending' = Timeout!NoAction
        /\ timeoutRequests' = {} /\ timeoutClicks' = 0
        /\ refreshes' = 0 /\ rendering' = {} /\ expired' = expired
    BY <1>1 DEF Timeout!Visit, Timeout!Candidates
  <2>3. timeoutClicks' \in 0..MaxActions /\ rendering' \in Renderings
    BY <1>0, <2>2 DEF Renderings
  <2>4. QED
    BY <2>1, <2>2, <2>3
<1>2. CASE Timeout!RefreshReads
  <2>1. PICK seen \in SUBSET (Orders \ expired) : rendering' = {seen}
    BY <1>2 DEF Timeout!RefreshReads, Timeout!Candidates
  <2>2. rendering' \in Renderings
    BY <2>1 DEF Renderings
  <2>3. /\ refreshes' \in Nat
        /\ UNCHANGED <<expired, candidates, preview, mark, failed, pending>>
        /\ UNCHANGED <<timeoutRequests, timeoutClicks, previewed, marked>>
    BY <1>2 DEF Timeout!RefreshReads, Timeout!panel, Timeout!visit
  <2>4. QED
    BY <2>2, <2>3
<1>3. CASE Timeout!RefreshArrives
  <2>1. candidates' \subseteq Orders
    BY <1>3 DEF Timeout!RefreshArrives, Renderings
  <2>2. rendering' \in Renderings
    BY <1>3 DEF Timeout!RefreshArrives, Renderings
  <2>3. /\ UNCHANGED <<expired, refreshes, preview, mark, failed, pending>>
        /\ UNCHANGED <<timeoutRequests, timeoutClicks, previewed, marked>>
    BY <1>3 DEF Timeout!RefreshArrives, Timeout!panel, Timeout!visit
  <2>4. QED
    BY <2>1, <2>2, <2>3
<1>4. ASSUME NEW o \in Orders, Timeout!Expire(o) \/ Timeout!Record(o)
      PROVE  TimeoutTypeInv'
  <2>1. expired' \subseteq Orders /\ marked' \subseteq Orders
    BY <1>4 DEF Timeout!Expire, Timeout!Record, Timeout!visit
  <2>2. /\ UNCHANGED <<candidates, refreshes, rendering>>
        /\ UNCHANGED <<preview, mark, failed, pending>>
        /\ UNCHANGED <<timeoutRequests, timeoutClicks, previewed>>
    BY <1>4 DEF Timeout!Expire, Timeout!Record, Timeout!page,
                Timeout!panel, Timeout!visit
  <2>3. QED
    BY <2>1, <2>2
<1>5. ASSUME NEW o \in Orders, NEW action \in {"preview", "mark"},
             Timeout!Click(action, o)
      PROVE  TimeoutTypeInv'
  <2> DEFINE request == [ id |-> timeoutClicks, action |-> action,
                          order |-> o, outcome |-> "sent" ]
  <2>1. request \in TimeoutRequest
    BY <1>0, <1>5 DEF Timeout!Click, TimeoutRequest
  <2>2. timeoutRequests' = timeoutRequests \cup {request}
    BY <1>5 DEF Timeout!Click
  <2>3. failed' \in BOOLEAN
    BY <1>5, Zenon DEF Timeout!Click
  <2> HIDE DEF request
  <2>4. /\ timeoutClicks' \in 0..MaxActions
        /\ pending' \in [action : {"preview", "mark"}, order : Orders]
        /\ UNCHANGED <<expired, candidates, refreshes, rendering>>
        /\ UNCHANGED <<preview, mark, previewed, marked>>
    BY <1>0, <1>5 DEF Timeout!Click, Timeout!ActionKey, Timeout!page
  <2>5. QED
    BY <2>1, <2>2, <2>3, <2>4
<1>6. ASSUME NEW r \in timeoutRequests,
             Timeout!Check(r) \/ Timeout!Commit(r) \/ Timeout!Refuse(r)
      PROVE  TimeoutTypeInv'
  <2>1. PICK outcome \in {"checked", "ok", "refused"} :
          Timeout!Proceeds(r, outcome)
    BY <1>6, Zenon DEF Timeout!Check, Timeout!Commit, Timeout!Refuse
  <2> DEFINE request == [r EXCEPT !.outcome = outcome]
  <2>2. request \in TimeoutRequest
    BY DEF TimeoutRequest
  <2>3. timeoutRequests' = (timeoutRequests \ {r}) \cup {request}
    BY <2>1 DEF Timeout!Proceeds
  <2> HIDE DEF request
  <2>4. timeoutRequests' \subseteq TimeoutRequest
    BY <2>2, <2>3
  <2>5. expired' \subseteq Orders
    <3>1. r.order \in Orders
      BY DEF TimeoutRequest
    <3>2. expired' \subseteq expired \cup {r.order}
      BY <1>6 DEF Timeout!Check, Timeout!Commit, Timeout!Refuse
    <3>3. QED
      BY <3>1, <3>2
  <2>6. /\ UNCHANGED <<candidates, refreshes, rendering>>
        /\ UNCHANGED <<preview, mark, failed, pending>>
        /\ UNCHANGED <<timeoutClicks, previewed, marked>>
    BY <2>1 DEF Timeout!Proceeds, Timeout!page, Timeout!panel
  <2>7. QED
    BY <2>4, <2>5, <2>6
<1>7. ASSUME NEW r \in timeoutRequests, Timeout!Receive(r)
      PROVE  TimeoutTypeInv'
  <2>1. failed' = failed
    BY <1>7, Zenon DEF Timeout!Receive
  <2>2. r.order \in Orders
    BY DEF TimeoutRequest
  <2>3. /\ {preview', mark'} \subseteq Orders \cup {Nothing}
        /\ preview' = Nothing \/ mark' = Nothing
        /\ previewed' \subseteq Orders /\ marked' \subseteq Orders
        /\ pending' = Timeout!NoAction
        /\ timeoutRequests' \subseteq TimeoutRequest
        /\ UNCHANGED <<expired, candidates, rendering, timeoutClicks>>
    BY <1>7, <2>2 DEF Timeout!Receive
  <2>4. refreshes' \in Nat
    BY <1>7 DEF Timeout!Receive, Timeout!RefreshesAfter
  <2>5. QED
    BY <2>1, <2>3, <2>4
<1>8. ASSUME NEW r \in timeoutRequests, Timeout!ReceiveError(r)
      PROVE  TimeoutTypeInv'
  <2>1. failed' \in BOOLEAN
    BY <1>8, Zenon DEF Timeout!ReceiveError
  <2>2. /\ pending' = Timeout!NoAction
        /\ timeoutRequests' \subseteq TimeoutRequest
        /\ UNCHANGED <<expired, candidates, refreshes, rendering>>
        /\ UNCHANGED <<preview, mark, previewed, marked, timeoutClicks>>
    BY <1>8 DEF Timeout!ReceiveError, Timeout!PendingAfter, Timeout!page
  <2>3. QED
    BY <2>1, <2>2
<1>9. CASE UNCHANGED timeout
  BY <1>9 DEF timeout
<1>10. QED
  BY <1>1, <1>2, <1>3, <1>4, <1>5, <1>6, <1>7, <1>8, <1>9 DEF Timeout!Next

LEMMA TimeoutTyped ==
  ASSUME TimeoutTypeInv
  PROVE  Timeout!TypeOK
BY DEF TimeoutTypeInv, TimeoutRequest, Renderings, Timeout!TypeOK

PreviewRequest == [id : 0..(MaxPreviews - 1), form : Forms]

PreviewTypeInv ==
  /\ form \in Forms
  /\ previewing \in BOOLEAN /\ previewError \in BOOLEAN
  /\ result \in Accepted \cup {Nothing}
  /\ status \in {"initial", "previewing", "ready", "none"}
  /\ previewRequests \subseteq PreviewRequest
  /\ previewClicks \in [count : 0..MaxPreviews, last : Forms \cup {Nothing}]

LEMMA PreviewTypeStep ==
  ASSUME ConstantsAssumption, PreviewTypeInv,
         Preview!Next \/ UNCHANGED brokerPreview
  PROVE  PreviewTypeInv'
<1> USE DEF PreviewTypeInv
<1>0. MaxPreviews \in Nat
  BY DEF ConstantsAssumption, Preview!ConstantsAssumption
<1>1. CASE Preview!Edit
  BY <1>1 DEF Preview!Edit
<1>2. CASE Preview!Submit
  <2> DEFINE request == [id |-> previewClicks.count, form |-> form]
  <2>1. request \in PreviewRequest
    BY <1>0, <1>2 DEF Preview!Submit, PreviewRequest
  <2>2. previewRequests' = previewRequests \cup {request}
    BY <1>2 DEF Preview!Submit
  <2> HIDE DEF request
  <2>3. /\ previewClicks' \in
             [count : 0..MaxPreviews, last : Forms \cup {Nothing}]
        /\ form' = form /\ result' = Nothing /\ status' = "previewing"
    BY <1>0, <1>2 DEF Preview!Submit
  <2>4. previewing' \in BOOLEAN /\ previewError' \in BOOLEAN
    BY <1>2, Zenon DEF Preview!Submit
  <2>5. QED
    BY <2>1, <2>2, <2>3, <2>4
<1>3. ASSUME NEW r \in previewRequests, Preview!Receive(r)
      PROVE  PreviewTypeInv'
  BY <1>3 DEF Preview!Receive
<1>4. ASSUME NEW r \in previewRequests, Preview!ReceiveError(r)
      PROVE  PreviewTypeInv'
  BY <1>4 DEF Preview!ReceiveError, Preview!PreviewingAfter
<1>5. CASE UNCHANGED brokerPreview
  BY <1>5 DEF brokerPreview
<1>6. QED
  BY <1>1, <1>2, <1>3, <1>4, <1>5 DEF Preview!Next

LEMMA PreviewTyped ==
  ASSUME PreviewTypeInv
  PROVE  Preview!TypeOK
BY DEF PreviewTypeInv, PreviewRequest, Preview!TypeOK

LEMMA EvidenceTyped ==
  ASSUME EvidenceInv
  PROVE  Evidence!TypeOK
BY DEF EvidenceInv, Evidence!Validate, Evidence!TypeOK

\* Besides MockTypeInv and AloneInv.
MockFlagsInv == mockError \in BOOLEAN /\ alone \in BOOLEAN

LEMMA MockFlagsStep ==
  ASSUME MockFlagsInv, MockDemo!Next \/ UNCHANGED mock
  PROVE  MockFlagsInv'
<1> USE DEF MockFlagsInv
<1>1. ASSUME NEW asked, NEW id, NEW sent, MockDemo!Begin(asked, id, sent)
      PROVE  MockFlagsInv'
  BY <1>1, Zenon DEF MockDemo!Begin
<1>2. CASE \/ MockDemo!GenerateNextTick \/ MockDemo!ResetDemoSession
           \/ \E symbol \in Symbols :
                \/ MockDemo!RunMockStrategy(symbol)
                \/ MockDemo!SimulatePaperOrder(symbol)
  BY <1>1, <1>2, Zenon
     DEF MockDemo!GenerateNextTick, MockDemo!ResetDemoSession,
         MockDemo!RunMockStrategy, MockDemo!SimulatePaperOrder
<1>3. ASSUME NEW asked, NEW id, MockDemo!Elsewhere(asked, id)
      PROVE  MockFlagsInv'
  BY <1>3, Zenon DEF MockDemo!Elsewhere
<1>4. ASSUME NEW v, MockDemo!Copy(v) \/ MockDemo!Assign(v) \/ MockDemo!Answer(v)
      PROVE  MockFlagsInv'
  <2>1. UNCHANGED <<mockError, alone>>
    BY <1>4, Zenon DEF MockDemo!Copy, MockDemo!Assign, MockDemo!Answer,
                       MockDemo!panel
  <2>2. QED
    BY <2>1, Zenon
<1>5. CASE MockDemo!Receive
  BY <1>5, Zenon DEF MockDemo!Receive
<1>6. CASE MockDemo!ReceiveSession
  BY <1>6, Zenon DEF MockDemo!ReceiveSession
<1>7. CASE MockDemo!ReceiveError
  BY <1>7, Zenon DEF MockDemo!ReceiveError
<1>8. CASE MockDemo!Leave
  BY <1>8, Zenon DEF MockDemo!Leave, MockDemo!panel
<1>9. CASE MockDemo!Reload
  BY <1>9, Zenon DEF MockDemo!Reload
<1>10. CASE UNCHANGED mock
  BY <1>10, Zenon DEF mock
<1>11. QED
  BY <1>2, <1>3, <1>4, <1>5, <1>6, <1>7, <1>8, <1>9, <1>10, Zenon
     DEF MockDemo!Next

LEMMA MockTyped ==
  ASSUME MockTypeInv, AloneInv, MockFlagsInv
  PROVE  MockDemo!TypeOK
<1>1. session \in Sessions
  BY DEF MockTypeInv, Coherent
<1>2. \A v \in MockDemo!Visitors : call[v] \in Calls
  BY DEF MockTypeInv
<1>3. {working, mockError, alone} \subseteq BOOLEAN
  BY Zenon DEF AloneInv, MockFlagsInv
<1>4. /\ tick \in 1..MaxMockTick /\ market \in (0..MaxMockTick) \cup {Nothing}
      /\ {signal, order} \subseteq MockDemo!Ids \cup {Nothing}
  BY DEF MockTypeInv
<1>5. \A v \in MockDemo!Visitors :
        /\ call[v].kind \in {"none", "load", "tick", "strategy", "order",
                             "reset", "refetch"}
        /\ call[v].at \in {"sent", "copied", "handled"}
  BY <1>2 DEF Calls
<1>6. QED
  BY <1>1, <1>3, <1>4, <1>5, Zenon DEF Sessions, MockDemo!TypeOK

LEMMA PageTyped ==
  ASSUME PageTypeInv
  PROVE  Page!TypeOK
<1>1. ASSUME NEW r \in Page!Resource, reply[r] # Page!Waiting
      PROVE  /\ reply[r].available \in BOOLEAN
             /\ reply[r].data.settings \in Deployments \cup {Page!PaperSettings}
             /\ reply[r].data.run \in PageRuns \cup {Nothing}
  <2>1. reply[r] \in [available : BOOLEAN, data : Answers]
    BY <1>1 DEF PageTypeInv, Replies
  <2>2. QED
    BY <2>1 DEF Answers
<1>2. QED
  BY <1>1, Zenon DEF PageTypeInv, Page!TypeOK

BrowserOrders ==
  [ symbol : Demo!BrowserMockSymbol, side : {"BUY", "SELL"},
    quantity : 1..20, risk_approved : BOOLEAN, tick : 0..MaxTick,
    simulation_outcome : {"FILLED", "PARTIALLY_FILLED", "REJECTED"},
    simulated_fill_quantity : Nat, simulated_fill_price : Nat,
    remaining_quantity : Nat ]

LEMMA ShownOrderTyped ==
  ASSUME ShownOK, latest_order # Demo!NoOrder
  PROVE  latest_order \in BrowserOrders
<1>1. PICK t \in 0..current_tick, symbol \in Demo!BrowserMockSymbol,
           direction \in Directions, quantity \in 1..20 :
             latest_order = OrderAt(t, symbol, direction, quantity)
  BY Zenon DEF ShownOK, MadeBy
<1> DEFINE o == latest_order
<1>2. /\ DOMAIN o = { "symbol", "side", "quantity", "tick", "risk_approved",
                       "simulation_outcome", "simulated_fill_quantity",
                       "simulated_fill_price", "remaining_quantity" }
      /\ o = [n \in DOMAIN o |-> o[n]]
  BY <1>1, SMT DEF OrderAt
<1>3. OrderTells(o, Met(o)) /\ o.tick \in 0..MaxTick
  BY ShownOrder, DemoConstants DEF ShownOK
<1> HIDE DEF o
<1>4. /\ o.symbol \in Demo!BrowserMockSymbol
      /\ o.side \in {"BUY", "SELL"} /\ o.quantity \in 1..20
      /\ o.risk_approved \in BOOLEAN
      /\ o.simulated_fill_quantity \in 0..o.quantity
      /\ o.simulated_fill_price \in Nat
      /\ o.remaining_quantity = o.quantity - o.simulated_fill_quantity
      /\ o.simulation_outcome \in {"FILLED", "PARTIALLY_FILLED", "REJECTED"}
  BY <1>3 DEF OrderTells
<1>5. o.simulated_fill_quantity \in Nat /\ o.remaining_quantity \in Nat
  BY <1>4
<1>6. o \in BrowserOrders
  BY <1>2, <1>3, <1>4, <1>5 DEF BrowserOrders
<1>7. QED
  BY <1>6 DEF o

LEMMA AtMostOneCounted ==
  ASSUME NEW S, AtMostOne(S)
  PROVE  Demo!Cardinality(S) <= 1
<1>0. Demo!Cardinality(S) = Cardinality(S)
  BY DEF Demo!Cardinality, Cardinality
<1>1. CASE S = {}
  BY <1>0, <1>1, FS_EmptySet
<1>2. CASE \E x : S = {x}
  <2>1. PICK x : S = {x}
    BY <1>2
  <2>2. Cardinality({x}) = 1
    BY FS_Singleton
  <2>3. QED
    BY <1>0, <2>1, <2>2
<1>3. QED
  BY <1>1, <1>2 DEF AtMostOne

LEMMA DemoTyped ==
  ASSUME DemoInv
  PROVE  Demo!PanelTypeOK
<1>1. /\ ShownOK
      /\ demoPhase \in {"closed", "mounting", "changed", "open"}
      /\ AtMostOne(stored) /\ AtMostOne(restoring) /\ AtMostOne(left)
  BY Zenon DEF DemoInv
<1>2. latest_order = Demo!NoOrder \/ latest_order \in BrowserOrders
  BY <1>1, ShownOrderTyped, Zenon
<1>3. latest_signal \in {Demo!None, "LONG", "SHORT", "FLAT"}
  BY <1>1 DEF ShownOK, Directions
<1>4. Demo!TypeOK
  BY <1>1, <1>2, <1>3, Zenon
     DEF ShownOK, BrowserOrders, Portfolios, Performances, Demo!TypeOK
<1>5. QED
  BY <1>1, <1>4, AtMostOneCounted, Zenon DEF Demo!PanelTypeOK

LEMMA InitTyped ==
  ASSUME Init
  PROVE  RecordsTypeInv /\ TimeoutTypeInv /\ PreviewTypeInv /\ MockFlagsInv
<1>1. RecordsTypeInv
  <2>1. runsRecorded = <<>> \/ \E run \in Runs : runsRecorded = <<run>>
    BY DEF Init, Records!Init
  <2>2. <<>> \in Seq(Runs) /\ \A run \in Runs : <<run>> \in Seq(Runs)
    OBVIOUS
  <2>3. runsRecorded \in Seq(Runs)
    BY <2>1, <2>2, Zenon
  <2>4. RunLimit \in Nat /\ MaxTimelines \in Nat
    BY ConstantsAssumption
       DEF ConstantsAssumption, Records!ConstantsAssumption
  <2>5. /\ runsError \in BOOLEAN /\ loading \in BOOLEAN /\ calm \in BOOLEAN
    BY Zenon DEF Init, Records!Init
  <2>6. /\ runs = <<>> /\ selected = Nothing /\ oms = Nothing
        /\ audit = Nothing /\ runRequests = {} /\ runClicks = 0
    BY Zenon DEF Init, Records!Init
  <2>7. runs \in Seq(Runs) /\ Len(runs) <= RunLimit
    BY <2>4, <2>6
  <2>8. QED
    BY <2>3, <2>4, <2>5, <2>6, <2>7 DEF RecordsTypeInv
<1>2. TimeoutTypeInv
  <2>1. MaxActions \in Nat
    BY ConstantsAssumption
       DEF ConstantsAssumption, Timeout!ConstantsAssumption
  <2>2. Timeout!Init
    BY DEF Init
  <2>3. failed \in BOOLEAN
    BY <2>2, Zenon DEF Timeout!Init
  <2>4. QED
    BY <2>1, <2>2, <2>3 DEF Timeout!Init, TimeoutTypeInv, Renderings
<1>3. PreviewTypeInv
  <2>1. MaxPreviews \in Nat
    BY ConstantsAssumption
       DEF ConstantsAssumption, Preview!ConstantsAssumption
  <2>2. Preview!Init
    BY DEF Init
  <2>3. previewing \in BOOLEAN /\ previewError \in BOOLEAN
    BY <2>2, Zenon DEF Preview!Init
  <2>4. QED
    BY <2>1, <2>2, <2>3 DEF Preview!Init, PreviewTypeInv
<1>4. MockFlagsInv
  BY Zenon DEF Init, MockDemo!Init, MockFlagsInv
<1>5. QED
  BY <1>1, <1>2, <1>3, <1>4

PartsInv ==
  /\ part \in Part
  /\ PageInv
  /\ RecordsTypeInv
  /\ TimeoutTypeInv
  /\ PreviewTypeInv
  /\ EvidenceInv
  /\ MockTypeInv /\ AloneInv /\ MockFlagsInv
  /\ DemoInv

(***************************************************************************)
(* The variables of every part keep their types, over answers of the       *)
(* backend, copies in localStorage and files of the visitor alike: what is *)
(* in a request, a list or a result is one of the runs, orders, forms or   *)
(* records it should be.                                                   *)
(***************************************************************************)
THEOREM TypeOKSafe == Spec => []TypeOK
<1>1. Init => PartsInv
  <2>1. Init => PageInv
    BY ConstantsAssumption, PageInit DEF Init, PageInv
  <2>2. Init => EvidenceInv /\ MockTypeInv /\ AloneInv
    BY ConstantsAssumption, EvidenceInit, MockInit DEF Init
  <2>3. QED
    BY <2>1, <2>2, InitTyped, DemoInit DEF PartsInv, Init
<1>2. PartsInv /\ [Next]_vars => PartsInv'
  BY ConstantsAssumption, PartSteps, PageStep, RecordsTypeStep,
     TimeoutTypeStep, PreviewTypeStep, EvidenceStep, MockStep,
     MockFlagsStep, DemoStep, Zenon DEF PartsInv
<1>3. PartsInv => TypeOK
  <2> SUFFICES ASSUME PartsInv PROVE TypeOK
    OBVIOUS
  <2>1. /\ Records!TypeOK /\ Timeout!TypeOK /\ Preview!TypeOK
        /\ Evidence!TypeOK /\ MockDemo!TypeOK /\ Demo!PanelTypeOK
    BY RecordsTyped, TimeoutTyped, PreviewTyped, EvidenceTyped, MockTyped,
       DemoTyped, Zenon DEF PartsInv
  <2>2. part = "page" => Page!TypeOK
    BY PageTyped, Zenon DEF PartsInv, PageInv
  <2>3. part \in Part
    BY DEF PartsInv
  <2>4. CASE part = "page"
    BY <2>2, <2>4, Zenon DEF TypeOK
  <2>5. CASE part = "records"
    BY <2>1, <2>5, Zenon DEF TypeOK
  <2>6. CASE part = "timeout"
    BY <2>1, <2>6, Zenon DEF TypeOK
  <2>7. CASE part = "preview"
    BY <2>1, <2>7, Zenon DEF TypeOK
  <2>8. CASE part = "evidence"
    BY <2>1, <2>8, Zenon DEF TypeOK
  <2>9. CASE part = "mock"
    BY <2>1, <2>9, Zenon DEF TypeOK
  <2>10. CASE part = "browser"
    BY <2>1, <2>10, Zenon DEF TypeOK
  <2>11. QED
    BY <2>3, <2>4, <2>5, <2>6, <2>7, <2>8, <2>9, <2>10 DEF Part
<1>4. QED
  BY <1>1, <1>2, <1>3, PTL DEF Spec

=============================================================================
