------------------------- MODULE BrowserMockMarket -------------------------
(***************************************************************************)
(* The deterministic quotes of                                             *)
(* frontend/app/components/browserOnlyMockRuntime.ts as operators of a     *)
(* tick and a symbol.                                                      *)
(*                                                                         *)
(* Prices are hundredths of a point, liquidity scores and multipliers      *)
(* hundredths.  round2 rounds half up, exactly.  The code rounds binary    *)
(* fractions: where a sum ends on half a hundredth its price can be one    *)
(* hundredth lower.                                                        *)
(***************************************************************************)
EXTENDS Integers, Sequences

BrowserMockSymbol == {"TX", "MTX", "TMF"}

\* txEquivalentRatio, in 1/20 of TX
TxEquivalentRatio == [TX |-> 20, MTX |-> 5, TMF |-> 1]

PointValueTwd == [TX |-> 200, MTX |-> 50, TMF |-> 10]

MarketRegimeOrder ==
  << "normal", "trending", "normal", "volatile", "illiquid", "stale_quote",
     "trending", "volatile" >>

\* marketRegimeConfig; waves and drift steps in tenths of a point
MarketRegimeConfig ==
  [ normal |->
      [ wave |-> <<0, 25, 40, 15, -15, -30>>, driftStep |-> 12,
        spreadMultiplier |-> 100, bidSizeBase |-> 7, askSizeBase |-> 8,
        quoteAgeSeconds |-> 1, liquidityBase |-> 82, volatilityPoints |-> 4,
        slippageMultiplier |-> 35 ],
    trending |->
      [ wave |-> <<0, 45, 80, 105, 130, 150>>, driftStep |-> 21,
        spreadMultiplier |-> 125, bidSizeBase |-> 5, askSizeBase |-> 6,
        quoteAgeSeconds |-> 1, liquidityBase |-> 68, volatilityPoints |-> 9,
        slippageMultiplier |-> 55 ],
    volatile |->
      [ wave |-> <<0, 110, -70, 140, -110, 60>>, driftStep |-> 14,
        spreadMultiplier |-> 260, bidSizeBase |-> 3, askSizeBase |-> 3,
        quoteAgeSeconds |-> 2, liquidityBase |-> 42, volatilityPoints |-> 18,
        slippageMultiplier |-> 80 ],
    illiquid |->
      [ wave |-> <<0, 12, -8, 22, -14, 5>>, driftStep |-> 5,
        spreadMultiplier |-> 420, bidSizeBase |-> 0, askSizeBase |-> 1,
        quoteAgeSeconds |-> 2, liquidityBase |-> 12, volatilityPoints |-> 3,
        slippageMultiplier |-> 100 ],
    stale_quote |->
      [ wave |-> <<0, -10, -10, -5, -5, -15>>, driftStep |-> 2,
        spreadMultiplier |-> 320, bidSizeBase |-> 2, askSizeBase |-> 2,
        quoteAgeSeconds |-> 8, liquidityBase |-> 22, volatilityPoints |-> 2,
        slippageMultiplier |-> 90 ] ]

MarketRegimeForTick(tick) == MarketRegimeOrder[(tick % 8) + 1]

\* lastPriceForTick: the sum is formed in 1/600 of a point, in which the
\* volatility pulse and a hundredth of a point are both whole.
LastPriceForTick(symbol, tick) ==
  LET config == MarketRegimeConfig[MarketRegimeForTick(tick)]
      drift == (tick \div 6) * config.driftStep * 60
      wave == config.wave[(tick % 6) + 1] * 60
      volatilityPulse == (2 * (tick % 4) - 3) * config.volatilityPoints * 25
      symbolOffset == [TX |-> 0, MTX |-> -600, TMF |-> -900][symbol] IN
    (20000 * 600 + drift + wave + volatilityPulse + symbolOffset + 3) \div 6

\* marketSnapshot
MarketSnapshot(symbol, tick) ==
  LET regime == MarketRegimeForTick(tick)
      config == MarketRegimeConfig[regime]
      baseSpread == [TX |-> 100, MTX |-> 50, TMF |-> 20][symbol]
      last == LastPriceForTick(symbol, tick)
      previousTick == IF tick = 0 THEN 0 ELSE tick - 1
      smaller == IF symbol = "TX" THEN 1 ELSE 0
      spread == (baseSpread * (config.spreadMultiplier + 15 * (tick % 3)) + 50)
                  \div 100
      bidSize == config.bidSizeBase + (tick % 3) - smaller
      liquidityScore == config.liquidityBase - 4 * smaller IN
    [ market_regime |-> regime,
      bid |-> (2 * last - spread + 1) \div 2,
      ask |-> (2 * last + spread + 1) \div 2,
      last |-> last,
      change_points |-> last - LastPriceForTick(symbol, previousTick),
      bid_size |-> IF bidSize < 0 THEN 0 ELSE bidSize,
      ask_size |-> config.askSizeBase + ((tick + 1) % 3) - smaller,
      quote_age_seconds |->
        config.quoteAgeSeconds
          + IF regime = "stale_quote" THEN tick % 2 ELSE 0,
      liquidity_score |-> liquidityScore,
      slippage_points_estimate |->
        (spread * (100 - liquidityScore) * config.slippageMultiplier + 5000)
          \div 10000 ]

=============================================================================
