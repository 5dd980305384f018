----------------------- MODULE PaperBrokerSimulation -----------------------
(***************************************************************************)
(* The quote-based broker model of                                         *)
(* backend/app/domain/paper_broker_simulation.py as operators.             *)
(*                                                                         *)
(* Prices are integers, the liquidity score is in tenths.  A limit price   *)
(* or fill price of 0 is one that is not given.                            *)
(***************************************************************************)
EXTENDS Integers

LesserOf(a, b) == IF a <= b THEN a ELSE b
GreaterOf(a, b) == IF a >= b THEN a ELSE b

\* _available_size
AvailableSize(side, snapshot) ==
  IF side = "BUY" THEN snapshot.ask_size ELSE snapshot.bid_size

\* The price an order of this side would trade at.
ReferencePrice(side, snapshot) ==
  IF side = "BUY" THEN snapshot.ask ELSE snapshot.bid

\* Mutation: the sides are swapped.
LimitMarketableSwapped(side, limit, reference) ==
  IF side = "BUY" THEN limit <= reference ELSE limit >= reference

\* _is_limit_marketable
LimitMarketable(side, limit, reference) ==
  IF side = "BUY" THEN limit >= reference ELSE limit <= reference

\* Mutation: the thin quotes get the whole size.
LiquidityCapacitySwapped(quantity, available, score) ==
  IF quantity <= 0 \/ available <= 0 \/ score <= 0 THEN 0
  ELSE IF score < 5 THEN available
  ELSE GreaterOf(1, LesserOf(available, (quantity * score) \div 10))

\* _liquidity_capacity
LiquidityCapacity(quantity, available, score) ==
  IF quantity <= 0 \/ available <= 0 \/ score <= 0 THEN 0
  ELSE IF score >= 5 THEN available
  ELSE GreaterOf(1, LesserOf(available, (quantity * score) \div 10))

\* _fill_price
FillPrice(side, type, reference, limit) ==
  IF type = "MARKET" THEN reference
  ELSE IF side = "BUY" THEN LesserOf(reference, limit)
  ELSE GreaterOf(reference, limit)

\* _result
Result(outcome, price, fill, quantity) ==
  [ outcome |-> outcome, fill_price |-> price, fill_quantity |-> fill,
    remaining_quantity |-> quantity - fill ]

NoFill(outcome, quantity) == Result(outcome, 0, 0, quantity)

\* The spread is within the limit of the model.
SpreadValid(model) ==
  model.snapshot.ask - model.snapshot.bid <= model.max_spread

\* simulate_paper_broker_outcome, for an order and a snapshot of one symbol
Simulate(order, model) ==
  LET snapshot == model.snapshot
      quantity == order.quantity
      reference == ReferencePrice(order.side, snapshot)
      available == AvailableSize(order.side, snapshot)
      fill == LesserOf(quantity,
                LiquidityCapacity(quantity, available, snapshot.score)) IN
    CASE \/ snapshot.ask < snapshot.bid
         \/ snapshot.quote_age > model.stale_quote -> NoFill("reject", quantity)
      [] OTHER ->
           IF \/ ~ SpreadValid(model)
              \/ /\ model.type = "LIMIT"
                 /\ ~ LimitMarketable(order.side, model.limit, reference)
              \/ fill <= 0
             THEN NoFill("acknowledge", quantity)
             ELSE Result(IF fill >= quantity THEN "fill" ELSE "partial_fill",
                         FillPrice(order.side, model.type, reference,
                                   model.limit),
                         fill, quantity)

=============================================================================
