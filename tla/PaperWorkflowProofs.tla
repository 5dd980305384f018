------------------------ MODULE PaperWorkflowProofs ------------------------
(***************************************************************************)
(* Proofs about PaperWorkflow, for any requests and settings of the types  *)
(* the API validates.                                                      *)
(*                                                                         *)
(* That no event raises is a property of the queue of events: each can be  *)
(* applied where the one before it leads, and the last leads to where the  *)
(* next step of the handler expects the order.  The rest is known of the   *)
(* operators, whose arguments the handler does not change.                 *)
(***************************************************************************)
EXTENDS PaperWorkflow, TLAPS

-----------------------------------------------------------------------------
(* The queue of events *)

\* Where an order is when i of the events have been applied.
After(s, events, i) ==
  IF i = 0 THEN s ELSE EVENT_TARGET_STATUS[events[i]]

\* Every event can be applied when its turn comes.
Applicable(s, events) ==
  \A i \in 1..Len(events) : CanApply(After(s, events, i - 1), events[i])

\* Where the order is when all have been applied.
EndsAs(s, events) == After(s, events, Len(events))

LEMMA TargetTyped ==
  ASSUME NEW e \in OrderEventType
  PROVE  EVENT_TARGET_STATUS[e] \in OrderStatus
BY DEF EVENT_TARGET_STATUS, OrderEventType, OrderStatus

LEMMA QueueStep ==
  ASSUME NEW s, NEW events \in Seq(OrderEventType), events # << >>,
         Applicable(s, events)
  PROVE  /\ CanApply(s, Head(events))
         /\ Applicable(EVENT_TARGET_STATUS[Head(events)], Tail(events))
         /\ EndsAs(EVENT_TARGET_STATUS[Head(events)], Tail(events))
              = EndsAs(s, events)
<1> DEFINE t == EVENT_TARGET_STATUS[Head(events)]
<1>1. /\ Len(events) \in Nat \ {0} /\ Head(events) = events[1]
      /\ Len(Tail(events)) = Len(events) - 1
      /\ \A i \in 1..(Len(events) - 1) : Tail(events)[i] = events[i + 1]
  OBVIOUS
<1>2. CanApply(After(s, events, 0), events[1])
  BY <1>1 DEF Applicable
<1>3. CanApply(s, Head(events))
  BY <1>1, <1>2, Zenon DEF After
<1>4. \A i \in 0..(Len(events) - 1) :
        After(t, Tail(events), i) = After(s, events, i + 1)
  BY <1>1 DEF After
<1>5. ASSUME NEW i \in 1..Len(Tail(events))
      PROVE  CanApply(After(t, Tail(events), i - 1), Tail(events)[i])
  <2>1. i - 1 \in 0..(Len(events) - 1) /\ i + 1 \in 1..Len(events)
    BY <1>1
  <2>2. /\ After(t, Tail(events), i - 1) = After(s, events, i)
        /\ Tail(events)[i] = events[i + 1]
    BY <1>1, <1>4, <2>1
  <2>3. CanApply(After(s, events, i), events[i + 1])
    BY <2>1 DEF Applicable
  <2>4. QED
    BY <2>2, <2>3, Zenon
<1>6. EndsAs(t, Tail(events)) = EndsAs(s, events)
  BY <1>1, <1>4 DEF EndsAs
<1>7. QED
  BY <1>3, <1>5, <1>6, Zenon DEF Applicable

\* What the table says of the events the handler applies.
LEMMA Table ==
  /\ CanApply("PENDING", "CREATE") /\ CanApply("NEW", "RISK_APPROVE")
  /\ CanApply("NEW", "RISK_REJECT") /\ CanApply("RISK_CHECKED", "SUBMIT")
  /\ CanApply("SUBMITTED", "REJECT") /\ CanApply("SUBMITTED", "ACKNOWLEDGE")
  /\ CanApply("ACCEPTED", "PARTIAL_FILL") /\ CanApply("ACCEPTED", "FILL")
  /\ CanApply("ACCEPTED", "CANCEL_REQUEST")
  /\ CanApply("CANCEL_REQUESTED", "CANCEL")
BY DEF CanApply, ALLOWED_TRANSITIONS, OrderStatus

LEMMA Targets ==
  /\ EVENT_TARGET_STATUS["CREATE"] = "NEW"
  /\ EVENT_TARGET_STATUS["RISK_APPROVE"] = "RISK_CHECKED"
  /\ EVENT_TARGET_STATUS["SUBMIT"] = "SUBMITTED"
  /\ EVENT_TARGET_STATUS["ACKNOWLEDGE"] = "ACCEPTED"
  /\ EVENT_TARGET_STATUS["CANCEL_REQUEST"] = "CANCEL_REQUESTED"
BY DEF EVENT_TARGET_STATUS, OrderEventType

\* Queues of one, two and three events.
LEMMA Queue1 ==
  ASSUME NEW s, NEW a \in OrderEventType,
         CanApply(s, a)
  PROVE  /\ <<a>> \in Seq(OrderEventType)
         /\ Applicable(s, <<a>>)
         /\ EndsAs(s, <<a>>) = EVENT_TARGET_STATUS[a]
<1> DEFINE q == <<a>>
<1>1. /\ q \in Seq(OrderEventType) /\ Len(q) = 1
      /\ q[1] = a
  OBVIOUS
<1> HIDE DEF q
<1>2. ASSUME NEW i \in 1..1
      PROVE  CanApply(After(s, q, i - 1), q[i])
  <2>1. CASE i = 1
    <3>1. After(s, q, i - 1) = s
      BY <1>1, <2>1 DEF After
    <3>2. QED
      BY <1>1, <2>1, <3>1, Zenon
  <2>2. QED
    BY <2>1
<1>3. EndsAs(s, q) = EVENT_TARGET_STATUS[a]
  BY <1>1 DEF EndsAs, After
<1>4. QED
  BY <1>1, <1>2, <1>3, Zenon DEF Applicable, q

LEMMA Queue2 ==
  ASSUME NEW s, NEW a \in OrderEventType,
         NEW b \in OrderEventType,
         CanApply(s, a),
         CanApply(EVENT_TARGET_STATUS[a], b)
  PROVE  /\ <<a, b>> \in Seq(OrderEventType)
         /\ Applicable(s, <<a, b>>)
         /\ EndsAs(s, <<a, b>>) = EVENT_TARGET_STATUS[b]
<1> DEFINE q == <<a, b>>
<1>1. /\ q \in Seq(OrderEventType) /\ Len(q) = 2
      /\ q[1] = a /\ q[2] = b
  OBVIOUS
<1> HIDE DEF q
<1>2. ASSUME NEW i \in 1..2
      PROVE  CanApply(After(s, q, i - 1), q[i])
  <2>1. CASE i = 1
    <3>1. After(s, q, i - 1) = s
      BY <1>1, <2>1 DEF After
    <3>2. QED
      BY <1>1, <2>1, <3>1, Zenon
  <2>2. CASE i = 2
    <3>1. After(s, q, i - 1) = EVENT_TARGET_STATUS[a]
      BY <1>1, <2>2 DEF After
    <3>2. QED
      BY <1>1, <2>2, <3>1, Zenon
  <2>3. QED
    BY <2>1, <2>2
<1>3. EndsAs(s, q) = EVENT_TARGET_STATUS[b]
  BY <1>1 DEF EndsAs, After
<1>4. QED
  BY <1>1, <1>2, <1>3, Zenon DEF Applicable, q

LEMMA Queue3 ==
  ASSUME NEW s, NEW a \in OrderEventType,
         NEW b \in OrderEventType,
         NEW c \in OrderEventType,
         CanApply(s, a),
         CanApply(EVENT_TARGET_STATUS[a], b),
         CanApply(EVENT_TARGET_STATUS[b], c)
  PROVE  /\ <<a, b, c>> \in Seq(OrderEventType)
         /\ Applicable(s, <<a, b, c>>)
         /\ EndsAs(s, <<a, b, c>>) = EVENT_TARGET_STATUS[c]
<1> DEFINE q == <<a, b, c>>
<1>1. /\ q \in Seq(OrderEventType) /\ Len(q) = 3
      /\ q[1] = a /\ q[2] = b /\ q[3] = c
  OBVIOUS
<1> HIDE DEF q
<1>2. ASSUME NEW i \in 1..3
      PROVE  CanApply(After(s, q, i - 1), q[i])
  <2>1. CASE i = 1
    <3>1. After(s, q, i - 1) = s
      BY <1>1, <2>1 DEF After
    <3>2. QED
      BY <1>1, <2>1, <3>1, Zenon
  <2>2. CASE i = 2
    <3>1. After(s, q, i - 1) = EVENT_TARGET_STATUS[a]
      BY <1>1, <2>2 DEF After
    <3>2. QED
      BY <1>1, <2>2, <3>1, Zenon
  <2>3. CASE i = 3
    <3>1. After(s, q, i - 1) = EVENT_TARGET_STATUS[b]
      BY <1>1, <2>3 DEF After
    <3>2. QED
      BY <1>1, <2>3, <3>1, Zenon
  <2>4. QED
    BY <2>1, <2>2, <2>3
<1>3. EndsAs(s, q) = EVENT_TARGET_STATUS[c]
  BY <1>1 DEF EndsAs, After
<1>4. QED
  BY <1>1, <1>2, <1>3, Zenon DEF Applicable, q

\* The queues the handler fills.
LEMMA HandlerQueues ==
  /\ <<"CREATE">> \in Seq(OrderEventType)
  /\ Applicable("PENDING", <<"CREATE">>)
  /\ EndsAs("PENDING", <<"CREATE">>) = "NEW"
  /\ <<"RISK_APPROVE", "SUBMIT">> \in Seq(OrderEventType)
  /\ Applicable("NEW", <<"RISK_APPROVE", "SUBMIT">>)
  /\ EndsAs("NEW", <<"RISK_APPROVE", "SUBMIT">>) = "SUBMITTED"
  /\ <<"RISK_REJECT">> \in Seq(OrderEventType)
  /\ Applicable("NEW", <<"RISK_REJECT">>)
<1>1. {"CREATE", "RISK_APPROVE", "SUBMIT", "RISK_REJECT"}
        \subseteq OrderEventType
  BY DEF OrderEventType
<1>2. QED
  BY <1>1, Table, Targets, Queue1, Queue2, Zenon

LEMMA BrokerQueues ==
  ASSUME NEW o \in BrokerOutcome
  PROVE  /\ BrokerEvents(o) \in Seq(OrderEventType)
         /\ Applicable("SUBMITTED", BrokerEvents(o))
<1>1. /\ {"REJECT", "ACKNOWLEDGE", "PARTIAL_FILL", "FILL", "CANCEL_REQUEST",
           "CANCEL"} \subseteq OrderEventType
  BY DEF OrderEventType
<1>2. CASE o = "reject"
  <2>1. BrokerEvents(o) = <<"REJECT">>
    BY <1>2 DEF BrokerEvents
  <2>2. QED
    BY <1>1, <2>1, Table, Queue1, Zenon
<1>3. CASE o = "acknowledge"
  <2>1. BrokerEvents(o) = <<"ACKNOWLEDGE">>
    BY <1>3 DEF BrokerEvents
  <2>2. QED
    BY <1>1, <2>1, Table, Queue1, Zenon
<1>4. CASE o = "partial_fill"
  <2>1. BrokerEvents(o) = <<"ACKNOWLEDGE", "PARTIAL_FILL">>
    BY <1>4 DEF BrokerEvents
  <2>2. QED
    BY <1>1, <2>1, Table, Targets, Queue2, Zenon
<1>5. CASE o = "fill"
  <2>1. BrokerEvents(o) = <<"ACKNOWLEDGE", "FILL">>
    BY <1>5 DEF BrokerEvents
  <2>2. QED
    BY <1>1, <2>1, Table, Targets, Queue2, Zenon
<1>6. CASE o = "cancel"
  <2>1. BrokerEvents(o) = <<"ACKNOWLEDGE", "CANCEL_REQUEST", "CANCEL">>
    BY <1>6 DEF BrokerEvents
  <2>2. /\ CanApply("SUBMITTED", "ACKNOWLEDGE")
        /\ CanApply(EVENT_TARGET_STATUS["ACKNOWLEDGE"], "CANCEL_REQUEST")
        /\ CanApply(EVENT_TARGET_STATUS["CANCEL_REQUEST"], "CANCEL")
    BY Table, Targets, Zenon
  <2>3. {"ACKNOWLEDGE", "CANCEL_REQUEST", "CANCEL"} \subseteq OrderEventType
    BY <1>1
  <2>4. QED
    BY <2>1, <2>2, <2>3, Queue3, Zenon
<1>7. QED
  BY <1>2, <1>3, <1>4, <1>5, <1>6 DEF BrokerOutcome

LEMMA NoEvents ==
  ASSUME NEW s
  PROVE  Applicable(s, << >>) /\ EndsAs(s, << >>) = s
BY DEF Applicable, EndsAs, After

-----------------------------------------------------------------------------
(* The quote-based broker model *)

LEMMA CapacityBounds ==
  ASSUME NEW quantity \in Nat \ {0}, NEW available \in Nat,
         NEW score \in 0..10
  PROVE  /\ LiquidityCapacity(quantity, available, score) \in Nat
         /\ LiquidityCapacity(quantity, available, score) <= available
<1>1. quantity * score \in Nat
  OBVIOUS
<1>2. \A x \in Nat : x \div 10 \in Nat
  OBVIOUS
<1>3. (quantity * score) \div 10 \in Nat
  BY <1>1, <1>2
<1>4. QED
  BY <1>3 DEF LiquidityCapacity, GreaterOf, LesserOf

LEMMA CapacityGrows ==
  ASSUME NEW quantity \in Nat \ {0},
         NEW a1 \in Nat, NEW a2 \in Nat, a1 <= a2,
         NEW s1 \in 0..10, NEW s2 \in 0..10, s1 <= s2
  PROVE  LiquidityCapacity(quantity, a1, s1)
           <= LiquidityCapacity(quantity, a2, s2)
<1> DEFINE p1 == quantity * s1
           p2 == quantity * s2
<1>1. p1 \in Nat /\ p2 \in Nat /\ p1 <= p2
  OBVIOUS
<1> HIDE DEF p1, p2
<1>2. p1 \div 10 \in Nat /\ p2 \div 10 \in Nat /\ p1 \div 10 <= p2 \div 10
  BY <1>1
<1>3. QED
  BY <1>2 DEF LiquidityCapacity, GreaterOf, LesserOf, p1, p2

\* An order as the broker sees it.
OrderOK(o) == o.side \in {"BUY", "SELL"} /\ o.quantity \in Nat \ {0}

Results ==
  [ outcome : BrokerOutcome, fill_price : Nat, fill_quantity : Nat,
    remaining_quantity : Nat ]

\* The quote and the limit let the order trade, as far as there is size.
Tradable(o, m) ==
  LET reference == ReferencePrice(o.side, m.snapshot) IN
    /\ ~(m.snapshot.ask < m.snapshot.bid)
    /\ ~(m.snapshot.quote_age > m.stale_quote)
    /\ SpreadValid(m)
    /\ m.type = "LIMIT" => LimitMarketable(o.side, m.limit, reference)

\* The size that trades.
Fill(o, m) ==
  LesserOf(o.quantity,
           LiquidityCapacity(o.quantity, AvailableSize(o.side, m.snapshot),
                             m.snapshot.score))

LEMMA FillBounds ==
  ASSUME NEW o, OrderOK(o), NEW m \in Model
  PROVE  /\ AvailableSize(o.side, m.snapshot) \in Nat
         /\ Fill(o, m) \in Nat /\ Fill(o, m) <= o.quantity
         /\ Fill(o, m) <= AvailableSize(o.side, m.snapshot)
<1> DEFINE available == AvailableSize(o.side, m.snapshot)
           capacity == LiquidityCapacity(o.quantity, available,
                                         m.snapshot.score)
<1>1. /\ available \in Nat /\ m.snapshot.score \in 0..10
      /\ o.quantity \in Nat \ {0}
  BY DEF AvailableSize, Model, OrderOK
<1> HIDE DEF available
<1>2. capacity \in Nat /\ capacity <= available
  BY <1>1, CapacityBounds
<1>3. Fill(o, m) = LesserOf(o.quantity, capacity)
  BY Zenon DEF Fill, available
<1> HIDE DEF capacity
<1>4. QED
  BY <1>1, <1>2, <1>3 DEF LesserOf, available

LEMMA SimulationIs ==
  ASSUME NEW o, OrderOK(o), NEW m \in Model
  PROVE  LET r == Simulate(o, m) IN
           /\ r \in Results
           /\ r.fill_quantity = IF Tradable(o, m) THEN Fill(o, m) ELSE 0
           /\ r.remaining_quantity = o.quantity - r.fill_quantity
           /\ r.fill_quantity > 0 =>
                r.fill_price = ReferencePrice(o.side, m.snapshot)
<1> DEFINE fill == Fill(o, m)
           reference == ReferencePrice(o.side, m.snapshot)
           price == FillPrice(o.side, m.type, reference, m.limit)
           r == Simulate(o, m)
<1>1. fill \in Nat /\ fill <= o.quantity /\ o.quantity \in Nat \ {0}
  BY FillBounds DEF OrderOK
<1>2. reference \in Nat
  BY DEF ReferencePrice, Model, OrderOK
<1>3. price \in Nat
  <2>1. m.limit \in Nat
    BY DEF Model
  <2> HIDE DEF reference
  <2>2. QED
    BY <1>2, <2>1 DEF FillPrice, LesserOf, GreaterOf
<1>4. Tradable(o, m) => price = reference
  <2>1. m.limit \in Nat /\ m.type \in {"MARKET", "LIMIT"}
        /\ o.side \in {"BUY", "SELL"}
    BY DEF Model, OrderOK
  <2>2. Tradable(o, m) =>
          (m.type = "LIMIT" => LimitMarketable(o.side, m.limit, reference))
    BY Zenon DEF Tradable
  <2> HIDE DEF reference
  <2>3. QED
    BY <1>2, <2>1, <2>2 DEF FillPrice, LesserOf, GreaterOf, LimitMarketable
<1> DEFINE Refused == \/ m.snapshot.ask < m.snapshot.bid
                      \/ m.snapshot.quote_age > m.stale_quote
           Waits == \/ ~ SpreadValid(m)
                    \/ /\ m.type = "LIMIT"
                       /\ ~ LimitMarketable(o.side, m.limit, reference)
                    \/ fill <= 0
<1>5. CASE Refused
  <2>1. r = NoFill("reject", o.quantity)
    BY <1>5, Zenon DEF Simulate
  <2>2. ~Tradable(o, m)
    BY <1>5, Zenon DEF Tradable
  <2> HIDE DEF r
  <2>3. QED
    BY <1>1, <2>1, <2>2 DEF NoFill, Result, Results, BrokerOutcome, r
<1>6. CASE ~Refused /\ Waits
  <2>1. r = NoFill("acknowledge", o.quantity)
    BY <1>6, Zenon DEF Simulate, Fill
  <2>2. Tradable(o, m) => fill = 0
    <3>1. Tradable(o, m) => fill <= 0
      BY <1>6, Zenon DEF Tradable
    <3> HIDE DEF fill
    <3>2. QED
      BY <1>1, <3>1
  <2> HIDE DEF r, fill
  <2>3. QED
    BY <1>1, <2>1, <2>2 DEF NoFill, Result, Results, BrokerOutcome, r, fill
<1>7. CASE ~Refused /\ ~Waits
  <2>1. r = Result(IF fill >= o.quantity THEN "fill" ELSE "partial_fill",
                   price, fill, o.quantity)
    BY <1>7, Zenon DEF Simulate, Fill
  <2>2. Tradable(o, m)
    BY <1>7, Zenon DEF Tradable
  <2> HIDE DEF r, fill, price, reference, Refused, Waits
  <2>3. r \in Results /\ r.fill_quantity = fill /\ r.fill_price = price
        /\ r.remaining_quantity = o.quantity - fill
    BY <1>1, <1>3, <2>1 DEF Result, Results, BrokerOutcome
  <2>4. QED
    BY <1>4, <2>2, <2>3, Zenon DEF r, fill, reference
<1>8. QED
  BY <1>5, <1>6, <1>7, Zenon

\* What MoreLiquid says, field by field.
LEMMA MoreLiquidFields ==
  ASSUME NEW m1 \in Model, NEW m2 \in Model, MoreLiquid(m1, m2)
  PROVE  /\ m2.snapshot.ask_size >= m1.snapshot.ask_size
         /\ m2.snapshot.bid_size >= m1.snapshot.bid_size
         /\ m2.snapshot.score >= m1.snapshot.score
         /\ m2.snapshot.bid = m1.snapshot.bid
         /\ m2.snapshot.ask = m1.snapshot.ask
         /\ m2.snapshot.quote_age = m1.snapshot.quote_age
         /\ m2.type = m1.type /\ m2.limit = m1.limit
         /\ m2.max_spread = m1.max_spread
         /\ m2.stale_quote = m1.stale_quote
<1> DEFINE s == [m1.snapshot EXCEPT !.ask_size = m2.snapshot.ask_size,
                                    !.bid_size = m2.snapshot.bid_size,
                                    !.score = m2.snapshot.score]
<1>1. m2 = [m1 EXCEPT !.snapshot = s]
  BY DEF MoreLiquid, Model
<1>2. m2.snapshot = s
  BY <1>1 DEF Model
<1>3. /\ s.bid = m1.snapshot.bid /\ s.ask = m1.snapshot.ask
      /\ s.quote_age = m1.snapshot.quote_age
  BY DEF Model
<1> HIDE DEF s
<1>4. /\ m2.type = m1.type /\ m2.limit = m1.limit
      /\ m2.max_spread = m1.max_spread
      /\ m2.stale_quote = m1.stale_quote
  BY <1>1 DEF Model
<1>5. QED
  BY <1>2, <1>3, <1>4, Zenon DEF MoreLiquid

\* More liquidity changes nothing about whether an order may trade, and the
\* capacity grows with it, over the change of its formula too.
LEMMA MoreLiquidFills ==
  ASSUME NEW o, OrderOK(o), NEW m1 \in Model, NEW m2 \in Model,
         MoreLiquid(m1, m2)
  PROVE  Simulate(o, m2).fill_quantity >= Simulate(o, m1).fill_quantity
<1>1. ReferencePrice(o.side, m2.snapshot) = ReferencePrice(o.side, m1.snapshot)
  BY MoreLiquidFields, Zenon DEF ReferencePrice
<1>2. Tradable(o, m1) <=> Tradable(o, m2)
  <2>1. SpreadValid(m1) <=> SpreadValid(m2)
    BY MoreLiquidFields, Zenon DEF SpreadValid
  <2>2. QED
    BY <1>1, <2>1, MoreLiquidFields, Zenon DEF Tradable
<1>3. Fill(o, m1) <= Fill(o, m2)
  <2> DEFINE a1 == AvailableSize(o.side, m1.snapshot)
             a2 == AvailableSize(o.side, m2.snapshot)
             s1 == m1.snapshot.score
             s2 == m2.snapshot.score
  <2>1. /\ a1 \in Nat /\ a2 \in Nat /\ s1 \in 0..10 /\ s2 \in 0..10
        /\ o.quantity \in Nat \ {0}
    BY DEF AvailableSize, Model, OrderOK
  <2>2. a1 <= a2 /\ s1 <= s2
    BY <2>1, MoreLiquidFields DEF AvailableSize, Model
  <2> DEFINE c1 == LiquidityCapacity(o.quantity, a1, s1)
             c2 == LiquidityCapacity(o.quantity, a2, s2)
  <2>3. Fill(o, m1) = LesserOf(o.quantity, c1)
        /\ Fill(o, m2) = LesserOf(o.quantity, c2)
    BY Zenon DEF Fill
  <2> HIDE DEF a1, a2, s1, s2
  <2>4. c1 <= c2 /\ c1 \in Nat /\ c2 \in Nat
    BY <2>1, <2>2, CapacityGrows, CapacityBounds
  <2> HIDE DEF c1, c2
  <2>5. QED
    BY <2>1, <2>3, <2>4 DEF LesserOf
<1>4. /\ Simulate(o, m1).fill_quantity
           = IF Tradable(o, m1) THEN Fill(o, m1) ELSE 0
      /\ Simulate(o, m2).fill_quantity
           = IF Tradable(o, m2) THEN Fill(o, m2) ELSE 0
  BY SimulationIs, Zenon
<1>5. Fill(o, m1) \in Nat /\ Fill(o, m2) \in Nat
  BY FillBounds
<1>6. QED
  BY <1>2, <1>3, <1>4, <1>5

-----------------------------------------------------------------------------
(* The risk rules *)

\* The names of the checks, in the order of the code.
CheckNames ==
  { "LIVE_TRADING_DISABLED", "PAPER_BROKER_ONLY", "IDEMPOTENCY_KEY_PRESENT",
    "PAPER_ONLY_INTENT", "MAX_EXPOSURE", "STALE_QUOTE",
    "PRICE_REASONABILITY", "MAX_ORDER_SIZE_BY_CONTRACT", "MARGIN_PROXY",
    "DUPLICATE_ORDER_PREVENTION", "DAILY_LOSS_LIMIT", "POSITION_LIMIT",
    "KILL_SWITCH", "BROKER_HEARTBEAT" }

LEMMA CheckDomain ==
  ASSUME NEW i, NEW p, NEW s
  PROVE  DOMAIN Checks(i, p, s) = CheckNames
BY DEF Checks, CheckNames

\* What Looser says, field by field.
LEMMA LooserFields ==
  ASSUME NEW contracts, NEW p \in RiskPolicy(contracts), NEW q, Looser(p, q)
  PROVE  /\ q.trading_mode = p.trading_mode
         /\ q.live_trading_enabled = p.live_trading_enabled
         /\ q.broker_provider = p.broker_provider
         /\ q.price_band_pct = p.price_band_pct
         /\ q.max_order_size = p.max_order_size
         /\ q.margin_per_exposure = p.margin_per_exposure
         /\ q.max_margin = p.max_margin
         /\ q.max_position = p.max_position
         /\ q.kill_switch_active = p.kill_switch_active
         /\ q.broker_heartbeat_healthy = p.broker_heartbeat_healthy
BY DEF Looser, RiskPolicy

\* Three checks look at the three limits, and each only gets easier.
LEMMA LooserApproves ==
  ASSUME NEW contracts, NEW p \in RiskPolicy(contracts),
         NEW others, NEW q \in RiskPolicy(others), Looser(p, q),
         NEW i, i.exposure \in Nat, i.quote_age \in Nat,
         NEW s, s.daily_realized_loss \in Int,
         Approved(i, p, s)
  PROVE  Approved(i, q, s)
<1> DEFINE cp == Checks(i, p, s)
           cq == Checks(i, q, s)
<1>1. \A name \in CheckNames : cp[name]
  BY CheckDomain, Zenon DEF Approved
<1>2. /\ cq["LIVE_TRADING_DISABLED"] <=> cp["LIVE_TRADING_DISABLED"]
      /\ cq["PAPER_BROKER_ONLY"] = cp["PAPER_BROKER_ONLY"]
      /\ cq["IDEMPOTENCY_KEY_PRESENT"] = cp["IDEMPOTENCY_KEY_PRESENT"]
      /\ cq["PAPER_ONLY_INTENT"] = cp["PAPER_ONLY_INTENT"]
      /\ cq["DUPLICATE_ORDER_PREVENTION"] = cp["DUPLICATE_ORDER_PREVENTION"]
      /\ cq["KILL_SWITCH"] <=> cp["KILL_SWITCH"]
      /\ cq["BROKER_HEARTBEAT"] <=> cp["BROKER_HEARTBEAT"]
  <2>1. /\ cq["IDEMPOTENCY_KEY_PRESENT"] = cp["IDEMPOTENCY_KEY_PRESENT"]
        /\ cq["PAPER_ONLY_INTENT"] = cp["PAPER_ONLY_INTENT"]
        /\ cq["DUPLICATE_ORDER_PREVENTION"]
             = cp["DUPLICATE_ORDER_PREVENTION"]
    BY Zenon DEF Checks
  <2>2. /\ cp["PAPER_BROKER_ONLY"] = (p.broker_provider = "paper")
        /\ cq["PAPER_BROKER_ONLY"] = (q.broker_provider = "paper")
    BY Zenon DEF Checks
  <2>3. /\ cp["LIVE_TRADING_DISABLED"]
             <=> ~p.live_trading_enabled /\ p.trading_mode = "paper"
        /\ cq["LIVE_TRADING_DISABLED"]
             <=> ~q.live_trading_enabled /\ q.trading_mode = "paper"
    BY Zenon DEF Checks
  <2>4. /\ cp["KILL_SWITCH"]
             <=> ~s.kill_switch_active /\ ~p.kill_switch_active
        /\ cq["KILL_SWITCH"]
             <=> ~s.kill_switch_active /\ ~q.kill_switch_active
        /\ cp["BROKER_HEARTBEAT"] <=> s.broker_heartbeat_healthy
                                      /\ p.broker_heartbeat_healthy
        /\ cq["BROKER_HEARTBEAT"] <=> s.broker_heartbeat_healthy
                                      /\ q.broker_heartbeat_healthy
    BY Zenon DEF Checks
  <2>5. /\ q.trading_mode = p.trading_mode
        /\ q.live_trading_enabled = p.live_trading_enabled
        /\ q.broker_provider = p.broker_provider
        /\ q.kill_switch_active = p.kill_switch_active
        /\ q.broker_heartbeat_healthy = p.broker_heartbeat_healthy
    BY LooserFields, Zenon
  <2> HIDE DEF cp, cq
  <2>6. cq["LIVE_TRADING_DISABLED"] <=> cp["LIVE_TRADING_DISABLED"]
    BY <2>3, <2>5, Zenon
  <2>7. /\ cq["KILL_SWITCH"] <=> cp["KILL_SWITCH"]
        /\ cq["BROKER_HEARTBEAT"] <=> cp["BROKER_HEARTBEAT"]
    BY <2>4, <2>5, Zenon
  <2>8. QED
    BY <2>1, <2>2, <2>5, <2>6, <2>7, Zenon
<1>3. /\ PriceReasonable(i, q) <=> PriceReasonable(i, p)
      /\ MaxContractSize(i, q) = MaxContractSize(i, p)
  BY LooserFields, Zenon DEF PriceReasonable, MaxContractSize
<1>4. /\ cq["PRICE_REASONABILITY"] = PriceReasonable(i, q)
      /\ cp["PRICE_REASONABILITY"] = PriceReasonable(i, p)
  BY Zenon DEF Checks
<1>5. /\ cq["MAX_ORDER_SIZE_BY_CONTRACT"] = cp["MAX_ORDER_SIZE_BY_CONTRACT"]
      /\ cq["MARGIN_PROXY"] = cp["MARGIN_PROXY"]
      /\ cq["POSITION_LIMIT"] = cp["POSITION_LIMIT"]
  BY <1>3, LooserFields, Zenon DEF Checks
<1>6. cq["MAX_EXPOSURE"]
  <2>1. /\ cp["MAX_EXPOSURE"] = (i.exposure <= p.max_exposure)
        /\ cq["MAX_EXPOSURE"] = (i.exposure <= q.max_exposure)
    BY Zenon DEF Checks, WithinExposure
  <2>2. i.exposure <= p.max_exposure
    BY <1>1, <2>1, Zenon DEF CheckNames
  <2>3. i.exposure <= q.max_exposure
    BY <2>2 DEF Looser, RiskPolicy
  <2>4. QED
    BY <2>1, <2>3, Zenon
<1>7. cq["STALE_QUOTE"]
  <2>1. /\ cp["STALE_QUOTE"] = (i.quote_age <= p.stale_quote)
        /\ cq["STALE_QUOTE"] = (i.quote_age <= q.stale_quote)
    BY Zenon DEF Checks
  <2>2. i.quote_age <= p.stale_quote
    BY <1>1, <2>1, Zenon DEF CheckNames
  <2>3. i.quote_age <= q.stale_quote
    BY <2>2 DEF Looser, RiskPolicy
  <2>4. QED
    BY <2>1, <2>3, Zenon
<1>8. cq["DAILY_LOSS_LIMIT"]
  <2>1. /\ cp["DAILY_LOSS_LIMIT"]
             = (s.daily_realized_loss < p.max_daily_loss)
        /\ cq["DAILY_LOSS_LIMIT"]
             = (s.daily_realized_loss < q.max_daily_loss)
    BY Zenon DEF Checks
  <2>2. s.daily_realized_loss < p.max_daily_loss
    BY <1>1, <2>1, Zenon DEF CheckNames
  <2>3. s.daily_realized_loss < q.max_daily_loss
    BY <2>2 DEF Looser, RiskPolicy
  <2>4. QED
    BY <2>1, <2>3, Zenon
<1> HIDE DEF cp, cq
<1>9. \A name \in CheckNames : cq[name]
  BY <1>1, <1>2, <1>3, <1>4, <1>5, <1>6, <1>7, <1>8, Zenon DEF CheckNames
<1>10. QED
  BY <1>9, CheckDomain, Zenon DEF Approved, cq

-----------------------------------------------------------------------------
(* The workflow *)

\* At each phase of the handler: what is queued can be applied, and leads to
\* where the next step needs the order; what risk and broker said was said of
\* this request.
IInv ==
  /\ TypeOK
  /\ Applicable(status, todo)
  /\ phase = "received" => todo = << >> /\ status = "PENDING"
  /\ phase = "created" => EndsAs(status, todo) = "NEW"
  /\ phase = "submitted" => EndsAs(status, todo) = "SUBMITTED"
  /\ phase = "simulated" => todo = << >> /\ status = "SUBMITTED"
  /\ phase = "submitted" => Approved(Intent, policy, NewRiskState)
  /\ result # None =>
       request.model # None /\ result = Simulate(Intent, request.model)

LEMMA RequestTyped ==
  ASSUME request \in Requests
  PROVE  /\ request \in Request
         /\ request.model # None => request.model \in Model
         /\ OrderOK(Intent)
         /\ Intent.exposure \in Nat /\ Intent.quote_age \in Nat
         /\ request.outcome \in BrokerOutcome
<1>1. request \in Request
  BY ConstantsAssumption
<1>2. /\ request.model # None => request.model \in Model
      /\ request.quantity \in Nat \ {0} /\ request.exposure \in Nat
      /\ request.quote_age \in Nat /\ request.outcome \in BrokerOutcome
  BY <1>1 DEF Request
<1>3. /\ Intent.side \in {"BUY", "SELL"} /\ Intent.quantity = request.quantity
      /\ Intent.exposure = request.exposure
      /\ Intent.quote_age = request.quote_age
  BY DEF Intent
<1>4. QED
  BY <1>1, <1>2, <1>3, Zenon DEF OrderOK

LEMMA InitInv ==
  ASSUME Init
  PROVE  IInv
<1>1. /\ phase = "received" /\ request \in Requests /\ policy \in Policies
      /\ result = None /\ outcome = request.outcome /\ status = "PENDING"
      /\ history = << >> /\ todo = << >>
  BY DEF Init
<1>2. request.outcome \in BrokerOutcome
  BY <1>1, RequestTyped
<1>3. << >> \in Seq(OrderEventType) /\ "PENDING" \in OrderStatus
  BY DEF OrderStatus
<1>4. TypeOK
  BY <1>1, <1>2, <1>3 DEF TypeOK, Phases
<1>5. QED
  BY <1>1, <1>4, NoEvents DEF IInv

LEMMA RefuseStep ==
  ASSUME IInv, Refuse
  PROVE  IInv'
<1>1. /\ phase' = "refused"
      /\ UNCHANGED <<request, policy, result, outcome, status, history, todo>>
  BY DEF Refuse
<1>2. TypeOK'
  BY <1>1 DEF IInv, TypeOK, Phases
<1>3. Intent' = Intent
  BY <1>1, Zenon DEF Intent
<1>4. QED
  BY <1>1, <1>2, <1>3 DEF IInv

LEMMA CreateStep ==
  ASSUME IInv, Create
  PROVE  IInv'
<1>1. /\ phase = "received" /\ phase' = "created" /\ todo' = <<"CREATE">>
      /\ UNCHANGED <<request, policy, result, outcome, status, history>>
  BY DEF Create
<1>2. TypeOK'
  BY <1>1, HandlerQueues DEF IInv, TypeOK, Phases
<1>3. Intent' = Intent
  BY <1>1, Zenon DEF Intent
<1>4. Applicable(status', todo') /\ EndsAs(status', todo') = "NEW"
  BY <1>1, HandlerQueues, Zenon DEF IInv
<1>5. QED
  BY <1>1, <1>2, <1>3, <1>4 DEF IInv

LEMMA ApplyStep ==
  ASSUME IInv, Apply
  PROVE  IInv'
<1>1. /\ todo # << >> /\ status' = EVENT_TARGET_STATUS[Head(todo)]
      /\ history' = Append(history, Head(todo)) /\ todo' = Tail(todo)
      /\ UNCHANGED <<phase, request, policy, result, outcome>>
  BY DEF Apply
<1>2. /\ todo \in Seq(OrderEventType) /\ history \in Seq(OrderEventType)
  BY DEF IInv, TypeOK
<1>3. Head(todo) \in OrderEventType /\ Tail(todo) \in Seq(OrderEventType)
  BY <1>1, <1>2
<1>4. /\ status' \in OrderStatus /\ history' \in Seq(OrderEventType)
      /\ todo' \in Seq(OrderEventType)
  BY <1>1, <1>2, <1>3, TargetTyped
<1>5. TypeOK'
  BY <1>1, <1>4, Zenon DEF IInv, TypeOK
<1>6. /\ Applicable(status', todo')
      /\ EndsAs(status', todo') = EndsAs(status, todo)
  <2>1. Applicable(status, todo)
    BY Zenon DEF IInv
  <2>2. QED
    BY <1>1, <1>2, <2>1, QueueStep, Zenon
<1>7. Intent' = Intent
  BY <1>1, Zenon DEF Intent
<1>8. phase \notin {"received", "simulated"}
  BY <1>1 DEF IInv
<1>9. QED
  BY <1>1, <1>5, <1>6, <1>7, <1>8 DEF IInv

LEMMA EvaluateRiskStep ==
  ASSUME IInv, EvaluateRisk
  PROVE  IInv'
<1>1. /\ phase = "created" /\ todo = << >>
      /\ UNCHANGED <<request, policy, result, outcome, status, history>>
  BY DEF EvaluateRisk
<1>2. status = "NEW"
  <2>1. EndsAs(status, todo) = "NEW"
    BY <1>1, Zenon DEF IInv
  <2>2. EndsAs(status, << >>) = status
    BY NoEvents, Zenon
  <2>3. QED
    BY <1>1, <2>1, <2>2, Zenon
<1>3. Intent' = Intent
  BY <1>1, Zenon DEF Intent
<1>4. CASE Approved(Intent, policy, NewRiskState)
  <2>1. phase' = "submitted" /\ todo' = <<"RISK_APPROVE", "SUBMIT">>
    BY <1>4, Zenon DEF EvaluateRisk
  <2>2. TypeOK'
    BY <1>1, <2>1, HandlerQueues DEF IInv, TypeOK, Phases
  <2>3. Applicable(status', todo') /\ EndsAs(status', todo') = "SUBMITTED"
    BY <1>1, <1>2, <2>1, HandlerQueues, Zenon
  <2>4. Approved(Intent', policy', NewRiskState)
    BY <1>1, <1>3, <1>4, Zenon
  <2>5. QED
    BY <1>1, <1>3, <2>1, <2>2, <2>3, <2>4 DEF IInv
<1>5. CASE ~Approved(Intent, policy, NewRiskState)
  <2>1. phase' = "rejected" /\ todo' = <<"RISK_REJECT">>
    BY <1>5, Zenon DEF EvaluateRisk
  <2>2. TypeOK'
    BY <1>1, <2>1, HandlerQueues DEF IInv, TypeOK, Phases
  <2>3. Applicable(status', todo')
    BY <1>1, <1>2, <2>1, HandlerQueues, Zenon
  <2>4. QED
    BY <1>1, <1>3, <2>1, <2>2, <2>3 DEF IInv
<1>6. QED
  BY <1>4, <1>5

LEMMA SimulateBrokerStep ==
  ASSUME IInv, SimulateBroker
  PROVE  IInv'
<1>1. /\ phase = "submitted" /\ todo = << >> /\ todo' = << >>
      /\ UNCHANGED <<request, policy, status, history>>
  BY DEF SimulateBroker
<1>2. status = "SUBMITTED"
  BY <1>1, NoEvents, Zenon DEF IInv
<1>3. Intent' = Intent
  BY <1>1, Zenon DEF Intent
<1>4. Applicable(status', todo')
  BY <1>1, NoEvents, Zenon
<1>5. phase' \in {"simulated", "refused"}
  BY DEF SimulateBroker
<1>6. CASE UNCHANGED <<result, outcome>>
  <2>1. TypeOK'
    BY <1>1, <1>5, <1>6 DEF IInv, TypeOK, Phases
  <2>2. QED
    BY <1>1, <1>2, <1>3, <1>4, <1>5, <1>6, <2>1 DEF IInv
<1>7. CASE ~UNCHANGED <<result, outcome>>
  <2>1. /\ request.model # None
        /\ result' = Simulate(Intent, request.model)
        /\ outcome' = result'.outcome
    BY <1>7, Zenon DEF SimulateBroker
  <2>2. result' \in Results
    <3>1. request.model \in Model /\ OrderOK(Intent)
      BY <2>1, RequestTyped, Zenon DEF IInv, TypeOK
    <3>2. QED
      BY <2>1, <3>1, SimulationIs, Zenon
  <2>3. TypeOK'
    BY <1>1, <1>5, <2>1, <2>2 DEF IInv, TypeOK, Phases, Results
  <2>4. QED
    BY <1>1, <1>2, <1>3, <1>4, <1>5, <2>1, <2>3 DEF IInv
<1>8. QED
  BY <1>6, <1>7

LEMMA BookStep ==
  ASSUME IInv, Book
  PROVE  IInv'
<1>1. /\ phase = "simulated" /\ phase' = "booked"
      /\ todo' = BrokerEvents(outcome)
      /\ UNCHANGED <<request, policy, result, outcome, status, history>>
  BY DEF Book
<1>2. status' = "SUBMITTED" /\ outcome \in BrokerOutcome
  BY <1>1 DEF IInv, TypeOK
<1>3. todo' \in Seq(OrderEventType) /\ Applicable(status', todo')
  BY <1>1, <1>2, BrokerQueues, Zenon
<1>4. TypeOK'
  BY <1>1, <1>3 DEF IInv, TypeOK, Phases
<1>5. Intent' = Intent
  BY <1>1, Zenon DEF Intent
<1>6. QED
  BY <1>1, <1>3, <1>4, <1>5 DEF IInv

LEMMA Invariance == Spec => []IInv
<1>1. Init => IInv
  BY InitInv
<1>2. IInv /\ [Next]_vars => IInv'
  <2>1. CASE UNCHANGED vars
    BY <2>1 DEF vars, IInv, TypeOK, Intent
  <2>2. QED
    BY <2>1, RefuseStep, CreateStep, ApplyStep, EvaluateRiskStep,
       SimulateBrokerStep, BookStep, Zenon DEF Next
<1>3. QED
  BY <1>1, <1>2, PTL DEF Spec

(***************************************************************************)
(* The variables of the handler keep their types: every status and event   *)
(* is one of the OMS, every result one of the broker model.                *)
(***************************************************************************)
THEOREM TypeOKSafe == Spec => []TypeOK
<1>1. IInv => TypeOK
  BY DEF IInv
<1>2. QED
  BY <1>1, Invariance, PTL

(***************************************************************************)
(* Whatever the request, the policy and the broker outcome, apply_order_   *)
(* event never raises in PaperExecutionWorkflow.preview: the table allows  *)
(* each event where the one before it has left the order.                  *)
(***************************************************************************)
THEOREM NeverRaisesSafe == Spec => []NeverRaises
<1>1. IInv => NeverRaises
  BY QueueStep, Zenon DEF IInv, TypeOK, NeverRaises
<1>2. QED
  BY <1>1, Invariance, PTL

(***************************************************************************)
(* For any quantity, quote and limit a simulated fill takes no more than   *)
(* is quoted on its side, accounts for the rest of the order, and trades   *)
(* at the touch of a fresh and uncrossed quote, within the limit           *)
(* (simulate_paper_broker_outcome).                                        *)
(***************************************************************************)
THEOREM FillIsSoundSafe == Spec => []FillIsSound
<1>1. ASSUME IInv, result # None, result.fill_quantity > 0
      PROVE  LET snapshot == request.model.snapshot
                 buy == Intent.side = "BUY" IN
        /\ result.fill_quantity <= AvailableSize(Intent.side, snapshot)
        /\ result.fill_quantity + result.remaining_quantity = request.quantity
        /\ result.fill_price = ReferencePrice(Intent.side, snapshot)
        /\ request.model.type = "LIMIT" =>
             IF buy THEN result.fill_price <= request.model.limit
             ELSE result.fill_price >= request.model.limit
        /\ snapshot.bid <= snapshot.ask
        /\ snapshot.quote_age <= request.model.stale_quote
  <2> DEFINE m == request.model
             reference == ReferencePrice(Intent.side, m.snapshot)
  <2>1. /\ m \in Model /\ OrderOK(Intent) /\ request \in Request
        /\ result = Simulate(Intent, m)
    BY <1>1, RequestTyped, Zenon DEF IInv, TypeOK
  <2>2. /\ result \in Results
        /\ result.fill_quantity
             = IF Tradable(Intent, m) THEN Fill(Intent, m) ELSE 0
        /\ result.remaining_quantity = Intent.quantity - result.fill_quantity
        /\ result.fill_price = reference
    BY <1>1, <2>1, SimulationIs, Zenon
  <2>3. Tradable(Intent, m)
    <3>1. ~(0 > 0)
      OBVIOUS
    <3>2. QED
      BY <1>1, <2>2, <3>1, Zenon
  <2>4. /\ ~(m.snapshot.ask < m.snapshot.bid)
        /\ ~(m.snapshot.quote_age > m.stale_quote)
        /\ m.type = "LIMIT" => LimitMarketable(Intent.side, m.limit, reference)
    BY <2>3, Zenon DEF Tradable
  <2>5. result.fill_quantity <= AvailableSize(Intent.side, m.snapshot)
    BY <2>1, <2>2, <2>3, FillBounds, Zenon
  <2>6. /\ m.snapshot.bid \in Nat /\ m.snapshot.ask \in Nat /\ m.limit \in Nat
        /\ m.snapshot.quote_age \in Nat /\ m.stale_quote \in Nat
    BY <2>1 DEF Model
  <2>7. reference \in Nat
    BY <2>6 DEF ReferencePrice
  <2>8. /\ m.snapshot.bid <= m.snapshot.ask
        /\ m.snapshot.quote_age <= m.stale_quote
    BY <2>4, <2>6
  <2>9. Intent.quantity = request.quantity /\ request.quantity \in Nat
    BY <2>1 DEF Intent, Request
  <2>10. result.fill_quantity + result.remaining_quantity = request.quantity
    BY <2>2, <2>9 DEF Results
  <2> HIDE DEF m, reference
  <2>11. m.type = "LIMIT" =>
           IF Intent.side = "BUY" THEN reference <= m.limit
           ELSE reference >= m.limit
    BY <2>4, <2>6, <2>7 DEF LimitMarketable
  <2>12. QED
    BY <2>2, <2>5, <2>8, <2>10, <2>11, Zenon DEF m, reference
<1>2. IInv => FillIsSound
  BY <1>1, Zenon DEF FillIsSound
<1>3. QED
  BY <1>2, Invariance, PTL

(***************************************************************************)
(* More quoted size or a better liquidity score never fills less of an     *)
(* order, for all sizes and scores: at the score where                     *)
(* _liquidity_capacity changes its formula the capacity does not drop.     *)
(***************************************************************************)
THEOREM MoreLiquidityNeverHurtsSafe == Spec => []MoreLiquidityNeverHurts
<1>1. ASSUME IInv, result # None, NEW r \in Requests, r.model # None,
             MoreLiquid(request.model, r.model)
      PROVE  Simulate(Intent, r.model).fill_quantity >= result.fill_quantity
  <2>1. /\ request.model \in Model /\ OrderOK(Intent)
        /\ result = Simulate(Intent, request.model)
    BY <1>1, RequestTyped, Zenon DEF IInv, TypeOK
  <2>2. r.model \in Model
    BY <1>1, ConstantsAssumption DEF Request
  <2>3. QED
    BY <1>1, <2>1, <2>2, MoreLiquidFills, Zenon
<1>2. IInv => MoreLiquidityNeverHurts
  BY <1>1, Zenon DEF MoreLiquidityNeverHurts
<1>3. QED
  BY <1>2, Invariance, PTL

(***************************************************************************)
(* An order that passed evaluate_paper_order passes it under any settings  *)
(* that only have higher limits for exposure, quote age or daily loss, the *)
(* three the settings give, for all policies and intents.                  *)
(***************************************************************************)
THEOREM LooserPolicyNeverRefusesSafe == Spec => []LooserPolicyNeverRefuses
<1>1. ASSUME IInv, phase = "submitted", NEW q \in Policies,
             Looser(policy, q)
      PROVE  Approved(Intent, q, NewRiskState)
  <2>1. policy \in Policies /\ Approved(Intent, policy, NewRiskState)
    BY <1>1, Zenon DEF IInv, TypeOK
  <2>2. Intent.exposure \in Nat /\ Intent.quote_age \in Nat
    BY <1>1, RequestTyped, Zenon DEF IInv, TypeOK
  <2>3. PICK contracts : policy \in RiskPolicy(contracts)
    BY <2>1, ConstantsAssumption, Zenon
  <2>4. PICK others : q \in RiskPolicy(others)
    BY ConstantsAssumption, Zenon
  <2>5. NewRiskState.daily_realized_loss \in Int
    BY DEF NewRiskState
  <2>6. QED
    BY <1>1, <2>1, <2>2, <2>3, <2>4, <2>5, LooserApproves, Zenon
<1>2. IInv => LooserPolicyNeverRefuses
  BY <1>1, Zenon DEF LooserPolicyNeverRefuses
<1>3. QED
  BY <1>2, Invariance, PTL

=============================================================================
