--------------------------- MODULE PaperWorkflow ---------------------------
(***************************************************************************)
(* PaperExecutionWorkflow.preview of                                       *)
(* backend/app/services/paper_execution_workflow.py: one request taken     *)
(* through approval, risk rules, broker simulation, gateway and the order  *)
(* state machine.  It composes RiskRules, PaperBrokerSimulation and        *)
(* PaperOutcome with the transition table of OrderStateMachine.            *)
(*                                                                         *)
(* A request is handled on one thread and nothing of it is shared; the     *)
(* steps are the calls of the handler, any of which may raise.             *)
(***************************************************************************)
EXTENDS Sequences, OrderStateMachine, PaperOutcome, RiskRules,
        PaperBrokerSimulation

CONSTANTS
  Requests,  \* the requests a caller may send
  Policies   \* the risk policies the settings may give

None == [outcome |-> "none"]

\* PaperBrokerSimulationModelInput; the score in tenths
Model ==
  [ snapshot : [ symbol : {"TX", "MTX", "TMF"}, bid : Nat \ {0},
                 ask : Nat \ {0}, bid_size : Nat, ask_size : Nat,
                 quote_age : Nat, score : 0..10 ],
    type : {"MARKET", "LIMIT"}, limit : Nat, max_spread : Nat \ {0},
    stale_quote : Nat \ {0} ]

\* PaperExecutionWorkflowRequest with the signal it carries
Request ==
  [ symbol : {"TX", "MTX", "TMF"}, direction : {"LONG", "SHORT", "FLAT"},
    quantity : Nat \ {0}, exposure : Nat, quote_age : Nat,
    approved : BOOLEAN, outcome : BrokerOutcome, model : Model \cup {None} ]

ASSUME ConstantsAssumption ==
  /\ Requests \subseteq Request
  /\ \A p \in Policies :
       \E contracts \in SUBSET {"TX", "MTX", "TMF"} :
         p \in RiskPolicy(contracts)

VARIABLES
  phase,     \* how far the handler is
  request,
  policy,    \* risk_policy
  result,    \* simulation_result
  outcome,   \* effective_simulation
  status,    \* of oms_state
  history,   \* the event types of oms_state
  todo       \* the events to apply next

vars == <<phase, request, policy, result, outcome, status, history, todo>>

Phases == {"received", "created", "submitted", "simulated", "booked",
           "rejected", "refused"}

\* paper_order_intent_from_signal
Intent ==
  [ idempotency_key |-> "key", symbol |-> request.symbol,
    side |-> IF request.direction = "LONG" THEN "BUY" ELSE "SELL",
    quantity |-> request.quantity, exposure |-> request.exposure,
    quote_age |-> request.quote_age, order_price |-> 0,
    reference_price |-> 0, paper_only |-> TRUE ]

Init ==
  /\ phase = "received"
  /\ request \in Requests
  /\ policy \in Policies
  /\ result = None
  /\ outcome = request.outcome
  /\ status = "PENDING"
  /\ history = << >>
  /\ todo = << >>

-----------------------------------------------------------------------------

\* create_approval raises, or the signal is FLAT.
Refuse ==
  /\ phase = "received"
  /\ ~ request.approved \/ request.direction = "FLAT"
  /\ phase' = "refused"
  /\ UNCHANGED <<request, policy, result, outcome, status, history, todo>>

\* The intent and the order are created.
Create ==
  /\ phase = "received"
  /\ request.approved /\ request.direction # "FLAT"
  /\ phase' = "created"
  /\ todo' = <<"CREATE">>
  /\ UNCHANGED <<request, policy, result, outcome, status, history>>

\* apply_order_event on the next event.  If it raises, the call ends here
\* with an error and the rest is never applied.
Apply ==
  /\ todo # << >>
  /\ CanApply(status, Head(todo))
  /\ status' = EVENT_TARGET_STATUS[Head(todo)]
  /\ history' = Append(history, Head(todo))
  /\ todo' = Tail(todo)
  /\ UNCHANGED <<phase, request, policy, result, outcome>>

\* evaluate_paper_order, always on a risk state without a past.
EvaluateRisk ==
  /\ phase = "created" /\ todo = << >>
  /\ IF Approved(Intent, policy, NewRiskState)
       THEN phase' = "submitted" /\ todo' = <<"RISK_APPROVE", "SUBMIT">>
       ELSE phase' = "rejected" /\ todo' = <<"RISK_REJECT">>
  /\ UNCHANGED <<request, policy, result, outcome, status, history>>

\* simulate_paper_broker_outcome, if the request carries a model; it raises
\* if the snapshot is of another symbol.
SimulateBroker ==
  /\ phase = "submitted" /\ todo = << >>
  /\ IF request.model = None THEN
       phase' = "simulated" /\ UNCHANGED <<result, outcome>>
     ELSE IF request.model.snapshot.symbol # request.symbol THEN
       phase' = "refused" /\ UNCHANGED <<result, outcome>>
     ELSE
       /\ phase' = "simulated"
       /\ result' = Simulate(Intent, request.model)
       /\ outcome' = result'.outcome
  /\ UNCHANGED <<request, policy, status, history, todo>>

\* submit_order, which accepts every intent that risk approved, and
\* apply_paper_broker_outcome.
Book ==
  /\ phase = "simulated"
  /\ phase' = "booked"
  /\ todo' = BrokerEvents(outcome)
  /\ UNCHANGED <<request, policy, result, outcome, status, history>>

Next ==
  Refuse \/ Create \/ Apply \/ EvaluateRisk \/ SimulateBroker \/ Book

Spec == Init /\ [][Next]_vars

-----------------------------------------------------------------------------

TypeOK ==
  /\ phase \in Phases
  /\ request \in Requests
  /\ policy \in Policies
  /\ \/ result = None
     \/ result \in [outcome : BrokerOutcome, fill_price : Nat,
                    fill_quantity : Nat, remaining_quantity : Nat]
  /\ outcome \in BrokerOutcome
  /\ status \in OrderStatus
  /\ history \in Seq(OrderEventType)
  /\ todo \in Seq(OrderEventType)

(***************************************************************************)
(* The workflow never asks the state machine for a transition that the     *)
(* table refuses: apply_order_event does not raise for any approval,       *)
(* policy, requested outcome or quote.                                     *)
(***************************************************************************)
NeverRaises == todo # << >> => CanApply(status, Head(todo))

(***************************************************************************)
(* A simulated fill is sound: it takes no more than the size quoted on its *)
(* side, trades at the touch, never worse than the limit, and only on a    *)
(* fresh, uncrossed quote.                                                 *)
(***************************************************************************)
FillIsSound ==
  (result # None /\ result.fill_quantity > 0) =>
    LET snapshot == request.model.snapshot
        buy == Intent.side = "BUY" IN
      /\ result.fill_quantity <= AvailableSize(Intent.side, snapshot)
      /\ result.fill_quantity + result.remaining_quantity = request.quantity
      /\ result.fill_price = ReferencePrice(Intent.side, snapshot)
      /\ request.model.type = "LIMIT" =>
           IF buy THEN result.fill_price <= request.model.limit
           ELSE result.fill_price >= request.model.limit
      /\ snapshot.bid <= snapshot.ask
      /\ snapshot.quote_age <= request.model.stale_quote

\* m2 quotes at least the liquidity of m1 at the same prices and age.
MoreLiquid(m1, m2) ==
  /\ m2.snapshot.ask_size >= m1.snapshot.ask_size
  /\ m2.snapshot.bid_size >= m1.snapshot.bid_size
  /\ m2.snapshot.score >= m1.snapshot.score
  /\ m2 = [m1 EXCEPT !.snapshot.ask_size = m2.snapshot.ask_size,
                     !.snapshot.bid_size = m2.snapshot.bid_size,
                     !.snapshot.score = m2.snapshot.score]

(***************************************************************************)
(* More quoted size or a better liquidity score never fills less           *)
(* (_liquidity_capacity changes its formula at a score of one half).       *)
(***************************************************************************)
MoreLiquidityNeverHurts ==
  result # None =>
    \A r \in Requests :
      (r.model # None /\ MoreLiquid(request.model, r.model)) =>
        Simulate(Intent, r.model).fill_quantity >= result.fill_quantity

\* The three limits that are settings are at least as high in q as in p, and
\* p and q agree on the rest.
Looser(p, q) ==
  /\ q.max_exposure >= p.max_exposure
  /\ q.stale_quote >= p.stale_quote
  /\ q.max_daily_loss >= p.max_daily_loss
  /\ q = [p EXCEPT !.max_exposure = q.max_exposure,
                   !.stale_quote = q.stale_quote,
                   !.max_daily_loss = q.max_daily_loss]

(***************************************************************************)
(* Settings with looser limits never refuse an order that tighter ones     *)
(* let through.                                                            *)
(***************************************************************************)
LooserPolicyNeverRefuses ==
  phase = "submitted" =>
    \A q \in Policies :
      Looser(policy, q) => Approved(Intent, q, NewRiskState)

=============================================================================
