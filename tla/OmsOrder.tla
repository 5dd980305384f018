------------------------------ MODULE OmsOrder ------------------------------
(***************************************************************************)
(* One order driven through apply_order_event by an arbitrary stream of    *)
(* events: the risk engine, the broker, the user and the timeout handling  *)
(* report in any order, late and repeatedly.  An event the table does not  *)
(* allow raises and leaves the order as it is, so it is not a step here.   *)
(***************************************************************************)
EXTENDS Integers, Sequences, OrderStateMachine

CONSTANT MaxEvents   \* bound on the number of events an order takes

ASSUME MaxEventsAssumption == MaxEvents \in Nat

VARIABLES
  status,    \* OrderState.status
  history    \* OrderState.history: the types of the applied events

vars == <<status, history>>

\* new_order_state
Init ==
  /\ status = "PENDING"
  /\ history = <<>>

\* apply_order_event for one event that the order accepts.
ApplyOrderEvent(e) ==
  /\ Len(history) < MaxEvents
  /\ CanApply(status, e)
  /\ status' = EVENT_TARGET_STATUS[e]
  /\ history' = Append(history, e)

Next == \E e \in OrderEventType : ApplyOrderEvent(e)

Spec == Init /\ [][Next]_vars

-----------------------------------------------------------------------------

TypeOK ==
  /\ status \in OrderStatus
  /\ history \in Seq(OrderEventType)

BrokerEvents == { "SUBMIT", "ACKNOWLEDGE", "PARTIAL_FILL", "FILL" }

Before(i, e) == \E j \in 1 .. (i - 1) : history[j] = e

(***************************************************************************)
(* Every order passes the risk engine before OMS submission: no event      *)
(* stream gets SUBMIT, ACKNOWLEDGE, PARTIAL_FILL or FILL into the history  *)
(* of an order before a RISK_APPROVE.                                      *)
(***************************************************************************)
RiskBeforeBroker ==
  \A i \in DOMAIN history :
    history[i] \in BrokerEvents => Before(i, "RISK_APPROVE")

(***************************************************************************)
(* A broker answer that loses the race with a cancel or a timeout is never *)
(* booked: no fill comes after CANCEL_REQUEST, EXPIRE or a rejection.      *)
(***************************************************************************)
NoLateFill ==
  \A i \in DOMAIN history :
    history[i] \in { "PARTIAL_FILL", "FILL" } =>
      \A e \in { "CANCEL_REQUEST", "CANCEL", "EXPIRE", "REJECT",
                 "RISK_REJECT", "FILL", "MARK_UNKNOWN" } : ~ Before(i, e)

(***************************************************************************)
(* A terminal order is left only by MARK_UNKNOWN, the escape every state   *)
(* has.                                                                    *)
(***************************************************************************)
TerminalIsFinal ==
  [][(status \in TERMINAL_ORDER_STATUSES =>
        status' = "UNKNOWN_NEEDS_RECONCILIATION")]_vars

=============================================================================
