---------------------------- MODULE PaperOutcome ----------------------------
(***************************************************************************)
(* What apply_paper_broker_outcome of                                      *)
(* backend/app/services/paper_execution_workflow.py makes of a broker      *)
(* outcome: the events it applies to the order and the quantity it books.  *)
(***************************************************************************)
EXTENDS Integers

\* PaperBrokerSimulationOutcome
BrokerOutcome == {"acknowledge", "partial_fill", "fill", "reject", "cancel"}

\* Mutation: a fill is booked without the acknowledgement before it.
BrokerEventsUnacknowledged(outcome) ==
  CASE outcome = "reject"       -> <<"REJECT">>
    [] outcome = "acknowledge"  -> <<"ACKNOWLEDGE">>
    [] outcome = "partial_fill" -> <<"PARTIAL_FILL">>
    [] outcome = "fill"         -> <<"FILL">>
    [] outcome = "cancel" -> <<"ACKNOWLEDGE", "CANCEL_REQUEST", "CANCEL">>

\* The events of an outcome, in the order they are applied.
BrokerEvents(outcome) ==
  CASE outcome = "reject"       -> <<"REJECT">>
    [] outcome = "acknowledge"  -> <<"ACKNOWLEDGE">>
    [] outcome = "partial_fill" -> <<"ACKNOWLEDGE", "PARTIAL_FILL">>
    [] outcome = "fill"         -> <<"ACKNOWLEDGE", "FILL">>
    [] outcome = "cancel" -> <<"ACKNOWLEDGE", "CANCEL_REQUEST", "CANCEL">>

\* The last_quantity booked for an event of an order.
Filled(type, quantity) ==
  CASE type = "PARTIAL_FILL" -> quantity - 1
    [] type = "FILL"         -> quantity
    [] OTHER                 -> 0

=============================================================================
