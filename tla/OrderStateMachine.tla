------------------------- MODULE OrderStateMachine -------------------------
(***************************************************************************)
(* The OMS transition table of                                             *)
(* backend/app/domain/order_state_machine.py as pure operators.  Every     *)
(* module that moves an order through its lifecycle uses these.            *)
(***************************************************************************)

OrderStatus ==
  { "PENDING", "NEW", "RISK_CHECKED", "SUBMITTED", "ACCEPTED",
    "PARTIALLY_FILLED", "FILLED", "CANCEL_REQUESTED", "CANCELLED",
    "REJECTED", "EXPIRED", "UNKNOWN_NEEDS_RECONCILIATION" }

OrderEventType ==
  { "CREATE", "RISK_APPROVE", "RISK_REJECT", "SUBMIT", "ACKNOWLEDGE",
    "PARTIAL_FILL", "FILL", "CANCEL_REQUEST", "CANCEL", "REJECT",
    "EXPIRE", "MARK_UNKNOWN" }

\* The status an event leads to, whatever the status it is applied in.
EVENT_TARGET_STATUS ==
  [ e \in OrderEventType |->
      CASE e = "CREATE"         -> "NEW"
        [] e = "RISK_APPROVE"   -> "RISK_CHECKED"
        [] e = "RISK_REJECT"    -> "REJECTED"
        [] e = "SUBMIT"         -> "SUBMITTED"
        [] e = "ACKNOWLEDGE"    -> "ACCEPTED"
        [] e = "PARTIAL_FILL"   -> "PARTIALLY_FILLED"
        [] e = "FILL"           -> "FILLED"
        [] e = "CANCEL_REQUEST" -> "CANCEL_REQUESTED"
        [] e = "CANCEL"         -> "CANCELLED"
        [] e = "REJECT"         -> "REJECTED"
        [] e = "EXPIRE"         -> "EXPIRED"
        [] e = "MARK_UNKNOWN"   -> "UNKNOWN_NEEDS_RECONCILIATION" ]

\* The events each status accepts; a status not listed accepts none.
ALLOWED_TRANSITIONS ==
  [ s \in OrderStatus |->
      CASE s = "PENDING"      -> { "CREATE", "RISK_REJECT" }
        [] s = "NEW"          -> { "RISK_APPROVE", "RISK_REJECT",
                                   "CANCEL_REQUEST", "REJECT", "EXPIRE" }
        [] s = "RISK_CHECKED" -> { "SUBMIT", "CANCEL_REQUEST", "REJECT",
                                   "EXPIRE" }
        [] s = "SUBMITTED"    -> { "ACKNOWLEDGE", "CANCEL_REQUEST",
                                   "REJECT", "EXPIRE" }
        [] s = "ACCEPTED"     -> { "PARTIAL_FILL", "FILL",
                                   "CANCEL_REQUEST", "REJECT", "EXPIRE" }
        [] s = "PARTIALLY_FILLED" -> { "PARTIAL_FILL", "FILL",
                                       "CANCEL_REQUEST", "EXPIRE" }
        [] s = "CANCEL_REQUESTED" -> { "CANCEL", "REJECT" }
        [] OTHER -> {} ]

\* TERMINAL_ORDER_STATUSES of paper_oms_reliability.py, the statuses the
\* timeout scan and the timeout mark leave alone.
TERMINAL_ORDER_STATUSES ==
  { "FILLED", "CANCELLED", "REJECTED", "EXPIRED",
    "UNKNOWN_NEEDS_RECONCILIATION" }

\* Mutation: whatever has not ended accepts everything.
CanApplyUntilTerminal(status, event) ==
  event = "MARK_UNKNOWN" \/ status \notin TERMINAL_ORDER_STATUSES

\* Mutation: a fill is accepted while a cancel is under way.
CanApplyFillInCancel(status, event) ==
  \/ event = "MARK_UNKNOWN" \/ event \in ALLOWED_TRANSITIONS[status]
  \/ status = "CANCEL_REQUESTED" /\ event \in { "PARTIAL_FILL", "FILL" }

\* apply_order_event raises unless this holds.
CanApply(status, event) ==
  event = "MARK_UNKNOWN" \/ event \in ALLOWED_TRANSITIONS[status]

=============================================================================
