--------------------------- MODULE OmsOrderProofs ---------------------------
(***************************************************************************)
(* Proofs about OmsOrder, for event streams of any length.  The history    *)
(* grows at its end only, so it is enough to know what the present status  *)
(* says about the past: a status past the risk check has a RISK_APPROVE    *)
(* behind it, and a stopping event leaves a status that takes no fill.     *)
(***************************************************************************)
EXTENDS OmsOrder, SequenceTheorems, TLAPS

RiskPassed ==
  { "RISK_CHECKED", "SUBMITTED", "ACCEPTED", "PARTIALLY_FILLED" }

StopEvents ==
  { "CANCEL_REQUEST", "CANCEL", "EXPIRE", "REJECT", "RISK_REJECT", "FILL",
    "MARK_UNKNOWN" }

Stopped == TERMINAL_ORDER_STATUSES \cup { "CANCEL_REQUESTED" }

Past(e) == \E i \in DOMAIN history : history[i] = e

IInv ==
  /\ TypeOK
  /\ RiskBeforeBroker
  /\ NoLateFill
  /\ status \in RiskPassed => Past("RISK_APPROVE")
  /\ \A e \in StopEvents : Past(e) => status \in Stopped

-----------------------------------------------------------------------------

\* What the table says of one step, event by event.
LEMMA TableFacts ==
  ASSUME NEW s \in OrderStatus, NEW e \in OrderEventType, CanApply(s, e)
  PROVE  /\ EVENT_TARGET_STATUS[e] \in OrderStatus
         /\ e \in BrokerEvents => s \in RiskPassed
         /\ EVENT_TARGET_STATUS[e] \in RiskPassed =>
              s \in RiskPassed \/ e = "RISK_APPROVE"
         /\ e \in { "PARTIAL_FILL", "FILL" } => s \notin Stopped
         /\ e \in StopEvents => EVENT_TARGET_STATUS[e] \in Stopped
         /\ s \in Stopped => EVENT_TARGET_STATUS[e] \in Stopped
         /\ s \in TERMINAL_ORDER_STATUSES =>
              EVENT_TARGET_STATUS[e] = "UNKNOWN_NEEDS_RECONCILIATION"
BY DEF CanApply, EVENT_TARGET_STATUS, ALLOWED_TRANSITIONS, OrderStatus,
       OrderEventType, BrokerEvents, RiskPassed, Stopped, StopEvents,
       TERMINAL_ORDER_STATUSES

LEMMA InitIInv == Init => IInv
BY DEF Init, IInv, TypeOK, OrderStatus, RiskBeforeBroker, NoLateFill,
       RiskPassed, Past

LEMMA StepIInv ==
  ASSUME IInv, NEW e \in OrderEventType, ApplyOrderEvent(e)
  PROVE  IInv'
<1> DEFINE n == Len(history)
<1>1. /\ status \in OrderStatus
      /\ history \in Seq(OrderEventType)
      /\ CanApply(status, e)
      /\ status' = EVENT_TARGET_STATUS[e]
      /\ history' = Append(history, e)
  BY DEF IInv, TypeOK, ApplyOrderEvent
<1>2. /\ n \in Nat
      /\ DOMAIN history = 1 .. n
      /\ history' \in Seq(OrderEventType)
      /\ DOMAIN history' = 1 .. (n + 1)
      /\ history'[n + 1] = e
      /\ \A i \in 1 .. n : history'[i] = history[i]
  BY <1>1, AppendProperties
<1> HIDE DEF n
<1>3. TypeOK'
  BY <1>1, <1>2, TableFacts DEF TypeOK
<1>4. ASSUME NEW f
      PROVE  /\ Past(f)' <=> (Past(f) \/ f = e)
             /\ \A i \in 1 .. (n + 1) :
                  Before(i, f)' <=> \E j \in 1 .. (i - 1) : history[j] = f
  BY <1>2 DEF Past, Before
<1>5. RiskBeforeBroker'
  <2> SUFFICES ASSUME NEW i \in 1 .. (n + 1), history'[i] \in BrokerEvents
               PROVE  \E j \in 1 .. (i - 1) : history[j] = "RISK_APPROVE"
    BY <1>2, <1>4 DEF RiskBeforeBroker
  <2>1. CASE i = n + 1
    BY <2>1, <1>1, <1>2, TableFacts DEF IInv, Past
  <2>2. CASE i \in 1 .. n
    BY <2>2, <1>2 DEF IInv, RiskBeforeBroker, Before
  <2>3. QED
    BY <2>1, <2>2, <1>2
<1>6. NoLateFill'
  <2> SUFFICES ASSUME NEW i \in 1 .. (n + 1),
                      history'[i] \in { "PARTIAL_FILL", "FILL" },
                      NEW f \in StopEvents, Before(i, f)'
               PROVE  FALSE
    BY <1>2 DEF NoLateFill, StopEvents
  <2> PICK j \in 1 .. (i - 1) : history[j] = f
    BY <1>4
  <2>1. CASE i = n + 1
    <3>1. Past(f)
      BY <2>1, <1>2 DEF Past
    <3>2. QED
      BY <3>1, <2>1, <1>1, <1>2, TableFacts DEF IInv
  <2>2. CASE i \in 1 .. n
    BY <2>2, <1>2 DEF IInv, NoLateFill, Before, StopEvents
  <2>3. QED
    BY <2>1, <2>2, <1>2
<1>7. (status \in RiskPassed => Past("RISK_APPROVE"))'
  BY <1>1, <1>4, TableFacts DEF IInv
<1>8. (\A f \in StopEvents : Past(f) => status \in Stopped)'
  BY <1>1, <1>4, TableFacts DEF IInv
<1>9. QED
  BY <1>3, <1>5, <1>6, <1>7, <1>8 DEF IInv

\* The invariant the two safety properties rest on.
THEOREM Inductive == Spec => []IInv
<1>1. IInv /\ [Next]_vars => IInv'
  <2> SUFFICES ASSUME IInv, [Next]_vars
               PROVE  IInv'
    OBVIOUS
  <2>1. CASE Next
    BY <2>1, StepIInv DEF Next
  <2>2. CASE UNCHANGED vars
    BY <2>2 DEF vars, IInv, TypeOK, RiskBeforeBroker, NoLateFill, Before, Past
  <2>3. QED
    BY <2>1, <2>2
<1>2. QED
  BY InitIInv, <1>1, PTL DEF Spec

\* apply_order_event never books a broker event on an order the risk engine
\* has not approved.
THEOREM RiskBeforeBrokerSafe == Spec => []RiskBeforeBroker
<1>1. IInv => RiskBeforeBroker
  BY DEF IInv
<1>2. QED
  BY <1>1, Inductive, PTL

\* apply_order_event never books a fill on an order that was stopped.
THEOREM NoLateFillSafe == Spec => []NoLateFill
<1>1. IInv => NoLateFill
  BY DEF IInv
<1>2. QED
  BY <1>1, Inductive, PTL

\* A terminal status of apply_order_event is left by MARK_UNKNOWN only.
THEOREM TerminalIsFinalSafe == Spec => TerminalIsFinal
<1>1. ASSUME IInv, [Next]_vars, status \in TERMINAL_ORDER_STATUSES
      PROVE  \/ status' = "UNKNOWN_NEEDS_RECONCILIATION"
             \/ UNCHANGED vars
  BY <1>1, TableFacts DEF IInv, TypeOK, Next, ApplyOrderEvent
<1>2. IInv /\ [Next]_vars =>
        [(status \in TERMINAL_ORDER_STATUSES =>
            status' = "UNKNOWN_NEEDS_RECONCILIATION")]_vars
  BY <1>1
<1>3. QED
  BY <1>2, Inductive, PTL DEF Spec, TerminalIsFinal

=============================================================================
