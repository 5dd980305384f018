--------------------------- MODULE MockDemoPanel ---------------------------
(***************************************************************************)
(* The mock backend demo: a panel of the Command Center                    *)
(* (frontend/app/components/MockBackendDemoPanel.tsx), another visitor,    *)
(* and the one demo session of the backend they share                      *)
(* (backend/app/domain/mock_backend.py, MockBackendDemoSessionStore).      *)
(*                                                                         *)
(* Routes run in threads.  The setters of the store copy the session with  *)
(* some fields replaced and assign the copy, without a lock.  A signal and *)
(* an order are told apart by their symbol and tick; an order carries the  *)
(* portfolio made of it.                                                   *)
(***************************************************************************)
EXTENDS Naturals

CONSTANTS
  Symbols,     \* symbols the visitors try
  OtherTicks,  \* ticks the other visitor has come to
  None,        \* no signal, order or answer
  MaxTick      \* bound on the ticks

ConstantsAssumption ==
  /\ MaxTick \in Nat \ {0}
  /\ None \notin Symbols \X (0..MaxTick)
  /\ OtherTicks \subseteq 1..MaxTick

VARIABLES
  session,  \* the demo session of the backend
  call,     \* the call of each visitor that is under way
  tick,     \* of the panel
  market,   \* the tick of marketData
  signal,   \* the signal of strategyResult
  order,    \* orderResult
  working,  \* isWorking
  error,    \* whether errorMessage is shown
  alone     \* since it was loaded, no other call and no error came between

panel == <<tick, market, signal, order, working, error, alone>>
vars == <<session, call, panel>>

-----------------------------------------------------------------------------

Ids == Symbols \X (0..MaxTick)

Visitors == {"panel", "other"}

\* MockDemoSession
NewSession ==
  [ current_tick |-> 0, market_data |-> 0, latest_signal |-> None,
    latest_order |-> None, portfolio |-> None ]

\* Mutation: the portfolio is not replaced with the order.
SetOrderOnly(s, id, sent) ==
  [s EXCEPT !.current_tick = id[2], !.market_data = id[2],
            !.latest_signal = sent, !.latest_order = id]

\* set_order; the signal is the one that was sent along.
SetOrder(s, id, sent) ==
  [s EXCEPT !.current_tick = id[2], !.market_data = id[2],
            !.latest_signal = sent, !.latest_order = id, !.portfolio = id]

\* set_signal
SetSignal(s, id) ==
  [s EXCEPT !.current_tick = id[2], !.market_data = id[2],
            !.latest_signal = id]

\* Calls: what is asked, for which signal or order, with which signal along,
\* how far it is, and the session as it was copied or answered.
Call(kind, id, sent) ==
  [ kind |-> kind, id |-> id, sent |-> sent, at |-> "sent",
    session |-> None ]

Idle == Call("none", None, None)

\* The panel as it is mounted, with loadInitialState on its way: status,
\* market data of tick 1, and the session.
Load == Call("load", None, None)

Init ==
  /\ session = NewSession
  /\ call = [v \in Visitors |-> IF v = "panel" THEN Load ELSE Idle]
  /\ tick = 1
  /\ market = None
  /\ signal = None
  /\ order = None
  /\ working = TRUE
  /\ error = FALSE
  /\ alone = TRUE

\* A call of the panel begins; its buttons are disabled.
Begin(kind, id, sent) ==
  /\ ~working
  /\ working' = TRUE
  /\ error' = FALSE
  /\ call' = [call EXCEPT !["panel"] = Call(kind, id, sent)]
  /\ UNCHANGED <<session, tick, market, signal, order, alone>>

\* generateNextTick: the market data are computed, no session is involved.
GenerateNextTick ==
  /\ tick < MaxTick
  /\ Begin("tick", None, None)

RunMockStrategy(symbol) == Begin("strategy", <<symbol, tick>>, None)

\* simulatePaperOrder, with the signal at hand, of whatever symbol or tick.
SimulatePaperOrder(symbol) ==
  Begin("order", <<symbol, tick>>,
        IF signal = None THEN <<symbol, tick>> ELSE signal)

ResetDemoSession == Begin("reset", None, None)

\* Another visitor calls what changes the session.
Elsewhere(kind, id) ==
  /\ call["other"] = Idle
  /\ call' = [call EXCEPT !["other"] = Call(kind, id, id)]
  /\ alone' = FALSE
  /\ UNCHANGED <<session, tick, market, signal, order, working, error>>

\* A setter copies the session.
Copy(v) ==
  /\ call[v].kind \in {"strategy", "order"} /\ call[v].at = "sent"
  /\ call' = [call EXCEPT ![v].at = "copied", ![v].session = session]
  /\ UNCHANGED <<session, panel>>

\* And assigns what it made of the copy.
Assign(v) ==
  /\ call[v].at = "copied"
  /\ session' =
       IF call[v].kind = "order"
         THEN SetOrder(call[v].session, call[v].id, call[v].sent)
         ELSE SetSignal(call[v].session, call[v].id)
  /\ call' = [call EXCEPT ![v].at = "handled", ![v].session = None]
  /\ UNCHANGED panel

\* reset assigns; the session is read, except for the market data of a tick.
Answer(v) ==
  /\ call[v].kind \in {"load", "tick", "reset"} /\ call[v].at = "sent"
  /\ session' = IF call[v].kind = "reset" THEN NewSession ELSE session
  /\ call' = [call EXCEPT ![v].at = "handled",
                          ![v].session =
                            IF call[v].kind = "tick" THEN None ELSE session']
  /\ UNCHANGED panel

\* The answer arrives.  After an order the panel fetches the session as
\* well, of which it shows nothing but warnings.
Receive ==
  LET c == call["panel"] IN
    /\ c.at = "handled"
    /\ tick' = CASE c.kind = "tick"  -> tick + 1
                 [] c.kind = "reset" -> c.session.current_tick + 1
                 [] OTHER            -> tick
    /\ market' = CASE c.kind = "load"  -> tick
                   [] c.kind = "tick"  -> tick + 1
                   [] c.kind = "reset" -> c.session.market_data
                   [] OTHER            -> market
    /\ signal' = CASE c.kind = "load"     -> c.session.latest_signal
                   [] c.kind = "strategy" -> c.id
                   [] c.kind = "reset"    -> None
                   [] OTHER               -> signal
    /\ order' = CASE c.kind = "load"  -> c.session.latest_order
                  [] c.kind = "order" -> c.id
                  [] c.kind = "reset" -> None
                  [] OTHER            -> order
    /\ IF c.kind = "order"
         THEN /\ call' = [call EXCEPT !["panel"] = Call("refetch", None, None)]
              /\ UNCHANGED working
         ELSE call' = [call EXCEPT !["panel"] = Idle] /\ working' = FALSE
    /\ UNCHANGED <<session, error, alone>>

\* The session after an order.
ReceiveSession ==
  /\ call["panel"].kind = "refetch"
  /\ call' = [call EXCEPT !["panel"] = Idle]
  /\ working' = FALSE
  /\ UNCHANGED <<session, tick, market, signal, order, error, alone>>

\* The finally branch.
WorkingAfter == FALSE

\* A refusal (400, 422) or a broken connection, at any point.  What was sent
\* may have been handled by then, or be handled still: it goes on as a call
\* of nobody.
ReceiveError ==
  /\ call["panel"] # Idle
  /\ error' = TRUE
  /\ alone' = FALSE
  /\ working' = WorkingAfter
  /\ call' = [call EXCEPT !["panel"] = Idle,
                          !["other"] =
                            IF call["other"] = Idle
                              /\ call["panel"].kind
                                   \in {"strategy", "order", "reset"}
                              /\ call["panel"].at # "handled"
                            THEN call["panel"] ELSE @]
  /\ UNCHANGED <<session, tick, market, signal, order>>

\* The other visitor has the answer.
Leave ==
  /\ call["other"].at = "handled"
  /\ call' = [call EXCEPT !["other"] = Idle]
  /\ UNCHANGED <<session, panel>>

\* A reload, when nothing is under way; the tick starts again.
Reload ==
  /\ ~working
  /\ tick' = 1
  /\ market' = None
  /\ signal' = None
  /\ order' = None
  /\ working' = TRUE
  /\ error' = FALSE
  /\ alone' = (call["other"] = Idle)
  /\ call' = [call EXCEPT !["panel"] = Load]
  /\ UNCHANGED session

\* In view: the table of the market, the signal, the order with the history
\* of its OMS state, and the portfolio, which is the order's or empty.
View ==
  [market |-> market, signal |-> signal, order |-> order, portfolio |-> order]

Next ==
  \/ GenerateNextTick
  \/ \E symbol \in Symbols :
       RunMockStrategy(symbol) \/ SimulatePaperOrder(symbol)
  \/ ResetDemoSession
  \/ \E kind \in {"strategy", "order"}, id \in Symbols \X OtherTicks :
       Elsewhere(kind, id)
  \/ Elsewhere("reset", None)
  \/ \E v \in Visitors : Copy(v) \/ Assign(v) \/ Answer(v)
  \/ Receive
  \/ ReceiveSession
  \/ ReceiveError
  \/ Leave
  \/ Reload

(***************************************************************************)
(* A connection ends: with the answer, or with an error.                   *)
(***************************************************************************)
Fairness == WF_vars(Receive \/ ReceiveSession \/ ReceiveError)

Spec == Init /\ [][Next]_vars /\ Fairness

-----------------------------------------------------------------------------

TypeOK ==
  /\ session \in
       [ current_tick : 0..MaxTick, market_data : 0..MaxTick,
         latest_signal : Ids \cup {None}, latest_order : Ids \cup {None},
         portfolio : Ids \cup {None} ]
  /\ tick \in 1..MaxTick /\ market \in (0..MaxTick) \cup {None}
  /\ {signal, order} \subseteq Ids \cup {None}
  /\ {working, error, alone} \subseteq BOOLEAN
  /\ \A v \in Visitors :
       /\ call[v].kind \in {"none", "load", "tick", "strategy", "order",
                            "reset", "refetch"}
       /\ call[v].at \in {"sent", "copied", "handled"}

(***************************************************************************)
(* The fields of the shared session fit together at all times: the market  *)
(* data are of its tick, the portfolio is the one of its order, and the    *)
(* order has a signal.  Concurrent setters can lose each other's updates,  *)
(* but a session is never a mixture.  A panel that nobody else and no      *)
(* error came between shows the order and the portfolio of the session.    *)
(***************************************************************************)
SessionIsCoherent ==
  /\ session.market_data = session.current_tick
  /\ session.portfolio = session.latest_order
  /\ session.latest_order # None => session.latest_signal # None
  /\ alone /\ ~working =>
       /\ View.order = session.latest_order
       /\ View.portfolio = session.portfolio

=============================================================================
