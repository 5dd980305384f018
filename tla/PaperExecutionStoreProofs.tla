---------------------- MODULE PaperExecutionStoreProofs ----------------------
(***************************************************************************)
(* Proofs about PaperExecutionStore, for any orders, clients, verdicts,    *)
(* quantities and clock bound.                                             *)
(*                                                                         *)
(* Several calls write the same run from stale reads, and still the run    *)
(* row and the events never part.  The reason is that the stale data of a  *)
(* mark cannot go wrong: a run has one simulation, the only status it can  *)
(* expire from is the last one of its approved path, so every mark of a    *)
(* run computes the same sequence, the one after that path.  The same      *)
(* primary key that lets in one EXPIRE event lets in one audit event and   *)
(* one report with it.                                                     *)
(***************************************************************************)
EXTENDS PaperExecutionStore, SequenceTheorems, TLAPS

Time == 0 .. MaxClock

Last(path) == path[Len(path)]

Final(path) == EVENT_TARGET_STATUS[Last(path)]

\* The simulations that leave an order in a status it can expire from.
Expirable == {"acknowledge", "partial_fill"}

ApprovedPath(run) == Path(run, TRUE)

\* The sequence of the only EXPIRE event a run can have.
MarkSequence(run) == Len(ApprovedPath(run)) + 1

\* A run is as some record call wrote it, or one mark came later.
RunOK(run, rows, status) ==
  \E approved \in Verdicts[run], at \in Time :
    LET path == Path(run, approved) IN
      \/ /\ rows = EventRows(path, at)
         /\ status = Final(path)
      \/ /\ SimulationOf(run) \in Expirable
         /\ TRUE \in Verdicts[run]
         /\ status = "EXPIRED"
         /\ \E t \in Time :
              rows = EventRows(path, at)
                       \cup {EventRow(MarkSequence(run), "EXPIRE", t)}

RunsConsistent ==
  /\ \A run \in DOMAIN runs :
       RunOK(run, events[run], runs[run].final_oms_status)
  /\ \A run \in Run \ DOMAIN runs : events[run] = {}

\* What a call holds in memory, when the runs in stored are on record.
CallOK(call, stored) ==
  \/ call = Idle
  \/ /\ call.op = "record"
     /\ call.run \in Run
     /\ call.now \in Time
     /\ \E approved \in Verdicts[call.run] :
          call.path = Path(call.run, approved)
  \/ /\ call.op = "mark_status"
     /\ call.run \in stored
     /\ call.now \in Time
  \/ /\ call.op \in {"mark_report", "mark"}
     /\ call.run \in stored
     /\ call.now \in Time
     /\ TRUE \in Verdicts[call.run]
     /\ SimulationOf(call.run) \in Expirable
     /\ call.sequence = MarkSequence(call.run)

TablesOK ==
  /\ clock \in Time
  /\ DOMAIN runs \subseteq Run
  /\ runs \in [DOMAIN runs ->
                 [final_oms_status : OrderStatus, persisted_at : Time]]
  /\ events = [run \in Run |-> events[run]]
  /\ calls = [c \in Clients |-> calls[c]]

CallsOK == \A c \in Clients : CallOK(calls[c], DOMAIN runs)

IInv == TablesOK /\ RunsConsistent /\ CallsOK

-----------------------------------------------------------------------------
(* The paths of a workflow *)

\* The events of orders that a broker report leaves open.
OpenEnd == {"ACKNOWLEDGE", "PARTIAL_FILL"}

\* What the broker can make of an order: one to three events, none of them
\* EXPIRE, the last of which leaves it open or ends it.
LEMMA BrokerEventsFacts ==
  ASSUME NEW outcome \in BrokerOutcome
  PROVE  LET b == BrokerEvents(outcome) IN
           /\ b \in Seq(OrderEventType \ {"EXPIRE"})
           /\ Len(b) \in 1 .. 3
           /\ outcome \in Expirable => Last(b) \in OpenEnd
           /\ outcome \notin Expirable => Last(b) \in {"FILL", "REJECT", "CANCEL"}
<1> DEFINE b == BrokerEvents(outcome)
           E == OrderEventType \ {"EXPIRE"}
<1>0. {"ACKNOWLEDGE", "PARTIAL_FILL", "FILL", "REJECT", "CANCEL_REQUEST",
       "CANCEL"} \subseteq E
  BY DEF OrderEventType
<1> HIDE DEF E
<1>1. CASE outcome = "acknowledge"
  <2>1. b = <<"ACKNOWLEDGE">>
    BY <1>1 DEF BrokerEvents
  <2> HIDE DEF b
  <2>2. b \in Seq(E) /\ Len(b) \in 1 .. 3
    BY <1>0, <2>1
  <2>3. QED
    BY <1>1, <2>1, <2>2 DEF Last, Expirable, OpenEnd, b, E
<1>2. CASE outcome = "partial_fill"
  <2>1. b = <<"ACKNOWLEDGE", "PARTIAL_FILL">>
    BY <1>2 DEF BrokerEvents
  <2> HIDE DEF b
  <2>2. b \in Seq(E) /\ Len(b) \in 1 .. 3
    BY <1>0, <2>1
  <2>3. QED
    BY <1>2, <2>1, <2>2 DEF Last, Expirable, OpenEnd, b, E
<1>3. CASE outcome = "fill"
  <2>1. b = <<"ACKNOWLEDGE", "FILL">>
    BY <1>3 DEF BrokerEvents
  <2> HIDE DEF b
  <2>2. b \in Seq(E) /\ Len(b) \in 1 .. 3
    BY <1>0, <2>1
  <2>3. QED
    BY <1>3, <2>1, <2>2 DEF Last, Expirable, OpenEnd, b, E
<1>4. CASE outcome = "reject"
  <2>1. b = <<"REJECT">>
    BY <1>4 DEF BrokerEvents
  <2> HIDE DEF b
  <2>2. b \in Seq(E) /\ Len(b) \in 1 .. 3
    BY <1>0, <2>1
  <2>3. QED
    BY <1>4, <2>1, <2>2 DEF Last, Expirable, OpenEnd, b, E
<1>5. CASE outcome = "cancel"
  <2>1. b = <<"ACKNOWLEDGE", "CANCEL_REQUEST", "CANCEL">>
    BY <1>5 DEF BrokerEvents
  <2> HIDE DEF b
  <2>2. b \in Seq(E) /\ Len(b) \in 1 .. 3
    BY <1>0, <2>1
  <2>3. Last(b) = "CANCEL" /\ outcome \notin Expirable
    BY <1>5, <2>1 DEF Last, Expirable
  <2>4. QED
    BY <2>2, <2>3 DEF b, E
<1>6. QED
  BY <1>1, <1>2, <1>3, <1>4, <1>5 DEF BrokerOutcome

LEMMA SimulationIsOutcome ==
  ASSUME NEW run \in Run
  PROVE  SimulationOf(run) \in BrokerOutcome
<1>1. SimulationOf(run) \in Simulations
  BY DEF Run, SimulationOf
<1>2. QED
  BY <1>1, ConstantsAssumption DEF BrokerOutcome

\* The path of an approved order goes on from SUBMIT with the broker's events.
LEMMA ApprovedPathFacts ==
  ASSUME NEW run \in Run
  PROVE  LET p == ApprovedPath(run)
             b == BrokerEvents(SimulationOf(run)) IN
           /\ p \in Seq(OrderEventType \ {"EXPIRE"})
           /\ Len(p) \in 4 .. 6
           /\ Last(p) = Last(b)
<1> DEFINE E == OrderEventType \ {"EXPIRE"}
           a == <<"CREATE", "RISK_APPROVE", "SUBMIT">>
           b == BrokerEvents(SimulationOf(run))
           p == a \o b
<1>1. b \in Seq(E) /\ Len(b) \in 1 .. 3
  BY SimulationIsOutcome, BrokerEventsFacts
<1>2. a \in Seq(E) /\ Len(a) = 3
  BY DEF OrderEventType
<1>3. ApprovedPath(run) = p
  BY DEF Path, ApprovedPath
<1> HIDE DEF a, b, E
<1>4. /\ p \in Seq(E)
      /\ Len(p) = Len(a) + Len(b)
      /\ \A i \in 1 .. Len(a) + Len(b) :
           p[i] = IF i <= Len(a) THEN a[i] ELSE b[i - Len(a)]
  BY <1>1, <1>2, ConcatProperties
<1> HIDE DEF p
<1>5. Len(p) = Len(b) + 3 /\ Len(p) \in 4 .. 6
  <2> DEFINE m == Len(b)
  <2>1. m \in 1 .. 3 /\ Len(p) = 3 + m
    BY <1>1, <1>2, <1>4
  <2> HIDE DEF m
  <2>2. 3 + m = m + 3 /\ 3 + m \in 4 .. 6
    BY <2>1
  <2>3. QED
    BY <2>1, <2>2 DEF m
<1>6. p[Len(p)] = b[Len(b)]
  <2>1. Len(p) \in 1 .. Len(a) + Len(b) /\ ~ (Len(p) <= Len(a))
    BY <1>1, <1>2, <1>5
  <2>2. p[Len(p)] = b[Len(p) - Len(a)]
    BY <1>4, <2>1
  <2>3. Len(p) - Len(a) = Len(b)
    BY <1>1, <1>2, <1>5
  <2>4. QED
    BY <2>2, <2>3
<1>7. QED
  BY <1>3, <1>4, <1>5, <1>6 DEF Last, E, b

\* What every path has in common, and that a path which ends in a status
\* an order can expire from is an approved one.
LEMMA PathFacts ==
  ASSUME NEW run \in Run, NEW approved \in BOOLEAN
  PROVE  LET p == Path(run, approved) IN
           /\ DOMAIN p = 1 .. Len(p)
           /\ Len(p) \in Nat \ {0}
           /\ \A i \in DOMAIN p : p[i] \in OrderEventType \ {"EXPIRE"}
           /\ Len(p) < MarkSequence(run)
           /\ "EXPIRE" \in ALLOWED_TRANSITIONS[Final(p)]
                /\ Final(p) \notin TERMINAL_ORDER_STATUSES
              => approved /\ SimulationOf(run) \in Expirable
<1>1. SimulationOf(run) \in BrokerOutcome
  BY SimulationIsOutcome
<1>2. CASE approved
  <2>1. Path(run, approved) = ApprovedPath(run)
    BY <1>2 DEF Path, ApprovedPath
  <2> DEFINE p == ApprovedPath(run)
             E == OrderEventType \ {"EXPIRE"}
  <2>2. /\ p \in Seq(E)
        /\ Len(p) \in 4 .. 6
        /\ Last(p) = Last(BrokerEvents(SimulationOf(run)))
    BY ApprovedPathFacts
  <2>3. SimulationOf(run) \notin Expirable =>
          Final(p) \in TERMINAL_ORDER_STATUSES
    <3>1. SimulationOf(run) \notin Expirable =>
            Last(p) \in {"FILL", "REJECT", "CANCEL"}
      BY <1>1, <2>2, BrokerEventsFacts
    <3>2. QED
      BY <3>1
         DEF Final, EVENT_TARGET_STATUS, OrderEventType,
             TERMINAL_ORDER_STATUSES
  <2> HIDE DEF p, E
  <2>4. DOMAIN p = 1 .. Len(p) /\ p \in [1 .. Len(p) -> E]
    BY <2>2, LenProperties
  <2>5. \A i \in DOMAIN p : p[i] \in E
    BY <2>4
  <2>6. Len(p) \in Nat \ {0} /\ Len(p) < Len(p) + 1
    <3> DEFINE n == Len(p)
    <3>1. n \in 4 .. 6
      BY <2>2
    <3> HIDE DEF n
    <3>2. n \in Nat \ {0} /\ n < n + 1
      BY <3>1
    <3>3. QED
      BY <3>2 DEF n
  <2>7. QED
    BY <1>2, <2>1, <2>3, <2>4, <2>5, <2>6 DEF p, E, MarkSequence
<1>3. CASE ~ approved
  <2> DEFINE p == <<"CREATE", "RISK_REJECT">>
  <2>1. Path(run, approved) = p
    BY <1>3 DEF Path
  <2>2. /\ DOMAIN p = 1 .. Len(p)
        /\ Len(p) = 2
        /\ \A i \in DOMAIN p : p[i] \in OrderEventType \ {"EXPIRE"}
        /\ Final(p) = "REJECTED"
    BY DEF OrderEventType, Final, Last, EVENT_TARGET_STATUS
  <2> HIDE DEF p
  <2>3. Len(p) < MarkSequence(run)
    <3> DEFINE n == Len(ApprovedPath(run))
    <3>1. n \in 4 .. 6
      BY ApprovedPathFacts
    <3> HIDE DEF n
    <3>2. 2 < n + 1
      BY <3>1
    <3>3. QED
      BY <2>2, <3>2 DEF n, MarkSequence
  <2>4. QED
    BY <2>1, <2>2, <2>3 DEF TERMINAL_ORDER_STATUSES
<1>4. QED
  BY <1>2, <1>3

LEMMA FinalType ==
  ASSUME NEW run \in Run, NEW approved \in BOOLEAN
  PROVE  Final(Path(run, approved)) \in OrderStatus
<1>1. Last(Path(run, approved)) \in OrderEventType
  <2> DEFINE p == Path(run, approved)
             n == Len(p)
  <2>1. DOMAIN p = 1 .. n /\ n \in Nat \ {0}
        /\ \A i \in DOMAIN p : p[i] \in OrderEventType \ {"EXPIRE"}
    BY PathFacts
  <2> HIDE DEF p, n
  <2>2. n \in DOMAIN p
    BY <2>1
  <2>3. QED
    BY <2>1, <2>2 DEF Last, p, n
<1>2. QED
  BY <1>1 DEF Final, EVENT_TARGET_STATUS, OrderEventType, OrderStatus

-----------------------------------------------------------------------------
(* The latest event of a run *)

LEMMA LatestIs ==
  ASSUME NEW run, NEW e \in events[run], e.sequence \in Int,
         \A y \in events[run] :
           /\ y.sequence \in Int
           /\ y.sequence <= e.sequence
           /\ y.sequence = e.sequence => y = e
  PROVE  LatestEvent(run) = e
<1> DEFINE P(x) == \A y \in events[run] : y.sequence <= x.sequence
           l == CHOOSE x \in events[run] : P(x)
<1>1. P(e)
  OBVIOUS
<1>2. l \in events[run] /\ P(l)
  BY <1>1
<1>3. LatestEvent(run) = l
  BY DEF LatestEvent
<1> HIDE DEF l
<1>4. l.sequence <= e.sequence /\ e.sequence <= l.sequence /\ l.sequence \in Int
  BY <1>2
<1>5. l.sequence = e.sequence
  BY <1>4
<1>6. QED
  BY <1>2, <1>3, <1>5

\* The latest event of a run as it was recorded, and after a mark.
LEMMA LatestOfRun ==
  ASSUME NEW run \in Run, NEW approved \in BOOLEAN, NEW at
  PROVE  LET p == Path(run, approved) IN
           /\ events[run] = EventRows(p, at) =>
                LatestEvent(run) = EventRow(Len(p), Last(p), at)
           /\ \A t :
                events[run] = EventRows(p, at)
                                \cup {EventRow(MarkSequence(run), "EXPIRE", t)}
                => LatestEvent(run) = EventRow(MarkSequence(run), "EXPIRE", t)
           /\ EventRow(Len(p), Last(p), at) \in EventRows(p, at)
<1> DEFINE p == Path(run, approved)
           n == Len(p)
           k == MarkSequence(run)
           rows == EventRows(p, at)
           last == EventRow(n, p[n], at)
<1>1. DOMAIN p = 1 .. n /\ n \in Nat \ {0} /\ n < k
  BY PathFacts
<1>2. k \in Int
  <2> DEFINE m == Len(ApprovedPath(run))
  <2>1. m \in 4 .. 6
    BY ApprovedPathFacts
  <2> HIDE DEF m
  <2>2. m + 1 \in Int
    BY <2>1
  <2>3. QED
    BY <2>2 DEF m, MarkSequence
<1>3. \A y \in rows : \E i \in 1 .. n : y = EventRow(i, p[i], at)
  BY <1>1 DEF EventRows
<1>4. last \in rows
  BY <1>1 DEF EventRows
<1> HIDE DEF p, n, k, rows
<1>5. \A y \in rows : /\ y.sequence \in Int
                      /\ y.sequence <= n
                      /\ y.sequence = n => y = last
  BY <1>1, <1>3 DEF EventRow
<1>6. last.sequence = n /\ n \in Int
  BY <1>1 DEF EventRow
<1> HIDE DEF last
<1>7. ASSUME events[run] = rows
      PROVE  LatestEvent(run) = last
  BY <1>4, <1>5, <1>6, <1>7, LatestIs
<1>8. ASSUME NEW t, events[run] = rows \cup {EventRow(k, "EXPIRE", t)}
      PROVE  LatestEvent(run) = EventRow(k, "EXPIRE", t)
  <2> DEFINE e == EventRow(k, "EXPIRE", t)
  <2>1. e.sequence = k
    BY DEF EventRow
  <2> HIDE DEF e
  <2>2. \A y \in rows : y.sequence \in Int /\ y.sequence < k
    BY <1>1, <1>2, <1>5
  <2>3. events[run] = rows \cup {e}
    BY <1>8 DEF e
  <2>4. \A y \in events[run] : /\ y.sequence \in Int
                               /\ y.sequence <= e.sequence
                               /\ y.sequence = e.sequence => y = e
    BY <1>2, <2>1, <2>2, <2>3
  <2>5. QED
    BY <1>2, <2>1, <2>3, <2>4, LatestIs DEF e
<1>9. QED
  BY <1>4, <1>7, <1>8 DEF p, n, k, rows, last, Last

-----------------------------------------------------------------------------
(* What the invariant says about the runs *)

LEMMA VerdictsBoolean == \A run \in Run : Verdicts[run] \subseteq BOOLEAN
BY ConstantsAssumption DEF Run

\* The run row carries the status of the last event.
LEMMA RunMatches ==
  ASSUME NEW run \in Run,
         RunOK(run, events[run], runs[run].final_oms_status)
  PROVE  /\ events[run] # {}
         /\ runs[run].final_oms_status = LatestEvent(run).status_after
         /\ LatestEvent(run) \in events[run]
<1> DEFINE status == runs[run].final_oms_status
<1>1. PICK approved \in Verdicts[run], at \in Time :
        LET path == Path(run, approved) IN
          \/ /\ events[run] = EventRows(path, at)
             /\ status = Final(path)
          \/ /\ SimulationOf(run) \in Expirable
             /\ TRUE \in Verdicts[run]
             /\ status = "EXPIRED"
             /\ \E t \in Time :
                  events[run] = EventRows(path, at)
                           \cup {EventRow(MarkSequence(run), "EXPIRE", t)}
  BY DEF RunOK
<1> DEFINE p == Path(run, approved)
           last == EventRow(Len(p), Last(p), at)
<1>2. approved \in BOOLEAN
  BY VerdictsBoolean
<1>3. last \in EventRows(p, at)
  BY <1>2, LatestOfRun
<1>4. CASE events[run] = EventRows(p, at) /\ status = Final(p)
  <2>1. LatestEvent(run) = last
    BY <1>2, <1>4, LatestOfRun
  <2>2. last.status_after = Final(p)
    BY DEF EventRow, Final
  <2> HIDE DEF last, p
  <2>3. QED
    BY <1>3, <1>4, <2>1, <2>2
<1>5. ASSUME NEW t \in Time, status = "EXPIRED",
             events[run] = EventRows(p, at)
                             \cup {EventRow(MarkSequence(run), "EXPIRE", t)}
      PROVE  /\ events[run] # {}
             /\ status = LatestEvent(run).status_after
             /\ LatestEvent(run) \in events[run]
  <2>1. LatestEvent(run) = EventRow(MarkSequence(run), "EXPIRE", t)
    BY <1>2, <1>5, LatestOfRun
  <2>2. LatestEvent(run).status_after = "EXPIRED"
    BY <2>1 DEF EventRow, EVENT_TARGET_STATUS, OrderEventType
  <2>3. QED
    BY <1>5, <2>1, <2>2
<1>6. QED
  BY <1>1, <1>4, <1>5

\* A run that a mark may expire is on an approved path that nothing was
\* added to, and the mark computes the one sequence there is for it.
LEMMA OpenRun ==
  ASSUME NEW run \in Run, NEW age,
         RunOK(run, events[run], runs[run].final_oms_status),
         MarkAllowed(CurrentStatus(run), age)
  PROVE  /\ TRUE \in Verdicts[run]
         /\ SimulationOf(run) \in Expirable
         /\ CurrentSequence(run) + 1 = MarkSequence(run)
<1> DEFINE status == runs[run].final_oms_status
<1>1. /\ events[run] # {}
      /\ status = LatestEvent(run).status_after
  BY RunMatches
<1>2. /\ status \notin TERMINAL_ORDER_STATUSES
      /\ "EXPIRE" \in ALLOWED_TRANSITIONS[status]
      /\ CurrentSequence(run) = LatestEvent(run).sequence
  BY <1>1 DEF MarkAllowed, CurrentStatus, CurrentSequence
<1>3. status # "EXPIRED"
  BY <1>2 DEF TERMINAL_ORDER_STATUSES
<1>4. PICK approved \in Verdicts[run], at \in Time :
        /\ events[run] = EventRows(Path(run, approved), at)
        /\ status = Final(Path(run, approved))
  BY <1>3 DEF RunOK
<1>5. approved \in BOOLEAN
  BY VerdictsBoolean
<1> DEFINE p == Path(run, approved)
<1>6. approved /\ SimulationOf(run) \in Expirable
  BY <1>2, <1>4, <1>5, PathFacts
<1>7. p = ApprovedPath(run)
  BY <1>6 DEF ApprovedPath, Path
<1>8. LatestEvent(run) = EventRow(Len(p), Last(p), at)
  BY <1>4, <1>5, LatestOfRun
<1>9. LatestEvent(run).sequence = Len(p)
  BY <1>8 DEF EventRow
<1>10. TRUE \in Verdicts[run]
  BY <1>5, <1>6
<1> HIDE DEF p
<1>11. QED
  BY <1>2, <1>6, <1>7, <1>9, <1>10 DEF MarkSequence

-----------------------------------------------------------------------------
(* The invariant is inductive *)

LEMMA CallOKMonotone ==
  ASSUME NEW call, NEW S, NEW T, S \subseteq T, CallOK(call, S)
  PROVE  CallOK(call, T)
BY DEF CallOK

\* What each kind of call may hold.
LEMMA CallKinds ==
  ASSUME NEW call, NEW S, CallOK(call, S)
  PROVE  /\ call.op = "record" =>
              /\ call.run \in Run
              /\ call.now \in Time
              /\ \E approved \in Verdicts[call.run] :
                   call.path = Path(call.run, approved)
         /\ call.op = "mark_status" => call.run \in S /\ call.now \in Time
         /\ call.op \in {"mark_report", "mark"} =>
              /\ call.run \in S
              /\ call.now \in Time
              /\ TRUE \in Verdicts[call.run]
              /\ SimulationOf(call.run) \in Expirable
              /\ call.sequence = MarkSequence(call.run)
<1>1. Idle.op = "idle"
  BY DEF Idle
<1>2. CASE call = Idle
  BY <1>1, <1>2
<1>3. CASE call # Idle
  BY <1>3 DEF CallOK
<1>4. QED
  BY <1>2, <1>3

LEMMA InitIInv == Init => IInv
BY ConstantsAssumption
   DEF Init, IInv, TablesOK, RunsConsistent, CallsOK, CallOK, Time

\* A step that leaves the events and the runs alone and changes at most one
\* call.
LEMMA CallStep ==
  ASSUME IInv, NEW c \in Clients, NEW call, CallOK(call, DOMAIN runs),
         calls' = [calls EXCEPT ![c] = call],
         UNCHANGED <<clock, runs, events>>
  PROVE  IInv'
<1>1. TablesOK'
  BY DEF IInv, TablesOK
<1>2. RunsConsistent'
  BY DEF IInv, RunsConsistent
<1>3. CallsOK'
  BY DEF IInv, TablesOK, CallsOK
<1>4. QED
  BY <1>1, <1>2, <1>3 DEF IInv

LEMMA RecordCheckIInv ==
  ASSUME IInv, NEW c \in Clients, NEW run \in Run,
         NEW approved \in Verdicts[run], RecordCheck(c, run, approved)
  PROVE  IInv'
<1> DEFINE call == [op |-> "record", run |-> run,
                    path |-> Path(run, approved), now |-> clock]
<1>1. CallOK(call, DOMAIN runs)
  BY DEF CallOK, IInv, TablesOK
<1>2. /\ calls' = [calls EXCEPT ![c] = call]
      /\ UNCHANGED <<clock, runs, events>>
  BY DEF RecordCheck, tables
<1> HIDE DEF call
<1>3. QED
  BY <1>1, <1>2, CallStep

LEMMA MarkReadRunIInv ==
  ASSUME IInv, NEW c \in Clients, NEW run \in Run, MarkReadRun(c, run)
  PROVE  IInv'
<1> DEFINE call == [op |-> "mark_status", run |-> run, now |-> clock,
                    persisted_at |-> runs[run].persisted_at]
<1>1. CallOK(call, DOMAIN runs)
  BY DEF CallOK, IInv, TablesOK, MarkReadRun
<1>2. /\ calls' = [calls EXCEPT ![c] = call]
      /\ UNCHANGED <<clock, runs, events>>
  BY DEF MarkReadRun, tables
<1> HIDE DEF call
<1>3. QED
  BY <1>1, <1>2, CallStep

LEMMA MarkReadStatusIInv ==
  ASSUME IInv, NEW c \in Clients, MarkReadStatus(c)
  PROVE  IInv'
<1> DEFINE old == calls[c]
           run == old.run
           call == [op |-> "mark_report", run |-> run, now |-> old.now,
                    sequence |-> CurrentSequence(run) + 1]
<1>1. run \in DOMAIN runs /\ old.now \in Time
  <2>1. old.op = "mark_status" /\ CallOK(old, DOMAIN runs)
    BY DEF CallsOK, IInv, MarkReadStatus
  <2> HIDE DEF old
  <2>2. QED
    BY <2>1, CallKinds
<1>2. run \in Run /\ RunOK(run, events[run], runs[run].final_oms_status)
  BY <1>1 DEF IInv, TablesOK, RunsConsistent
<1>3. MarkAllowed(CurrentStatus(run), old.now - old.persisted_at)
  BY DEF MarkReadStatus
<1>4. /\ TRUE \in Verdicts[run]
      /\ SimulationOf(run) \in Expirable
      /\ CurrentSequence(run) + 1 = MarkSequence(run)
  BY <1>2, <1>3, OpenRun
<1>5. calls' = [calls EXCEPT ![c] = call] /\ UNCHANGED <<clock, runs, events>>
  BY DEF MarkReadStatus, tables
<1> HIDE DEF run, old
<1>6. CallOK(call, DOMAIN runs)
  BY <1>1, <1>4 DEF CallOK
<1> HIDE DEF call
<1>7. QED
  BY <1>5, <1>6, CallStep

LEMMA MarkReadReportIInv ==
  ASSUME IInv, NEW c \in Clients, MarkReadReport(c)
  PROVE  IInv'
<1> DEFINE old == calls[c]
           call == [op |-> "mark", run |-> old.run, now |-> old.now,
                    sequence |-> old.sequence,
                    quantities |-> PreviousQuantities(old.run)]
<1>1. calls' = [calls EXCEPT ![c] = call] /\ UNCHANGED <<clock, runs, events>>
  BY DEF MarkReadReport, tables
<1>2. old.op = "mark_report" /\ CallOK(old, DOMAIN runs)
  BY DEF CallsOK, IInv, MarkReadReport
<1> HIDE DEF old
<1>3. CallOK(call, DOMAIN runs)
  <2>1. /\ old.run \in DOMAIN runs
        /\ old.now \in Time
        /\ TRUE \in Verdicts[old.run]
        /\ SimulationOf(old.run) \in Expirable
        /\ old.sequence = MarkSequence(old.run)
    BY <1>2, CallKinds
  <2>2. QED
    BY <2>1 DEF CallOK
<1> HIDE DEF call
<1>4. QED
  BY <1>1, <1>3, CallStep

LEMMA AbandonIInv ==
  ASSUME IInv, NEW c \in Clients, Abandon(c)
  PROVE  IInv'
<1>1. calls' = [calls EXCEPT ![c] = Idle] /\ UNCHANGED <<clock, runs, events>>
  BY DEF Abandon, tables
<1>2. CallOK(Idle, DOMAIN runs)
  BY DEF CallOK
<1>3. QED
  BY <1>1, <1>2, CallStep

LEMMA TickIInv ==
  ASSUME IInv, Tick
  PROVE  IInv'
<1>1. clock' \in Time
  BY ConstantsAssumption DEF Tick, IInv, TablesOK, Time
<1>2. UNCHANGED <<runs, events, calls>>
  BY DEF Tick, tables
<1>3. QED
  BY <1>1, <1>2 DEF IInv, TablesOK, RunsConsistent, CallsOK

\* A record call replaces the run by the one it computed.
LEMMA RecordCommitIInv ==
  ASSUME IInv, NEW c \in Clients, RecordCommit(c)
  PROVE  IInv'
<1> DEFINE run == calls[c].run
           path == calls[c].path
           now == calls[c].now
           status == EVENT_TARGET_STATUS[path[Len(path)]]
           row == [final_oms_status |-> status, persisted_at |-> now]
<1>1. calls[c].op = "record" /\ CallOK(calls[c], DOMAIN runs)
  BY DEF CallsOK, IInv, RecordCommit
<1>2. PICK approved \in Verdicts[run] : path = Path(run, approved)
  BY <1>1, CallKinds
<1>3. run \in Run /\ now \in Time
  BY <1>1, CallKinds
<1>4. approved \in BOOLEAN
  BY <1>3, VerdictsBoolean
<1>5. status = Final(path) /\ status \in OrderStatus
  BY <1>2, <1>3, <1>4, FinalType DEF Final, Last
<1>6. /\ runs' = Put(runs, run, row)
      /\ events' = [events EXCEPT ![run] = EventRows(path, now)]
      /\ calls' = [calls EXCEPT ![c] = Idle]
      /\ clock' = clock
  BY DEF RecordCommit, EventsRecorded
<1>7. row.final_oms_status = status
  OBVIOUS
<1>8. row \in [final_oms_status : OrderStatus, persisted_at : Time]
  BY <1>3, <1>5
<1> HIDE DEF run, path, now, status, row
<1>9. TablesOK
  BY DEF IInv
<1>10. /\ DOMAIN runs' = DOMAIN runs \cup {run}
       /\ runs'[run] = row
       /\ \A r \in DOMAIN runs \ {run} : runs'[r] = runs[r]
  BY <1>6 DEF Put
<1>11. /\ events'[run] = EventRows(path, now)
       /\ \A r \in Run \ {run} : events'[r] = events[r]
  BY <1>3, <1>6, <1>9 DEF TablesOK
<1>12. TablesOK'
  <2>1. runs' \in [DOMAIN runs' ->
                     [final_oms_status : OrderStatus, persisted_at : Time]]
    BY <1>6, <1>8, <1>9, <1>10 DEF Put, TablesOK
  <2>2. QED
    BY <1>3, <1>6, <1>9, <1>10, <2>1 DEF TablesOK
<1>13. RunsConsistent'
  <2>1. RunOK(run, events'[run], status)
    BY <1>2, <1>3, <1>5, <1>11 DEF RunOK
  <2>2. RunsConsistent
    BY DEF IInv
  <2>3. ASSUME NEW r \in DOMAIN runs'
        PROVE  RunOK(r, events'[r], runs'[r].final_oms_status)
    <3>1. CASE r = run
      BY <1>7, <1>10, <2>1, <3>1
    <3>2. CASE r # run
      <4>1. r \in DOMAIN runs /\ r \in Run
        BY <1>9, <1>10, <3>2 DEF TablesOK
      <4>2. runs'[r] = runs[r] /\ events'[r] = events[r]
        BY <1>10, <1>11, <3>2, <4>1
      <4>3. RunOK(r, events[r], runs[r].final_oms_status)
        BY <2>2, <4>1 DEF RunsConsistent
      <4>4. QED
        BY <4>2, <4>3
    <3>3. QED
      BY <3>1, <3>2
  <2>4. \A r \in Run \ DOMAIN runs' : events'[r] = {}
    BY <1>10, <1>11, <2>2 DEF RunsConsistent
  <2>5. QED
    BY <2>3, <2>4 DEF RunsConsistent, RunOK
<1>14. CallsOK'
  <2>1. \A d \in Clients : CallOK(calls[d], DOMAIN runs)
    BY DEF IInv, CallsOK
  <2>2. ASSUME NEW d \in Clients
        PROVE  CallOK(calls'[d], DOMAIN runs')
    <3>1. CASE d = c
      BY <1>6, <1>9, <3>1 DEF TablesOK, CallOK
    <3>2. CASE d # c
      BY <1>6, <1>9, <1>10, <2>1, <3>2, CallOKMonotone DEF TablesOK
    <3>3. QED
      BY <3>1, <3>2
  <2>3. QED
    BY <2>2 DEF CallsOK, CallOK
<1>15. QED
  BY <1>12, <1>13, <1>14 DEF IInv

\* A mark that commits finds the run as some record wrote it: had another
\* mark been before it, the EXPIRE event with its sequence would be there.
LEMMA MarkCommitIInv ==
  ASSUME IInv, NEW c \in Clients, MarkCommit(c)
  PROVE  IInv'
<1> DEFINE run == calls[c].run
           now == calls[c].now
           seq == calls[c].sequence
           k == MarkSequence(run)
<1>1. calls[c].op = "mark" /\ CallOK(calls[c], DOMAIN runs)
  BY DEF CallsOK, IInv, MarkCommit
<1>2. /\ run \in DOMAIN runs
      /\ now \in Time
      /\ TRUE \in Verdicts[run]
      /\ SimulationOf(run) \in Expirable
      /\ seq = k
  BY <1>1, CallKinds
<1>3. /\ EventFree(run, seq, "EXPIRE")
      /\ events' = [events EXCEPT ![run] =
                      @ \cup {EventRow(seq, "EXPIRE", now)}]
      /\ runs' = [runs EXCEPT ![run].final_oms_status = "EXPIRED"]
      /\ calls' = [calls EXCEPT ![c] = Idle]
      /\ clock' = clock
  BY DEF MarkCommit, RunsMarked
<1> HIDE DEF run, now, seq, k
<1>4. TablesOK /\ RunsConsistent
  BY DEF IInv
<1>5. run \in Run
  BY <1>2, <1>4 DEF TablesOK
<1>6. PICK approved \in Verdicts[run], at \in Time :
        events[run] = EventRows(Path(run, approved), at)
  <2>1. PICK approved \in Verdicts[run], at \in Time :
          \/ events[run] = EventRows(Path(run, approved), at)
          \/ \E t \in Time :
               events[run] = EventRows(Path(run, approved), at)
                               \cup {EventRow(k, "EXPIRE", t)}
    BY <1>2, <1>4 DEF RunsConsistent, RunOK, k
  <2>2. ASSUME NEW t \in Time,
               events[run] = EventRows(Path(run, approved), at)
                               \cup {EventRow(k, "EXPIRE", t)}
        PROVE  FALSE
    <3> DEFINE e == EventRow(k, "EXPIRE", t)
    <3>1. e.sequence = k /\ e.event_type = "EXPIRE"
      BY DEF EventRow
    <3> HIDE DEF e
    <3>2. e \in events[run]
      BY <2>2 DEF e
    <3>3. QED
      BY <1>2, <1>3, <3>1, <3>2 DEF EventFree
  <2>3. QED
    BY <2>1, <2>2
<1>7. /\ events'[run] = events[run] \cup {EventRow(k, "EXPIRE", now)}
      /\ \A r \in Run \ {run} : events'[r] = events[r]
  BY <1>2, <1>3, <1>4, <1>5 DEF TablesOK
<1>8. /\ DOMAIN runs' = DOMAIN runs
      /\ runs'[run].final_oms_status = "EXPIRED"
      /\ \A r \in DOMAIN runs \ {run} : runs'[r] = runs[r]
  BY <1>2, <1>3, <1>4 DEF TablesOK
<1>9. TablesOK'
  <2>1. "EXPIRED" \in OrderStatus
    BY DEF OrderStatus
  <2>2. runs' \in [DOMAIN runs ->
                     [final_oms_status : OrderStatus, persisted_at : Time]]
    BY <1>2, <1>3, <1>4, <2>1 DEF TablesOK
  <2>3. QED
    BY <1>3, <1>4, <1>8, <2>2 DEF TablesOK
<1>10. RunsConsistent'
  <2>1. RunOK(run, events'[run], "EXPIRED")
    BY <1>2, <1>6, <1>7 DEF RunOK, k
  <2>2. ASSUME NEW r \in DOMAIN runs'
        PROVE  RunOK(r, events'[r], runs'[r].final_oms_status)
    <3>1. CASE r = run
      BY <1>8, <2>1, <3>1
    <3>2. CASE r # run
      <4>1. r \in DOMAIN runs /\ r \in Run
        BY <1>4, <1>8 DEF TablesOK
      <4>2. runs'[r] = runs[r] /\ events'[r] = events[r]
        BY <1>7, <1>8, <3>2, <4>1
      <4>3. RunOK(r, events[r], runs[r].final_oms_status)
        BY <1>4, <4>1 DEF RunsConsistent
      <4>4. QED
        BY <4>2, <4>3
    <3>3. QED
      BY <3>1, <3>2
  <2>3. \A r \in Run \ DOMAIN runs' : events'[r] = {}
    BY <1>2, <1>4, <1>7, <1>8 DEF RunsConsistent
  <2>4. QED
    BY <2>2, <2>3 DEF RunsConsistent, RunOK
<1>11. CallsOK'
  <2>1. \A d \in Clients : CallOK(calls[d], DOMAIN runs)
    BY DEF IInv, CallsOK
  <2>2. ASSUME NEW d \in Clients
        PROVE  CallOK(calls'[d], DOMAIN runs')
    <3>1. CASE d = c
      BY <1>3, <1>4, <3>1 DEF TablesOK, CallOK
    <3>2. CASE d # c
      BY <1>3, <1>4, <1>8, <2>1, <3>2 DEF TablesOK
    <3>3. QED
      BY <3>1, <3>2
  <2>3. QED
    BY <2>2 DEF CallsOK, CallOK
<1>12. QED
  BY <1>9, <1>10, <1>11 DEF IInv

LEMMA NextIInv ==
  ASSUME IInv, [Next]_vars
  PROVE  IInv'
<1>1. CASE Tick
  BY <1>1, TickIInv
<1>2. ASSUME NEW c \in Clients, NEW run \in Run,
             NEW approved \in Verdicts[run], RecordCheck(c, run, approved)
      PROVE  IInv'
  BY <1>2, RecordCheckIInv
<1>3. ASSUME NEW c \in Clients, RecordCommit(c)
      PROVE  IInv'
  BY <1>3, RecordCommitIInv
<1>4. ASSUME NEW c \in Clients, NEW run \in Run, MarkReadRun(c, run)
      PROVE  IInv'
  BY <1>4, MarkReadRunIInv
<1>5. ASSUME NEW c \in Clients, MarkReadStatus(c)
      PROVE  IInv'
  BY <1>5, MarkReadStatusIInv
<1>6. ASSUME NEW c \in Clients, MarkReadReport(c)
      PROVE  IInv'
  BY <1>6, MarkReadReportIInv
<1>7. ASSUME NEW c \in Clients, MarkCommit(c)
      PROVE  IInv'
  BY <1>7, MarkCommitIInv
<1>8. ASSUME NEW c \in Clients, Abandon(c)
      PROVE  IInv'
  BY <1>8, AbandonIInv
<1>9. CASE UNCHANGED vars
  BY <1>9 DEF vars, tables, IInv, TablesOK, RunsConsistent, CallsOK
<1>10. QED
  BY <1>1, <1>2, <1>3, <1>4, <1>5, <1>6, <1>7, <1>8, <1>9 DEF Next

\* The inductive invariant holds throughout.
THEOREM Inductive == Spec => []IInv
<1>1. Init => IInv
  BY InitIInv
<1>2. IInv /\ [Next]_vars => IInv'
  BY NextIInv
<1>3. QED
  BY <1>1, <1>2, PTL DEF Spec

-----------------------------------------------------------------------------

(***************************************************************************)
(* The run row and the latest event of a run agree, whatever records and   *)
(* timeout marks interleave and whatever the risk engine says of each call *)
(* (persist_workflow, mark_timeout).                                       *)
(***************************************************************************)
THEOREM HeaderMatchesSafe == Spec => []HeaderMatchesLatestEvent
<1>1. IInv => HeaderMatchesLatestEvent
  <2> SUFFICES ASSUME IInv, NEW run \in DOMAIN runs
               PROVE  /\ events[run] # {}
                      /\ runs[run].final_oms_status
                           = LatestEvent(run).status_after
    BY DEF HeaderMatchesLatestEvent
  <2>1. run \in Run /\ RunOK(run, events[run], runs[run].final_oms_status)
    BY DEF IInv, TablesOK, RunsConsistent
  <2>2. QED
    BY <2>1, RunMatches
<1>2. QED
  BY <1>1, Inductive, PTL

(***************************************************************************)
(* No run has two EXPIRE events: marks that read the same open run compute *)
(* the same event, which the primary key lets in once.                     *)
(***************************************************************************)
THEOREM ExpiresOnceSafe == Spec => []ExpiresOnce
<1>1. IInv => ExpiresOnce
  <2> SUFFICES ASSUME IInv, NEW run \in Run,
                      NEW x \in events[run], NEW y \in events[run],
                      x.event_type = "EXPIRE", y.event_type = "EXPIRE"
               PROVE  x = y
    BY DEF ExpiresOnce
  <2>1. run \in DOMAIN runs
    BY DEF IInv, RunsConsistent
  <2>2. PICK approved \in Verdicts[run], at \in Time :
          \/ events[run] = EventRows(Path(run, approved), at)
          \/ \E t \in Time :
               events[run] = EventRows(Path(run, approved), at)
                               \cup {EventRow(MarkSequence(run), "EXPIRE", t)}
    BY <2>1 DEF IInv, RunsConsistent, RunOK
  <2> DEFINE p == Path(run, approved)
  <2>3. \A i \in DOMAIN p : p[i] # "EXPIRE"
    BY VerdictsBoolean, PathFacts
  <2> HIDE DEF p
  <2>4. \A z \in EventRows(p, at) : z.event_type # "EXPIRE"
    BY <2>3 DEF EventRows, EventRow
  <2>5. QED
    BY <2>2, <2>4 DEF p
<1>2. QED
  BY <1>1, Inductive, PTL

\* The path of an order that can expire books no end of it.
LEMMA ExpirableNeverEnds ==
  ASSUME NEW run \in Run, NEW approved \in BOOLEAN,
         SimulationOf(run) \in Expirable
  PROVE  LET p == Path(run, approved) IN
           \A i \in DOMAIN p : p[i] \notin {"FILL", "REJECT", "CANCEL"}
<1> DEFINE End == {"FILL", "REJECT", "CANCEL"}
           E == OrderEventType \ {"EXPIRE"}
           a == <<"CREATE", "RISK_APPROVE", "SUBMIT">>
           b == BrokerEvents(SimulationOf(run))
           p == a \o b
<1>1. CASE approved
  <2>1. b \in Seq(E) /\ Len(b) \in 1 .. 3
    BY SimulationIsOutcome, BrokerEventsFacts
  <2>2. \A i \in 1 .. Len(b) : b[i] \notin End
    BY DEF BrokerEvents, Expirable
  <2>3. a \in Seq(E) /\ Len(a) = 3 /\ \A i \in 1 .. 3 : a[i] \notin End
    BY DEF OrderEventType
  <2>4. Path(run, approved) = p
    BY <1>1 DEF Path
  <2> HIDE DEF a, b, E, End
  <2>5. /\ p \in Seq(E)
        /\ Len(p) = Len(a) + Len(b)
        /\ \A i \in 1 .. Len(a) + Len(b) :
             p[i] = IF i <= Len(a) THEN a[i] ELSE b[i - Len(a)]
    BY <2>1, <2>3, ConcatProperties
  <2> HIDE DEF p
  <2>6. ASSUME NEW i \in DOMAIN p
        PROVE  p[i] \notin End
    <3>1. i \in 1 .. Len(a) + Len(b)
      BY <2>5, <2>6
    <3>2. i <= 3 => i \in 1 .. 3
      BY <2>1, <2>3, <3>1
    <3>3. ~ (i <= 3) => i - 3 \in 1 .. Len(b)
      BY <2>1, <2>3, <3>1
    <3>4. QED
      BY <2>2, <2>3, <2>5, <3>1, <3>2, <3>3
  <2>7. QED
    BY <2>4, <2>6 DEF End
<1>2. CASE ~ approved
  <2>1. Path(run, approved) = <<"CREATE", "RISK_REJECT">>
    BY <1>2 DEF Path
  <2>2. QED
    BY <2>1
<1>3. QED
  BY <1>1, <1>2

(***************************************************************************)
(* A run with an EXPIRE event has no FILL, REJECT or CANCEL, however old   *)
(* what its mark had checked was when it committed (mark_timeout,          *)
(* persist_workflow).                                                      *)
(***************************************************************************)
THEOREM EndedNeverExpiresSafe == Spec => []EndedNeverExpires
<1>1. IInv => EndedNeverExpires
  <2> SUFFICES ASSUME IInv, NEW run \in Run,
                      NEW x \in events[run], NEW y \in events[run],
                      x.event_type = "EXPIRE"
               PROVE  y.event_type \notin {"FILL", "REJECT", "CANCEL"}
    BY DEF EndedNeverExpires
  <2>1. run \in DOMAIN runs
    BY DEF IInv, RunsConsistent
  <2>2. PICK approved \in Verdicts[run], at \in Time :
          \/ events[run] = EventRows(Path(run, approved), at)
          \/ /\ SimulationOf(run) \in Expirable
             /\ \E t \in Time :
                  events[run] = EventRows(Path(run, approved), at)
                                 \cup {EventRow(MarkSequence(run), "EXPIRE", t)}
    BY <2>1 DEF IInv, RunsConsistent, RunOK
  <2> DEFINE p == Path(run, approved)
             rows == EventRows(p, at)
  <2>3. approved \in BOOLEAN
    BY VerdictsBoolean
  <2>4. \A i \in DOMAIN p : p[i] # "EXPIRE"
    BY <2>3, PathFacts
  <2>5. SimulationOf(run) \in Expirable =>
          \A i \in DOMAIN p : p[i] \notin {"FILL", "REJECT", "CANCEL"}
    BY <2>3, ExpirableNeverEnds
  <2>6. \A z \in rows : \E i \in DOMAIN p : z.event_type = p[i]
    BY DEF EventRows, EventRow
  <2> HIDE DEF p, rows
  <2>7. x \notin rows
    BY <2>4, <2>6
  <2>8. PICK t \in Time :
          /\ SimulationOf(run) \in Expirable
          /\ events[run] = rows \cup {EventRow(MarkSequence(run), "EXPIRE", t)}
    BY <2>2, <2>7 DEF p, rows
  <2>9. EventRow(MarkSequence(run), "EXPIRE", t).event_type = "EXPIRE"
    BY DEF EventRow
  <2>10. QED
    BY <2>5, <2>6, <2>8, <2>9
<1>2. QED
  BY <1>1, Inductive, PTL

(***************************************************************************)
(* INSERT OR IGNORE never gives the idempotency key of an order to another *)
(* run, even when two record calls both found it free.                     *)
(***************************************************************************)
THEOREM KeyNeverMovesSafe == Spec => KeyNeverMoves
<1>1. ASSUME [Next]_vars
      PROVE  [\A o \in DOMAIN keys : o \in DOMAIN keys' /\ keys'[o] = keys[o]]_vars
  <2>1. ASSUME NEW c \in Clients, RecordCommit(c), NEW o \in DOMAIN keys
        PROVE  o \in DOMAIN keys' /\ keys'[o] = keys[o]
    <3>1. keys' = KeysAfter(calls[c].run)
      BY <2>1 DEF RecordCommit
    <3>2. QED
      BY <3>1 DEF KeysAfter, Put
  <2>2. QED
    BY <1>1, <2>1
       DEF Next, Tick, RecordCheck, MarkReadRun, MarkReadStatus,
           MarkReadReport, MarkCommit, Abandon, tables
<1>2. QED
  BY <1>1, PTL DEF Spec, KeyNeverMoves

\* A step of call c that leaves the key of order o alone makes no run a
\* rival, when the runs it records and the check it passes make none.
LEMMA RivalsOnly ==
  ASSUME NEW c \in Clients, NEW o \in DOMAIN keys,
         o \in DOMAIN keys', keys'[o] = keys[o],
         \A r \in DOMAIN runs' :
           \/ r \in DOMAIN runs
           \/ calls[c].op = "record" /\ calls[c].run = r,
         \A d \in Clients \ {c} : calls'[d] = calls[d],
         calls'[c].op = "record" => KeyAvailable(calls'[c].run)
  PROVE  Rivals(o)' \subseteq Rivals(o)
BY DEF Rivals, KeyAvailable

(***************************************************************************)
(* Whatever calls overlap, no run becomes a rival of the one that holds    *)
(* its order's key once that key is on record: the duplicates of           *)
(* duplicate_key all come from checks made before                          *)
(* (_record_idempotency_key).                                              *)
(***************************************************************************)
THEOREM NoLateDuplicateSafe == Spec => NoLateDuplicate
<1>1. ASSUME IInv, [Next]_vars
      PROVE  [\A o \in DOMAIN keys : Rivals(o)' \subseteq Rivals(o)]_vars
  <2> SUFFICES ASSUME NEW o \in DOMAIN keys
               PROVE  Rivals(o)' \subseteq Rivals(o) \/ UNCHANGED vars
    OBVIOUS
  <2>1. calls = [c \in Clients |-> calls[c]]
    BY <1>1 DEF IInv, TablesOK
  <2>2. CASE Tick
    BY <2>2 DEF Tick, tables, Rivals
  <2>3. ASSUME NEW c \in Clients, NEW run \in Run,
               NEW approved \in Verdicts[run], RecordCheck(c, run, approved)
        PROVE  Rivals(o)' \subseteq Rivals(o)
    <3>1. /\ KeyAvailable(run)
          /\ UNCHANGED <<keys, runs>>
          /\ calls'[c].run = run
          /\ \A d \in Clients \ {c} : calls'[d] = calls[d]
      BY <2>1, <2>3 DEF RecordCheck, tables
    <3>2. QED
      BY <3>1, RivalsOnly
  <2>4. ASSUME NEW c \in Clients, RecordCommit(c)
        PROVE  Rivals(o)' \subseteq Rivals(o)
    <3>1. o \in DOMAIN keys' /\ keys'[o] = keys[o]
      BY <2>4 DEF RecordCommit, KeysAfter, Put
    <3>2. /\ calls[c].op = "record"
          /\ DOMAIN runs' = DOMAIN runs \cup {calls[c].run}
          /\ calls'[c].op = "idle"
          /\ \A d \in Clients \ {c} : calls'[d] = calls[d]
      BY <2>1, <2>4 DEF RecordCommit, Put, Idle
    <3>3. QED
      BY <3>1, <3>2, RivalsOnly
  <2>5. ASSUME NEW c \in Clients, NEW run \in Run, MarkReadRun(c, run)
        PROVE  Rivals(o)' \subseteq Rivals(o)
    <3>1. /\ UNCHANGED <<keys, runs>>
          /\ calls'[c].op = "mark_status"
          /\ \A d \in Clients \ {c} : calls'[d] = calls[d]
      BY <2>1, <2>5 DEF MarkReadRun, tables
    <3>2. QED
      BY <3>1, RivalsOnly
  <2>6. ASSUME NEW c \in Clients, MarkReadStatus(c)
        PROVE  Rivals(o)' \subseteq Rivals(o)
    <3>1. /\ UNCHANGED <<keys, runs>>
          /\ calls'[c].op = "mark_report"
          /\ \A d \in Clients \ {c} : calls'[d] = calls[d]
      BY <2>1, <2>6 DEF MarkReadStatus, tables
    <3>2. QED
      BY <3>1, RivalsOnly
  <2>7. ASSUME NEW c \in Clients, MarkReadReport(c)
        PROVE  Rivals(o)' \subseteq Rivals(o)
    <3>1. /\ UNCHANGED <<keys, runs>>
          /\ calls'[c].op = "mark"
          /\ \A d \in Clients \ {c} : calls'[d] = calls[d]
      BY <2>1, <2>7 DEF MarkReadReport, tables
    <3>2. QED
      BY <3>1, RivalsOnly
  <2>8. ASSUME NEW c \in Clients, MarkCommit(c)
        PROVE  Rivals(o)' \subseteq Rivals(o)
    <3>1. /\ keys' = keys
          /\ DOMAIN runs' = DOMAIN runs
          /\ calls'[c].op = "idle"
          /\ \A d \in Clients \ {c} : calls'[d] = calls[d]
      BY <2>1, <2>8 DEF MarkCommit, RunsMarked, Idle
    <3>2. QED
      BY <3>1, RivalsOnly
  <2>9. ASSUME NEW c \in Clients, Abandon(c)
        PROVE  Rivals(o)' \subseteq Rivals(o)
    <3>1. /\ UNCHANGED <<keys, runs>>
          /\ calls'[c].op = "idle"
          /\ \A d \in Clients \ {c} : calls'[d] = calls[d]
      BY <2>1, <2>9 DEF Abandon, tables, Idle
    <3>2. QED
      BY <3>1, RivalsOnly
  <2>10. QED
    BY <1>1, <2>2, <2>3, <2>4, <2>5, <2>6, <2>7, <2>8, <2>9 DEF Next
<1>2. QED
  BY <1>1, Inductive, PTL DEF Spec, NoLateDuplicate

-----------------------------------------------------------------------------
(* Replaying the events *)

\* Whether event e may follow event d in a history.
Follows(d, e) == CanApply(EVENT_TARGET_STATUS[d], e)

Replays(path) ==
  /\ CanApply("PENDING", path[1])
  /\ \A i \in 2 .. Len(path) : Follows(path[i - 1], path[i])

\* The broker's events can follow a SUBMIT, and each can follow the one
\* before it.
LEMMA BrokerReplays ==
  ASSUME NEW outcome \in BrokerOutcome
  PROVE  LET b == BrokerEvents(outcome) IN
           /\ Follows("SUBMIT", b[1])
           /\ Len(b) >= 2 => Follows(b[1], b[2])
           /\ Len(b) >= 3 => Follows(b[2], b[3])
           /\ Len(b) <= 3
<1>1. /\ Follows("SUBMIT", "ACKNOWLEDGE")
      /\ Follows("SUBMIT", "REJECT")
      /\ Follows("ACKNOWLEDGE", "PARTIAL_FILL")
      /\ Follows("ACKNOWLEDGE", "FILL")
      /\ Follows("ACKNOWLEDGE", "CANCEL_REQUEST")
      /\ Follows("CANCEL_REQUEST", "CANCEL")
  BY DEF Follows, CanApply, EVENT_TARGET_STATUS, ALLOWED_TRANSITIONS,
         OrderEventType, OrderStatus
<1>2. CASE outcome = "acknowledge"
  BY <1>1, <1>2 DEF BrokerEvents
<1>3. CASE outcome = "partial_fill"
  BY <1>1, <1>3 DEF BrokerEvents
<1>4. CASE outcome = "fill"
  BY <1>1, <1>4 DEF BrokerEvents
<1>5. CASE outcome = "reject"
  BY <1>1, <1>5 DEF BrokerEvents
<1>6. CASE outcome = "cancel"
  BY <1>1, <1>6 DEF BrokerEvents
<1>7. QED
  BY <1>2, <1>3, <1>4, <1>5, <1>6 DEF BrokerOutcome

LEMMA PathReplays ==
  ASSUME NEW run \in Run, NEW approved \in BOOLEAN
  PROVE  Replays(Path(run, approved))
<1>1. /\ CanApply("PENDING", "CREATE")
      /\ Follows("CREATE", "RISK_APPROVE")
      /\ Follows("CREATE", "RISK_REJECT")
      /\ Follows("RISK_APPROVE", "SUBMIT")
  BY DEF Follows, CanApply, EVENT_TARGET_STATUS, ALLOWED_TRANSITIONS,
         OrderEventType, OrderStatus
<1>2. CASE approved
  <2> DEFINE E == OrderEventType \ {"EXPIRE"}
             a == <<"CREATE", "RISK_APPROVE", "SUBMIT">>
             b == BrokerEvents(SimulationOf(run))
             p == a \o b
             m == Len(b)
  <2>1. /\ Follows("SUBMIT", b[1])
        /\ m >= 2 => Follows(b[1], b[2])
        /\ m >= 3 => Follows(b[2], b[3])
    BY SimulationIsOutcome, BrokerReplays
  <2>2. b \in Seq(E) /\ m \in 1 .. 3
    BY SimulationIsOutcome, BrokerEventsFacts
  <2>3. /\ a \in Seq(E)
        /\ Len(a) = 3
        /\ a[1] = "CREATE" /\ a[2] = "RISK_APPROVE" /\ a[3] = "SUBMIT"
    BY DEF OrderEventType
  <2>4. Path(run, approved) = p
    BY <1>2 DEF Path
  <2> HIDE DEF a, b, E
  <2>5. /\ Len(p) = 3 + m
        /\ \A i \in 1 .. 3 + m :
             p[i] = IF i <= 3 THEN a[i] ELSE b[i - 3]
    <3>1. /\ Len(p) = Len(a) + Len(b)
          /\ \A i \in 1 .. Len(a) + Len(b) :
               p[i] = IF i <= Len(a) THEN a[i] ELSE b[i - Len(a)]
      BY <2>2, <2>3, ConcatProperties
    <3> HIDE DEF p, m
    <3>2. Len(b) = m
      BY DEF m
    <3>3. QED
      BY <2>3, <3>1, <3>2
  <2> HIDE DEF p, m
  <2>6. /\ p[1] = "CREATE" /\ p[2] = "RISK_APPROVE" /\ p[3] = "SUBMIT"
        /\ p[4] = b[1]
        /\ m >= 2 => p[5] = b[2]
        /\ m >= 3 => p[6] = b[3]
    BY <2>2, <2>3, <2>5
  <2>7. ASSUME NEW i \in 2 .. 3 + m
        PROVE  Follows(p[i - 1], p[i])
    <3>1. \/ i = 2 \/ i = 3 \/ i = 4
          \/ i = 5 /\ m >= 2
          \/ i = 6 /\ m >= 3
      BY <2>2, <2>7
    <3>2. CASE i = 2
      BY <1>1, <2>6, <3>2
    <3>3. CASE i = 3
      BY <1>1, <2>6, <3>3
    <3>4. CASE i = 4
      BY <2>1, <2>6, <3>4
    <3>5. CASE i = 5 /\ m >= 2
      BY <2>1, <2>6, <3>5
    <3>6. CASE i = 6 /\ m >= 3
      <4>1. m >= 2
        BY <2>2, <3>6
      <4>2. QED
        BY <2>1, <2>6, <3>6, <4>1
    <3>7. QED
      BY <3>1, <3>2, <3>3, <3>4, <3>5, <3>6
  <2>8. QED
    BY <1>1, <2>4, <2>5, <2>6, <2>7 DEF Replays
<1>3. CASE ~ approved
  <2>1. Path(run, approved) = <<"CREATE", "RISK_REJECT">>
    BY <1>3 DEF Path
  <2>2. QED
    BY <1>1, <2>1 DEF Replays
<1>4. QED
  BY <1>2, <1>3

\* EXPIRE may follow the approved path of an order a broker report left open.
LEMMA ExpireFollows ==
  ASSUME NEW run \in Run, SimulationOf(run) \in Expirable
  PROVE  Follows(Last(ApprovedPath(run)), "EXPIRE")
<1>1. Last(ApprovedPath(run)) \in OpenEnd
  BY SimulationIsOutcome, BrokerEventsFacts, ApprovedPathFacts
<1>2. QED
  BY <1>1 DEF OpenEnd, Follows, CanApply, EVENT_TARGET_STATUS,
              ALLOWED_TRANSITIONS, OrderEventType, OrderStatus

(***************************************************************************)
(* The stored events of every run for which the risk engine answers all    *)
(* calls alike replay through the transition table without a gap, late     *)
(* marks included (_oms_event_records_from_response, mark_timeout).        *)
(***************************************************************************)
THEOREM EventsReplaySafe == Spec => []EventsReplay
<1>1. IInv => EventsReplay
  <2> SUFFICES ASSUME IInv, NEW run \in Run, Agreed(run),
                      NEW x \in events[run]
               PROVE  /\ \A y \in events[run] : y.sequence = x.sequence => y = x
                      /\ \/ /\ x.sequence = 1
                            /\ CanApply("PENDING", x.event_type)
                         \/ \E y \in events[run] :
                              /\ y.sequence = x.sequence - 1
                              /\ CanApply(y.status_after, x.event_type)
    BY DEF EventsReplay
  <2>1. run \in DOMAIN runs
    BY DEF IInv, RunsConsistent
  <2>2. PICK approved \in Verdicts[run], at \in Time :
          \/ events[run] = EventRows(Path(run, approved), at)
          \/ /\ SimulationOf(run) \in Expirable
             /\ TRUE \in Verdicts[run]
             /\ \E t \in Time :
                  events[run] = EventRows(Path(run, approved), at)
                                 \cup {EventRow(MarkSequence(run), "EXPIRE", t)}
    BY <2>1 DEF IInv, RunsConsistent, RunOK
  <2> DEFINE p == Path(run, approved)
             n == Len(p)
             k == MarkSequence(run)
             rows == EventRows(p, at)
  <2>3. approved \in BOOLEAN
    BY VerdictsBoolean
  <2>4. DOMAIN p = 1 .. n /\ n \in Nat \ {0} /\ n < k
    BY <2>3, PathFacts
  <2>5. /\ CanApply("PENDING", p[1])
        /\ \A i \in 2 .. n : Follows(p[i - 1], p[i])
    BY <2>3, PathReplays DEF Replays
  <2>6. \A z : z \in rows <=> \E i \in 1 .. n : z = EventRow(i, p[i], at)
    BY <2>4 DEF EventRows
  <2>7. ASSUME SimulationOf(run) \in Expirable, TRUE \in Verdicts[run]
        PROVE  k = n + 1 /\ Follows(p[n], "EXPIRE")
    <3>1. p = ApprovedPath(run)
      BY <2>7 DEF Agreed, ApprovedPath
    <3> HIDE DEF p
    <3>2. QED
      BY <2>7, <3>1, ExpireFollows DEF MarkSequence, Last
  <2> HIDE DEF p, n, k, rows
  <2>8. \A z \in rows : z.sequence \in 1 .. n
    BY <2>6 DEF EventRow
  <2>9. ASSUME NEW i \in 1 .. n, x = EventRow(i, p[i], at), rows \subseteq events[run]
        PROVE  \/ /\ x.sequence = 1
                  /\ CanApply("PENDING", x.event_type)
               \/ \E y \in events[run] :
                    /\ y.sequence = x.sequence - 1
                    /\ CanApply(y.status_after, x.event_type)
    <3>1. CASE i = 1
      BY <2>5, <2>9, <3>1 DEF EventRow
    <3>2. CASE i # 1
      <4> DEFINE y == EventRow(i - 1, p[i - 1], at)
      <4>1. i - 1 \in 1 .. n /\ i \in 2 .. n
        BY <2>4, <3>2
      <4>2. y \in rows
        BY <2>6, <4>1
      <4>3. y.sequence = x.sequence - 1 /\ CanApply(y.status_after, x.event_type)
        BY <2>5, <2>9, <4>1 DEF EventRow, Follows
      <4> HIDE DEF y
      <4>4. QED
        BY <2>9, <4>2, <4>3
    <3>3. QED
      BY <3>1, <3>2
  <2>10. \A y, z \in rows : y.sequence = z.sequence => y = z
    BY <2>6 DEF EventRow
  <2>11. CASE events[run] = rows
    <3>1. PICK i \in 1 .. n : x = EventRow(i, p[i], at)
      BY <2>6, <2>11
    <3>2. QED
      BY <2>9, <2>10, <2>11, <3>1
  <2>12. ASSUME NEW t \in Time, SimulationOf(run) \in Expirable,
                TRUE \in Verdicts[run],
                events[run] = rows \cup {EventRow(k, "EXPIRE", t)}
         PROVE  /\ \A y \in events[run] : y.sequence = x.sequence => y = x
                /\ \/ /\ x.sequence = 1
                      /\ CanApply("PENDING", x.event_type)
                   \/ \E y \in events[run] :
                        /\ y.sequence = x.sequence - 1
                        /\ CanApply(y.status_after, x.event_type)
    <3> DEFINE e == EventRow(k, "EXPIRE", t)
               d == EventRow(n, p[n], at)
    <3>1. e.sequence = k /\ e.event_type = "EXPIRE"
      BY DEF EventRow
    <3>2. k = n + 1 /\ Follows(p[n], "EXPIRE")
      BY <2>7, <2>12
    <3>3. d \in rows
      BY <2>4, <2>6
    <3>4. d.sequence = n /\ CanApply(d.status_after, "EXPIRE")
      BY <3>2 DEF EventRow, Follows
    <3> HIDE DEF e, d
    <3>5. events[run] = rows \cup {e}
      BY <2>12 DEF e
    <3>6. \A y \in events[run] : y.sequence = x.sequence => y = x
      BY <2>4, <2>8, <2>10, <3>1, <3>5
    <3>7. CASE x = e
      <4>1. d.sequence = x.sequence - 1
        BY <2>4, <3>1, <3>2, <3>4, <3>7
      <4>2. QED
        BY <3>1, <3>3, <3>4, <3>5, <3>6, <3>7, <4>1
    <3>8. CASE x \in rows
      <4>1. PICK i \in 1 .. n : x = EventRow(i, p[i], at)
        BY <2>6, <3>8
      <4>2. QED
        BY <2>9, <3>5, <3>6, <4>1
    <3>9. QED
      BY <3>5, <3>7, <3>8
  <2>13. QED
    BY <2>2, <2>11, <2>12 DEF p, k, rows
<1>2. QED
  BY <1>1, Inductive, PTL

-----------------------------------------------------------------------------
(* What the reports account for *)

Quantity(run) == QuantityOf[OrderOf(run)]

\* What the last event of an approved path books; no earlier one books
\* anything.
LastBooked(run) == Filled(Last(ApprovedPath(run)), Quantity(run))

ExpireReport(run, t) ==
  [ sequence |-> MarkSequence(run), execution_type |-> "EXPIRE",
    timestamp |-> t, cumulative |-> LastBooked(run),
    leaves |-> Quantity(run) - LastBooked(run) ]

\* The reports of a run are those of its approved path, and after a mark one
\* more that repeats the quantities of the last.
ReportsOK(run, stored, eventRows, reportRows) ==
  IF run \in stored /\ TRUE \in Verdicts[run]
  THEN \E at \in Time :
         LET rows == ReportRows(run, ApprovedPath(run), at) IN
           \/ reportRows = rows
           \/ /\ \E x \in eventRows :
                   /\ x.event_type = "EXPIRE"
                   /\ x.sequence = MarkSequence(run)
              /\ \E t \in Time : reportRows = rows \cup {ExpireReport(run, t)}
  ELSE reportRows = {}

\* A mark that has read a report holds the quantities of the last event,
\* when the calls for its run agree.
QuantitiesOK(call) ==
  call.op = "mark" /\ Agreed(call.run) =>
    call.quantities =
      <<LastBooked(call.run), Quantity(call.run) - LastBooked(call.run)>>

ReportInv ==
  /\ reports = [run \in Run |-> reports[run]]
  /\ \A run \in Run :
       Agreed(run) => ReportsOK(run, DOMAIN runs, events[run], reports[run])
  /\ \A c \in Clients : QuantitiesOK(calls[c])

\* The broker's events book nothing before the last, which is reported.
LEMMA BrokerBooks ==
  ASSUME NEW outcome \in BrokerOutcome
  PROVE  LET b == BrokerEvents(outcome) IN
           /\ \A i \in 1 .. Len(b) - 1 : b[i] \notin {"PARTIAL_FILL", "FILL"}
           /\ Last(b) \in Reported
<1>1. CASE outcome = "acknowledge"
  BY <1>1 DEF BrokerEvents, Last, Reported
<1>2. CASE outcome = "partial_fill"
  BY <1>2 DEF BrokerEvents, Last, Reported
<1>3. CASE outcome = "fill"
  BY <1>3 DEF BrokerEvents, Last, Reported
<1>4. CASE outcome = "reject"
  BY <1>4 DEF BrokerEvents, Last, Reported
<1>5. CASE outcome = "cancel"
  BY <1>5 DEF BrokerEvents, Last, Reported
<1>6. QED
  BY <1>1, <1>2, <1>3, <1>4, <1>5 DEF BrokerOutcome

\* Nor does the path before them.
LEMMA PathBooks ==
  ASSUME NEW run \in Run
  PROVE  LET p == ApprovedPath(run) IN
           /\ \A i \in 1 .. Len(p) - 1 : p[i] \notin {"PARTIAL_FILL", "FILL"}
           /\ Last(p) \in Reported
           /\ Len(p) \in Nat \ {0}
           /\ DOMAIN p = 1 .. Len(p)
<1> DEFINE E == OrderEventType \ {"EXPIRE"}
           a == <<"CREATE", "RISK_APPROVE", "SUBMIT">>
           b == BrokerEvents(SimulationOf(run))
           p == a \o b
           m == Len(b)
<1>1. b \in Seq(E) /\ m \in 1 .. 3
  BY SimulationIsOutcome, BrokerEventsFacts
<1>2. /\ \A i \in 1 .. m - 1 : b[i] \notin {"PARTIAL_FILL", "FILL"}
      /\ Last(b) \in Reported
  BY SimulationIsOutcome, BrokerBooks
<1>3. /\ a \in Seq(E)
      /\ Len(a) = 3
      /\ a[1] = "CREATE" /\ a[2] = "RISK_APPROVE" /\ a[3] = "SUBMIT"
  BY DEF OrderEventType
<1>4. ApprovedPath(run) = p
  BY DEF Path, ApprovedPath
<1> HIDE DEF a, b, E
<1>5. /\ Len(p) = 3 + m
      /\ \A i \in 1 .. 3 + m : p[i] = IF i <= 3 THEN a[i] ELSE b[i - 3]
  <2>1. /\ Len(p) = Len(a) + Len(b)
        /\ \A i \in 1 .. Len(a) + Len(b) :
             p[i] = IF i <= Len(a) THEN a[i] ELSE b[i - Len(a)]
    BY <1>1, <1>3, ConcatProperties
  <2> HIDE DEF p, m
  <2>2. Len(b) = m
    BY DEF m
  <2>3. QED
    BY <1>3, <2>1, <2>2
<1> HIDE DEF p, m
<1>6. ASSUME NEW i \in 1 .. Len(p) - 1
      PROVE  p[i] \notin {"PARTIAL_FILL", "FILL"}
  <2>1. i \in 1 .. 3 + m /\ i < 3 + m
    BY <1>1, <1>5, <1>6
  <2>2. CASE i <= 3
    <3>1. p[i] = a[i] /\ i \in {1, 2, 3}
      BY <1>5, <2>1, <2>2
    <3>2. QED
      BY <1>3, <3>1
  <2>3. CASE ~ (i <= 3)
    <3>1. p[i] = b[i - 3] /\ i - 3 \in 1 .. m - 1
      BY <1>1, <1>5, <2>1, <2>3
    <3>2. QED
      BY <1>2, <3>1
  <2>4. QED
    BY <2>2, <2>3
<1>7. Last(ApprovedPath(run)) = Last(b)
  BY ApprovedPathFacts DEF b
<1>8. DOMAIN p = 1 .. Len(p) /\ Len(p) \in Nat \ {0}
  BY <1>4, PathFacts DEF ApprovedPath
<1>9. QED
  BY <1>2, <1>4, <1>6, <1>7, <1>8

\* The reports an approved workflow writes: each is of its order's quantity,
\* only the last can be of a fill, and it repeats in what an expiry reports.
LEMMA RowsFacts ==
  ASSUME NEW run \in Run, NEW at \in Time
  PROVE  LET rows == ReportRows(run, ApprovedPath(run), at)
             n == Len(ApprovedPath(run)) IN
           /\ n \in Nat \ {0}
           /\ Quantity(run) \in Nat \ {0}
           /\ LastBooked(run) \in Nat
           /\ \A x \in rows :
                /\ x.timestamp = at
                /\ x.sequence \in 1 .. n
                /\ x.cumulative \in Nat
                /\ x.leaves = Quantity(run) - x.cumulative
                /\ x.sequence < n => x.cumulative = 0
                /\ x.sequence = n => x.cumulative = LastBooked(run)
           /\ \E x \in rows : x.sequence = n
<1> DEFINE p == ApprovedPath(run)
           n == Len(p)
           q == Quantity(run)
           rows == ReportRows(run, p, at)
<1>1. /\ \A i \in 1 .. n - 1 : p[i] \notin {"PARTIAL_FILL", "FILL"}
      /\ p[n] \in Reported
      /\ n \in Nat \ {0}
      /\ DOMAIN p = 1 .. n
  BY PathBooks DEF Last
<1>2. q \in Nat \ {0}
  BY ConstantsAssumption DEF Quantity, OrderOf, Run
<1>3. LastBooked(run) = Filled(p[n], q)
  BY DEF LastBooked, Last
<1> DEFINE row(i) == [ sequence |-> i, execution_type |-> p[i],
                       timestamp |-> at, cumulative |-> Filled(p[i], q),
                       leaves |-> q - Filled(p[i], q) ]
<1>4. rows = {row(i) : i \in {j \in DOMAIN p : p[j] \in Reported}}
  BY DEF ReportRows, Quantity
<1> HIDE DEF p, n, q, rows
<1>5. \A i \in 1 .. n : /\ Filled(p[i], q) \in Nat
                        /\ i < n => Filled(p[i], q) = 0
  BY <1>1, <1>2 DEF Filled
<1>6. ASSUME NEW x \in rows
      PROVE  /\ x.timestamp = at
             /\ x.sequence \in 1 .. n
             /\ x.cumulative \in Nat
             /\ x.leaves = q - x.cumulative
             /\ x.sequence < n => x.cumulative = 0
             /\ x.sequence = n => x.cumulative = LastBooked(run)
  BY <1>1, <1>3, <1>4, <1>5
<1>7. \E x \in rows : x.sequence = n
  <2>1. n \in {j \in DOMAIN p : p[j] \in Reported}
    BY <1>1
  <2>2. row(n) \in rows /\ row(n).sequence = n
    BY <1>4, <2>1
  <2> HIDE DEF row
  <2>3. QED
    BY <2>2
<1>8. LastBooked(run) \in Nat
  BY <1>1, <1>3, <1>5
<1>9. QED
  BY <1>1, <1>2, <1>6, <1>7, <1>8 DEF p, n, q, rows

\* Whatever their times, the newest report of a run is the last of its path
\* or the expiry, and both say the same.
LEMMA NewestQuantities ==
  ASSUME NEW run \in Run, NEW at \in Time,
         LET rows == ReportRows(run, ApprovedPath(run), at) IN
           \/ reports[run] = rows
           \/ \E t \in Time : reports[run] = rows \cup {ExpireReport(run, t)}
  PROVE  PreviousQuantities(run) =
           <<LastBooked(run), Quantity(run) - LastBooked(run)>>
<1> DEFINE n == Len(ApprovedPath(run))
           q == Quantity(run)
           k == MarkSequence(run)
           rows == ReportRows(run, ApprovedPath(run), at)
           B == LastBooked(run)
           After(x, y) == \/ y.timestamp < x.timestamp
                          \/ /\ y.timestamp = x.timestamp
                             /\ y.sequence <= x.sequence
           R == reports[run]
           new == CHOOSE x \in R : \A y \in R : After(x, y)
<1>1. /\ n \in Nat \ {0} /\ q \in Nat \ {0} /\ B \in Nat
      /\ \A x \in rows :
           /\ x.timestamp = at
           /\ x.sequence \in 1 .. n
           /\ x.cumulative \in Nat
           /\ x.leaves = q - x.cumulative
           /\ x.sequence = n => x.cumulative = B
  BY RowsFacts
<1>2. PICK l \in rows : l.sequence = n
  BY RowsFacts
<1>3. k = n + 1
  BY DEF MarkSequence
<1>4. Newest(R) = new
  BY DEF Newest
<1>5. at \in Int
  BY ConstantsAssumption DEF Time
<1> HIDE DEF n, q, k, rows, B, R
<1>6. ASSUME R = rows
      PROVE  new \in R /\ new.cumulative = B /\ new.leaves = q - B
  <2>1. \A y \in R : After(l, y)
    BY <1>1, <1>2, <1>6
  <2>2. new \in R /\ \A y \in R : After(new, y)
    BY <1>2, <1>6, <2>1
  <2> HIDE DEF new
  <2>3. After(new, l)
    BY <1>2, <1>6, <2>2
  <2>4. new.sequence = n
    BY <1>1, <1>2, <1>5, <1>6, <2>2, <2>3
  <2>5. QED
    BY <1>1, <1>6, <2>2, <2>4
<1>7. ASSUME NEW t \in Time, R = rows \cup {ExpireReport(run, t)}
      PROVE  new \in R /\ new.cumulative = B /\ new.leaves = q - B
  <2> DEFINE e == ExpireReport(run, t)
  <2>1. /\ e.timestamp = t /\ e.sequence = k
        /\ e.cumulative = B /\ e.leaves = q - B
    BY DEF ExpireReport, k, B, q
  <2> HIDE DEF e
  <2>2. t \in Int
    BY ConstantsAssumption DEF Time
  <2>3. \E x \in R : \A y \in R : After(x, y)
    <3>1. CASE t < at
      <4>1. \A y \in R : After(l, y)
        BY <1>1, <1>2, <1>7, <2>1, <3>1 DEF e
      <4>2. QED
        BY <1>2, <1>7, <4>1
    <3>2. CASE ~ (t < at)
      <4>1. \A y \in R : After(e, y)
        BY <1>1, <1>3, <1>5, <1>7, <2>1, <2>2, <3>2 DEF e
      <4>2. e \in R
        BY <1>7 DEF e
      <4>3. QED
        BY <4>1, <4>2
    <3>3. QED
      BY <3>1, <3>2
  <2>4. new \in R /\ \A y \in R : After(new, y)
    BY <2>3
  <2> HIDE DEF new
  <2>5. CASE new = e
    BY <2>1, <2>4, <2>5
  <2>6. CASE new \in rows
    <3>1. After(new, l)
      BY <1>2, <1>7, <2>4
    <3>2. new.sequence = n
      BY <1>1, <1>2, <1>5, <2>6, <3>1
    <3>3. QED
      BY <1>1, <2>4, <2>6, <3>2
  <2>7. QED
    BY <1>7, <2>4, <2>5, <2>6 DEF e
<1>8. new \in R /\ new.cumulative = B /\ new.leaves = q - B
  BY <1>6, <1>7 DEF R, rows
<1>9. QED
  BY <1>4, <1>8 DEF PreviousQuantities, R, B, q

\* A step that leaves the runs, their events and reports alone and changes
\* one call, which holds no other quantities than it should.
LEMMA ReportCallStep ==
  ASSUME IInv, ReportInv, NEW c \in Clients, NEW call, QuantitiesOK(call),
         calls' = [calls EXCEPT ![c] = call],
         UNCHANGED <<runs, events, reports>>
  PROVE  ReportInv'
<1>1. (\A run \in Run :
         Agreed(run) =>
           ReportsOK(run, DOMAIN runs, events[run], reports[run]))'
  BY DEF ReportInv, ReportsOK
<1>2. ASSUME NEW d \in Clients
      PROVE  QuantitiesOK(calls'[d])
  BY DEF IInv, TablesOK, ReportInv, QuantitiesOK
<1>3. (\A d \in Clients : QuantitiesOK(calls[d]))'
  BY <1>2 DEF QuantitiesOK, Quantity, LastBooked
<1>4. QED
  BY <1>1, <1>3 DEF ReportInv

LEMMA InitReportInv == Init => ReportInv
BY DEF Init, ReportInv, ReportsOK, QuantitiesOK, Idle

LEMMA RecordCommitReports ==
  ASSUME IInv, ReportInv, NEW c \in Clients, RecordCommit(c)
  PROVE  ReportInv'
<1> DEFINE run == calls[c].run
           path == calls[c].path
           now == calls[c].now
<1>1. calls[c].op = "record" /\ CallOK(calls[c], DOMAIN runs)
  BY DEF CallsOK, IInv, RecordCommit
<1>2. PICK approved \in Verdicts[run] : path = Path(run, approved)
  BY <1>1, CallKinds
<1>3. run \in Run /\ now \in Time
  BY <1>1, CallKinds
<1>4. /\ reports' = [reports EXCEPT ![run] = ReportRows(run, path, now)]
      /\ calls' = [calls EXCEPT ![c] = Idle]
  BY DEF RecordCommit
<1>5. /\ DOMAIN runs' = DOMAIN runs \cup {run}
      /\ \A r \in Run \ {run} : events'[r] = events[r]
  BY <1>3 DEF RecordCommit, EventsRecorded, Put, IInv, TablesOK
<1> HIDE DEF run, path, now
<1>6. /\ reports'[run] = ReportRows(run, path, now)
      /\ \A r \in Run \ {run} : reports'[r] = reports[r]
  BY <1>3, <1>4 DEF ReportInv
<1>7. ASSUME Agreed(run)
      PROVE  ReportsOK(run, DOMAIN runs', events'[run], reports'[run])
  <2>1. CASE approved
    <3>1. path = ApprovedPath(run) /\ TRUE \in Verdicts[run]
      BY <1>2, <1>3, <2>1, VerdictsBoolean DEF ApprovedPath, Path
    <3>2. reports'[run] = ReportRows(run, ApprovedPath(run), now)
      BY <1>6, <3>1
    <3>3. QED
      BY <1>3, <1>5, <3>1, <3>2 DEF ReportsOK
  <2>2. CASE ~ approved
    <3>1. TRUE \notin Verdicts[run]
      BY <1>7, <2>2 DEF Agreed
    <3>2. path = <<"CREATE", "RISK_REJECT">>
      BY <1>2, <2>2 DEF Path
    <3>3. {j \in DOMAIN path : path[j] \in Reported} = {}
      BY <3>2 DEF Reported
    <3>4. reports'[run] = {}
      BY <1>6, <3>3 DEF ReportRows
    <3>5. QED
      BY <3>1, <3>4 DEF ReportsOK
  <2>3. QED
    BY <2>1, <2>2
<1>8. ASSUME NEW r \in Run, Agreed(r)
      PROVE  ReportsOK(r, DOMAIN runs', events'[r], reports'[r])
  <2>1. CASE r = run
    BY <1>7, <1>8, <2>1
  <2>2. CASE r # run
    <3>1. /\ reports'[r] = reports[r] /\ events'[r] = events[r]
          /\ r \in DOMAIN runs' <=> r \in DOMAIN runs
      BY <1>5, <1>6, <2>2
    <3>2. ReportsOK(r, DOMAIN runs, events[r], reports[r])
      BY <1>8 DEF ReportInv
    <3>3. QED
      BY <3>1, <3>2 DEF ReportsOK
  <2>3. QED
    BY <2>1, <2>2
<1>9. ASSUME NEW d \in Clients
      PROVE  QuantitiesOK(calls'[d])
  BY <1>4 DEF IInv, TablesOK, ReportInv, QuantitiesOK, Idle
<1>10. (\A d \in Clients : QuantitiesOK(calls[d]))'
  BY <1>9 DEF QuantitiesOK, Quantity, LastBooked
<1>11. reports' = [r \in Run |-> reports'[r]]
  BY <1>4 DEF ReportInv
<1>12. QED
  BY <1>8, <1>10, <1>11 DEF ReportInv, ReportsOK

LEMMA MarkReadReportReports ==
  ASSUME IInv, ReportInv, NEW c \in Clients, MarkReadReport(c)
  PROVE  ReportInv'
<1> DEFINE old == calls[c]
           run == old.run
           call == [op |-> "mark", run |-> run, now |-> old.now,
                    sequence |-> old.sequence,
                    quantities |-> PreviousQuantities(run)]
<1>1. calls' = [calls EXCEPT ![c] = call] /\ UNCHANGED <<runs, events, reports>>
  BY DEF MarkReadReport, tables
<1>2. old.op = "mark_report" /\ CallOK(old, DOMAIN runs)
  BY DEF CallsOK, IInv, MarkReadReport
<1> HIDE DEF old
<1>3. run \in DOMAIN runs /\ TRUE \in Verdicts[run]
  BY <1>2, CallKinds
<1>4. run \in Run
  BY <1>3 DEF IInv, TablesOK
<1>5. ASSUME Agreed(run)
      PROVE  PreviousQuantities(run) =
               <<LastBooked(run), Quantity(run) - LastBooked(run)>>
  <2>1. PICK at \in Time :
          LET rows == ReportRows(run, ApprovedPath(run), at) IN
            \/ reports[run] = rows
            \/ \E t \in Time : reports[run] = rows \cup {ExpireReport(run, t)}
    BY <1>3, <1>4, <1>5 DEF ReportInv, ReportsOK
  <2>2. QED
    BY <1>4, <2>1, NewestQuantities
<1> HIDE DEF run
<1>6. QuantitiesOK(call)
  BY <1>5 DEF QuantitiesOK
<1> HIDE DEF call
<1>7. QED
  BY <1>1, <1>6, ReportCallStep

\* The report of a mark is the one an expiry of the run has to make, and the
\* run had none: its EXPIRE event would have been there.
LEMMA MarkCommitReports ==
  ASSUME IInv, ReportInv, NEW c \in Clients, MarkCommit(c)
  PROVE  ReportInv'
<1> DEFINE run == calls[c].run
           now == calls[c].now
           seq == calls[c].sequence
           q == calls[c].quantities
<1>1. calls[c].op = "mark" /\ CallOK(calls[c], DOMAIN runs)
  BY DEF CallsOK, IInv, MarkCommit
<1>2. /\ run \in DOMAIN runs
      /\ now \in Time
      /\ TRUE \in Verdicts[run]
      /\ seq = MarkSequence(run)
  BY <1>1, CallKinds
<1>3. run \in Run
  BY <1>2 DEF IInv, TablesOK
<1>4. Agreed(run) => q = <<LastBooked(run), Quantity(run) - LastBooked(run)>>
  BY <1>1 DEF ReportInv, QuantitiesOK
<1>5. /\ EventFree(run, seq, "EXPIRE")
      /\ events' = [events EXCEPT ![run] =
                      @ \cup {EventRow(seq, "EXPIRE", now)}]
      /\ reports' = [reports EXCEPT ![run] = @ \cup
           { [ sequence |-> seq, execution_type |-> "EXPIRE",
               timestamp |-> now, cumulative |-> q[1], leaves |-> q[2] ] }]
      /\ runs' = [runs EXCEPT ![run].final_oms_status = "EXPIRED"]
      /\ calls' = [calls EXCEPT ![c] = Idle]
  BY DEF MarkCommit, RunsMarked
<1>6. Agreed(run) =>
        [ sequence |-> seq, execution_type |-> "EXPIRE", timestamp |-> now,
          cumulative |-> q[1], leaves |-> q[2] ] = ExpireReport(run, now)
  BY <1>2, <1>4 DEF ExpireReport
<1> HIDE DEF run, now, seq, q
<1>7. /\ Agreed(run) =>
           reports'[run] = reports[run] \cup {ExpireReport(run, now)}
      /\ \A r \in Run \ {run} : reports'[r] = reports[r]
  BY <1>3, <1>5, <1>6 DEF ReportInv
<1>8. /\ events'[run] = events[run] \cup {EventRow(seq, "EXPIRE", now)}
      /\ \A r \in Run \ {run} : events'[r] = events[r]
      /\ DOMAIN runs' = DOMAIN runs
  BY <1>2, <1>3, <1>5 DEF IInv, TablesOK
<1>9. ASSUME Agreed(run)
      PROVE  ReportsOK(run, DOMAIN runs', events'[run], reports'[run])
  <2>1. \A x \in events[run] :
          ~ (x.event_type = "EXPIRE" /\ x.sequence = MarkSequence(run))
    BY <1>2, <1>5 DEF EventFree
  <2>2. PICK at \in Time :
          reports[run] = ReportRows(run, ApprovedPath(run), at)
    BY <1>2, <1>3, <1>9, <2>1 DEF ReportInv, ReportsOK
  <2>3. reports'[run] = ReportRows(run, ApprovedPath(run), at)
                          \cup {ExpireReport(run, now)}
    BY <1>7, <1>9, <2>2
  <2> DEFINE e == EventRow(seq, "EXPIRE", now)
  <2>4. /\ e \in events'[run]
        /\ e.event_type = "EXPIRE" /\ e.sequence = MarkSequence(run)
    BY <1>2, <1>8 DEF EventRow
  <2> HIDE DEF e
  <2>5. QED
    BY <1>2, <1>8, <2>3, <2>4 DEF ReportsOK
<1>10. ASSUME NEW r \in Run, Agreed(r)
       PROVE  ReportsOK(r, DOMAIN runs', events'[r], reports'[r])
  <2>1. CASE r = run
    BY <1>9, <1>10, <2>1
  <2>2. CASE r # run
    <3>1. reports'[r] = reports[r] /\ events'[r] = events[r]
      BY <1>7, <1>8, <2>2
    <3>2. ReportsOK(r, DOMAIN runs, events[r], reports[r])
      BY <1>10 DEF ReportInv
    <3>3. QED
      BY <1>8, <3>1, <3>2
  <2>3. QED
    BY <2>1, <2>2
<1>11. ASSUME NEW d \in Clients
       PROVE  QuantitiesOK(calls'[d])
  BY <1>5 DEF IInv, TablesOK, ReportInv, QuantitiesOK, Idle
<1>12. (\A d \in Clients : QuantitiesOK(calls[d]))'
  BY <1>11 DEF QuantitiesOK, Quantity, LastBooked
<1>13. reports' = [r \in Run |-> reports'[r]]
  BY <1>5 DEF ReportInv
<1>14. QED
  BY <1>10, <1>12, <1>13 DEF ReportInv, ReportsOK

LEMMA NextReportInv ==
  ASSUME IInv, ReportInv, [Next]_vars
  PROVE  ReportInv'
<1>1. CASE Tick
  BY <1>1 DEF Tick, tables, ReportInv, ReportsOK, QuantitiesOK
<1>2. ASSUME NEW c \in Clients, NEW run \in Run,
             NEW approved \in Verdicts[run], RecordCheck(c, run, approved)
      PROVE  ReportInv'
  <2> DEFINE call == [op |-> "record", run |-> run,
                      path |-> Path(run, approved), now |-> clock]
  <2>1. /\ calls' = [calls EXCEPT ![c] = call] /\ QuantitiesOK(call)
        /\ UNCHANGED <<runs, events, reports>>
    BY <1>2 DEF RecordCheck, tables, QuantitiesOK
  <2> HIDE DEF call
  <2>2. QED
    BY <2>1, ReportCallStep
<1>3. ASSUME NEW c \in Clients, RecordCommit(c)
      PROVE  ReportInv'
  BY <1>3, RecordCommitReports
<1>4. ASSUME NEW c \in Clients, NEW run \in Run, MarkReadRun(c, run)
      PROVE  ReportInv'
  <2> DEFINE call == [op |-> "mark_status", run |-> run, now |-> clock,
                      persisted_at |-> runs[run].persisted_at]
  <2>1. /\ calls' = [calls EXCEPT ![c] = call] /\ QuantitiesOK(call)
        /\ UNCHANGED <<runs, events, reports>>
    BY <1>4 DEF MarkReadRun, tables, QuantitiesOK
  <2> HIDE DEF call
  <2>2. QED
    BY <2>1, ReportCallStep
<1>5. ASSUME NEW c \in Clients, MarkReadStatus(c)
      PROVE  ReportInv'
  <2> DEFINE call == [op |-> "mark_report", run |-> calls[c].run,
                      now |-> calls[c].now,
                      sequence |-> CurrentSequence(calls[c].run) + 1]
  <2>1. /\ calls' = [calls EXCEPT ![c] = call] /\ QuantitiesOK(call)
        /\ UNCHANGED <<runs, events, reports>>
    BY <1>5 DEF MarkReadStatus, tables, QuantitiesOK
  <2> HIDE DEF call
  <2>2. QED
    BY <2>1, ReportCallStep
<1>6. ASSUME NEW c \in Clients, MarkReadReport(c)
      PROVE  ReportInv'
  BY <1>6, MarkReadReportReports
<1>7. ASSUME NEW c \in Clients, MarkCommit(c)
      PROVE  ReportInv'
  BY <1>7, MarkCommitReports
<1>8. ASSUME NEW c \in Clients, Abandon(c)
      PROVE  ReportInv'
  <2>1. /\ calls' = [calls EXCEPT ![c] = Idle] /\ QuantitiesOK(Idle)
        /\ UNCHANGED <<runs, events, reports>>
    BY <1>8 DEF Abandon, tables, QuantitiesOK, Idle
  <2>2. QED
    BY <2>1, ReportCallStep
<1>9. CASE UNCHANGED vars
  BY <1>9 DEF vars, tables, ReportInv, ReportsOK, QuantitiesOK
<1>10. QED
  BY <1>1, <1>2, <1>3, <1>4, <1>5, <1>6, <1>7, <1>8, <1>9 DEF Next

(***************************************************************************)
(* The reports of every run for which the risk engine answers all calls    *)
(* alike account for the whole order at all times and never take back what *)
(* they reported as filled, although a mark computes its report from one   *)
(* that other calls may have replaced since (build_execution_reports,      *)
(* _execution_report_from_timeout).                                        *)
(***************************************************************************)
THEOREM ReportsConserveQuantitySafe == Spec => []ReportsConserveQuantity
<1>1. Init => ReportInv
  BY InitReportInv
<1>2. IInv /\ ReportInv /\ [Next]_vars => ReportInv'
  BY NextReportInv
<1>3. ReportInv => ReportsConserveQuantity
  <2> SUFFICES ASSUME ReportInv, NEW run \in Run, Agreed(run),
                      NEW x \in reports[run], NEW y \in reports[run]
               PROVE  /\ x.cumulative + x.leaves = QuantityOf[OrderOf(run)]
                      /\ x.sequence <= y.sequence =>
                           x.cumulative <= y.cumulative
    BY DEF ReportsConserveQuantity
  <2> DEFINE n == Len(ApprovedPath(run))
             q == Quantity(run)
             B == LastBooked(run)
             k == MarkSequence(run)
  <2>1. PICK at \in Time :
          LET rows == ReportRows(run, ApprovedPath(run), at) IN
            \/ reports[run] = rows
            \/ \E t \in Time : reports[run] = rows \cup {ExpireReport(run, t)}
    BY DEF ReportInv, ReportsOK
  <2> DEFINE rows == ReportRows(run, ApprovedPath(run), at)
  <2>2. /\ n \in Nat \ {0} /\ q \in Nat \ {0} /\ B \in Nat
        /\ \A z \in rows :
             /\ z.sequence \in 1 .. n
             /\ z.cumulative \in Nat
             /\ z.leaves = q - z.cumulative
             /\ z.sequence < n => z.cumulative = 0
             /\ z.sequence = n => z.cumulative = B
    BY RowsFacts
  <2>3. k = n + 1
    BY DEF MarkSequence
  <2>4. \A t : /\ ExpireReport(run, t).sequence = k
               /\ ExpireReport(run, t).cumulative = B
               /\ ExpireReport(run, t).leaves = q - B
    BY DEF ExpireReport
  <2>5. q = QuantityOf[OrderOf(run)]
    BY DEF Quantity
  <2> HIDE DEF n, q, B, k, rows
  <2>6. \A z \in reports[run] :
          \/ z \in rows
          \/ z.sequence = k /\ z.cumulative = B /\ z.leaves = q - B
    BY <2>1, <2>4 DEF rows
  <2>7. \A z \in reports[run] :
          /\ z.cumulative \in Nat /\ z.sequence \in 1 .. k
          /\ z.cumulative + z.leaves = q
          /\ z.sequence < n => z.cumulative = 0
          /\ z.sequence >= n => z.cumulative = B
    BY <2>2, <2>3, <2>6
  <2>8. x.cumulative + x.leaves = q
    BY <2>7
  <2>9. ASSUME x.sequence <= y.sequence
        PROVE  x.cumulative <= y.cumulative
    BY <2>2, <2>3, <2>7, <2>9
  <2>10. QED
    BY <2>5, <2>8, <2>9
<1>4. QED
  BY <1>1, <1>2, <1>3, Inductive, PTL DEF Spec

-----------------------------------------------------------------------------
(* Keys and candidates *)

\* Every order on record has its key on record, with a run of that order
\* which is itself on record.
KeysHold ==
  /\ \A run \in DOMAIN runs : OrderOf(run) \in DOMAIN keys
  /\ \A o \in DOMAIN keys : keys[o] \in DOMAIN runs /\ OrderOf(keys[o]) = o

LEMMA InitKeysHold == Init => KeysHold
BY DEF Init, KeysHold

\* The one step that takes a key records its run.
LEMMA RecordCommitKeys ==
  ASSUME KeysHold, NEW c \in Clients, RecordCommit(c)
  PROVE  KeysHold'
<1> DEFINE run == calls[c].run
           order == OrderOf(run)
<1>1. /\ keys' = KeysAfter(run)
      /\ DOMAIN runs' = DOMAIN runs \cup {run}
  BY DEF RecordCommit, Put
<1> HIDE DEF run
<1>2. /\ DOMAIN keys' = DOMAIN keys \cup {order}
      /\ \A o \in DOMAIN keys : keys'[o] = keys[o]
      /\ order \notin DOMAIN keys => keys'[order] = run
  BY <1>1 DEF KeysAfter, Put
<1>3. \A r \in DOMAIN runs' : OrderOf(r) \in DOMAIN keys'
  BY <1>1, <1>2 DEF KeysHold
<1>4. \A o \in DOMAIN keys' : keys'[o] \in DOMAIN runs' /\ OrderOf(keys'[o]) = o
  BY <1>1, <1>2 DEF KeysHold
<1>5. QED
  BY <1>3, <1>4 DEF KeysHold, OrderOf

LEMMA NextKeysHold ==
  ASSUME KeysHold, [Next]_vars
  PROVE  KeysHold'
<1>1. ASSUME NEW c \in Clients, RecordCommit(c)
      PROVE  KeysHold'
  BY <1>1, RecordCommitKeys
<1>2. ASSUME NEW c \in Clients, MarkCommit(c)
      PROVE  KeysHold'
  <2>1. keys' = keys /\ DOMAIN runs' = DOMAIN runs
    BY <1>2 DEF MarkCommit, RunsMarked
  <2>2. QED
    BY <2>1 DEF KeysHold, OrderOf
<1>3. CASE UNCHANGED <<keys, runs>>
  BY <1>3 DEF KeysHold, OrderOf
<1>4. QED
  BY <1>1, <1>2, <1>3
     DEF Next, Tick, RecordCheck, MarkReadRun, MarkReadStatus,
         MarkReadReport, Abandon, tables, vars

\* A run that has not ended is in a status EXPIRE may leave.
LEMMA OpenMayExpire ==
  ASSUME NEW run \in Run, NEW rows, NEW status, RunOK(run, rows, status),
         status \notin TERMINAL_ORDER_STATUSES
  PROVE  "EXPIRE" \in ALLOWED_TRANSITIONS[status]
<1>1. PICK approved \in Verdicts[run] : status = Final(Path(run, approved))
  BY DEF RunOK, TERMINAL_ORDER_STATUSES
<1>2. CASE approved = TRUE
  <2> DEFINE last == Last(ApprovedPath(run))
  <2>1. last \in OpenEnd \cup {"FILL", "REJECT", "CANCEL"}
    BY SimulationIsOutcome, BrokerEventsFacts, ApprovedPathFacts
  <2>2. status = EVENT_TARGET_STATUS[last]
    BY <1>1, <1>2 DEF Final, ApprovedPath
  <2> HIDE DEF last
  <2>3. status \in {"ACCEPTED", "PARTIALLY_FILLED"}
    BY <2>1, <2>2 DEF OpenEnd, EVENT_TARGET_STATUS, OrderEventType,
                      TERMINAL_ORDER_STATUSES
  <2>4. QED
    BY <2>3 DEF ALLOWED_TRANSITIONS, OrderStatus
<1>3. CASE approved = FALSE
  <2>1. Path(run, approved) = <<"CREATE", "RISK_REJECT">>
    BY <1>3 DEF Path
  <2>2. status = "REJECTED"
    BY <1>1, <2>1 DEF Final, Last, EVENT_TARGET_STATUS, OrderEventType
  <2>3. QED
    BY <2>2 DEF TERMINAL_ORDER_STATUSES
<1>4. QED
  BY <1>2, <1>3, VerdictsBoolean

(***************************************************************************)
(* Whatever calls overlap, a run the timeout scan lists is in a status     *)
(* EXPIRE may leave, and the key of its order is held by a run of that     *)
(* order which is on record (list_timeout_candidates,                      *)
(* _build_timeout_mark_response).                                          *)
(***************************************************************************)
THEOREM CandidatesMarkableSafe == Spec => []CandidatesMarkable
<1>1. Init => KeysHold
  BY InitKeysHold
<1>2. KeysHold /\ [Next]_vars => KeysHold'
  BY NextKeysHold
<1>3. IInv /\ KeysHold => CandidatesMarkable
  <2> SUFFICES ASSUME IInv, KeysHold, NEW run \in TimeoutCandidates
               PROVE  /\ "EXPIRE" \in ALLOWED_TRANSITIONS[CurrentStatus(run)]
                      /\ OrderOf(run) \in DOMAIN keys
                      /\ OrderOf(keys[OrderOf(run)]) = OrderOf(run)
                      /\ keys[OrderOf(run)] \in DOMAIN runs
    BY DEF CandidatesMarkable
  <2>1. /\ run \in DOMAIN runs
        /\ runs[run].final_oms_status \notin TERMINAL_ORDER_STATUSES
    BY DEF TimeoutCandidates
  <2>2. run \in Run /\ RunOK(run, events[run], runs[run].final_oms_status)
    BY <2>1 DEF IInv, TablesOK, RunsConsistent
  <2>3. CurrentStatus(run) = runs[run].final_oms_status
    BY <2>2, RunMatches DEF CurrentStatus
  <2>4. "EXPIRE" \in ALLOWED_TRANSITIONS[runs[run].final_oms_status]
    BY <2>1, <2>2, OpenMayExpire
  <2>5. QED
    BY <2>1, <2>3, <2>4 DEF KeysHold
<1>4. QED
  BY <1>1, <1>2, <1>3, Inductive, PTL DEF Spec

-----------------------------------------------------------------------------
(* The audit chain *)

RecordAudit(at) == AuditRow("workflow", at, Genesis)

MarkAudit(at, t) == AuditRow("timeout", t, AuditHash(RecordAudit(at)))

\* The audit rows of a run: the block of its last record, and with an EXPIRE
\* event one more that is linked to it.  Nothing is said of their times.
AuditOK(run, stored, eventRows, auditRows) ==
  IF run \in stored
  THEN \E at \in Time :
         \/ auditRows = {RecordAudit(at)}
         \/ /\ \E x \in eventRows :
                 /\ x.event_type = "EXPIRE"
                 /\ x.sequence = MarkSequence(run)
            /\ \E t \in Time : auditRows = {RecordAudit(at), MarkAudit(at, t)}
  ELSE auditRows = {}

AuditInv ==
  /\ audit = [run \in Run |-> audit[run]]
  /\ \A run \in Run : AuditOK(run, DOMAIN runs, events[run], audit[run])

LEMMA InitAuditInv == Init => AuditInv
BY DEF Init, AuditInv, AuditOK

LEMMA RecordCommitAudit ==
  ASSUME IInv, AuditInv, NEW c \in Clients, RecordCommit(c)
  PROVE  AuditInv'
<1> DEFINE run == calls[c].run
           now == calls[c].now
<1>1. calls[c].op = "record" /\ CallOK(calls[c], DOMAIN runs)
  BY DEF CallsOK, IInv, RecordCommit
<1>2. run \in Run /\ now \in Time
  BY <1>1, CallKinds
<1>3. /\ DOMAIN runs' = DOMAIN runs \cup {run}
      /\ \A r \in Run \ {run} : events'[r] = events[r]
      /\ audit' = [audit EXCEPT ![run] = {RecordAudit(now)}]
  BY <1>2 DEF RecordCommit, EventsRecorded, Put, IInv, TablesOK, RecordAudit
<1> HIDE DEF run, now
<1>4. ASSUME NEW r \in Run
      PROVE  AuditOK(r, DOMAIN runs', events'[r], audit'[r])
  <2>1. CASE r = run
    <3>1. r \in DOMAIN runs' /\ audit'[r] = {RecordAudit(now)}
      BY <1>2, <1>3, <2>1 DEF AuditInv
    <3>2. QED
      BY <1>2, <3>1 DEF AuditOK
  <2>2. CASE r # run
    <3>1. /\ audit'[r] = audit[r] /\ events'[r] = events[r]
          /\ r \in DOMAIN runs' <=> r \in DOMAIN runs
      BY <1>3, <2>2 DEF AuditInv
    <3>2. AuditOK(r, DOMAIN runs, events[r], audit[r])
      BY DEF AuditInv
    <3>3. QED
      BY <3>1, <3>2 DEF AuditOK
  <2>3. QED
    BY <2>1, <2>2
<1>5. audit' = [r \in Run |-> audit'[r]]
  BY <1>3 DEF AuditInv
<1>6. QED
  BY <1>4, <1>5 DEF AuditInv, AuditOK

\* The mark that books the EXPIRE event finds the block of a record alone,
\* so that is what it links its own to, whatever the times say.
LEMMA MarkCommitAudit ==
  ASSUME IInv, AuditInv, NEW c \in Clients, MarkCommit(c)
  PROVE  AuditInv'
<1> DEFINE run == calls[c].run
           now == calls[c].now
           seq == calls[c].sequence
<1>1. calls[c].op = "mark" /\ CallOK(calls[c], DOMAIN runs)
  BY DEF CallsOK, IInv, MarkCommit
<1>2. run \in DOMAIN runs /\ now \in Time /\ seq = MarkSequence(run)
  BY <1>1, CallKinds
<1>3. run \in Run
  BY <1>2 DEF IInv, TablesOK
<1>4. /\ EventFree(run, seq, "EXPIRE")
      /\ events' = [events EXCEPT ![run] =
                      @ \cup {EventRow(seq, "EXPIRE", now)}]
      /\ audit' = [audit EXCEPT ![run] =
                     @ \cup {AuditRow("timeout", now, LatestAuditHash(run))}]
      /\ DOMAIN runs' = DOMAIN runs
  BY DEF MarkCommit, RunsMarked
<1> HIDE DEF run, now, seq
<1>5. PICK at \in Time : audit[run] = {RecordAudit(at)}
  <2>1. \A x \in events[run] :
          ~ (x.event_type = "EXPIRE" /\ x.sequence = MarkSequence(run))
    BY <1>2, <1>4 DEF EventFree
  <2>2. QED
    BY <1>2, <1>3, <2>1 DEF AuditInv, AuditOK
<1>6. LatestAuditHash(run) = AuditHash(RecordAudit(at))
  BY <1>5 DEF LatestAuditHash
<1>7. /\ audit'[run] = {RecordAudit(at), MarkAudit(at, now)}
      /\ \A r \in Run \ {run} : audit'[r] = audit[r]
  BY <1>3, <1>4, <1>5, <1>6 DEF AuditInv, MarkAudit
<1>8. /\ events'[run] = events[run] \cup {EventRow(seq, "EXPIRE", now)}
      /\ \A r \in Run \ {run} : events'[r] = events[r]
  BY <1>3, <1>4 DEF IInv, TablesOK
<1>9. AuditOK(run, DOMAIN runs', events'[run], audit'[run])
  <2> DEFINE e == EventRow(seq, "EXPIRE", now)
  <2>1. /\ e \in events'[run]
        /\ e.event_type = "EXPIRE" /\ e.sequence = MarkSequence(run)
    BY <1>2, <1>8 DEF EventRow
  <2> HIDE DEF e
  <2>2. QED
    BY <1>2, <1>4, <1>7, <2>1 DEF AuditOK
<1>10. ASSUME NEW r \in Run
       PROVE  AuditOK(r, DOMAIN runs', events'[r], audit'[r])
  <2>1. CASE r = run
    BY <1>9, <2>1
  <2>2. CASE r # run
    <3>1. audit'[r] = audit[r] /\ events'[r] = events[r]
      BY <1>7, <1>8, <2>2
    <3>2. AuditOK(r, DOMAIN runs, events[r], audit[r])
      BY DEF AuditInv
    <3>3. QED
      BY <1>4, <3>1, <3>2
  <2>3. QED
    BY <2>1, <2>2
<1>11. audit' = [r \in Run |-> audit'[r]]
  BY <1>4 DEF AuditInv
<1>12. QED
  BY <1>10, <1>11 DEF AuditInv, AuditOK

LEMMA NextAuditInv ==
  ASSUME IInv, AuditInv, [Next]_vars
  PROVE  AuditInv'
<1>1. ASSUME NEW c \in Clients, RecordCommit(c)
      PROVE  AuditInv'
  BY <1>1, RecordCommitAudit
<1>2. ASSUME NEW c \in Clients, MarkCommit(c)
      PROVE  AuditInv'
  BY <1>2, MarkCommitAudit
<1>3. CASE UNCHANGED <<runs, events, audit>>
  BY <1>3 DEF AuditInv, AuditOK
<1>4. QED
  BY <1>1, <1>2, <1>3
     DEF Next, Tick, RecordCheck, MarkReadRun, MarkReadStatus,
         MarkReadReport, Abandon, tables, vars

(***************************************************************************)
(* Followed from hash to hash, the audit events of a run are one chain     *)
(* from the genesis hash, whatever records and marks interleave            *)
(* (latest_audit_hash, mark_timeout).  That the verifier, which goes by    *)
(* their times, reads them in that order is not true: audit_chain.         *)
(***************************************************************************)
THEOREM AuditChainUnforkedSafe == Spec => []AuditChainUnforked
<1>1. Init => AuditInv
  BY InitAuditInv
<1>2. IInv /\ AuditInv /\ [Next]_vars => AuditInv'
  BY NextAuditInv
<1>3. IInv /\ AuditInv => AuditChainUnforked
  <2> SUFFICES ASSUME IInv, AuditInv, NEW run \in DOMAIN runs
               PROVE  \E f \in audit[run] :
                        /\ f.previous = Genesis
                        /\ \A x \in audit[run] \ {f} :
                             \E y \in audit[run] \ {x} :
                               x.previous = AuditHash(y)
                        /\ \A x, y \in audit[run] :
                             x.previous = y.previous => x = y
    BY DEF AuditChainUnforked
  <2>1. run \in Run
    BY DEF IInv, TablesOK
  <2>2. PICK at \in Time :
          \/ audit[run] = {RecordAudit(at)}
          \/ \E t \in Time : audit[run] = {RecordAudit(at), MarkAudit(at, t)}
    BY <2>1 DEF AuditInv, AuditOK
  <2> DEFINE f == RecordAudit(at)
  <2>3. f.previous = Genesis
    BY DEF RecordAudit, AuditRow
  <2> HIDE DEF f
  <2>4. AuditHash(f) # Genesis
    BY DEF AuditHash, Genesis
  <2>5. CASE audit[run] = {f}
    BY <2>3, <2>5
  <2>6. ASSUME NEW t \in Time, audit[run] = {f, MarkAudit(at, t)}
        PROVE  \E g \in audit[run] :
                 /\ g.previous = Genesis
                 /\ \A x \in audit[run] \ {g} :
                      \E y \in audit[run] \ {x} : x.previous = AuditHash(y)
                 /\ \A x, y \in audit[run] : x.previous = y.previous => x = y
    <3> DEFINE m == MarkAudit(at, t)
    <3>1. m.previous = AuditHash(f)
      BY DEF MarkAudit, AuditRow, f
    <3> HIDE DEF m
    <3>2. audit[run] = {f, m}
      BY <2>6 DEF m
    <3>3. f # m
      BY <2>3, <2>4, <3>1
    <3>4. QED
      BY <2>3, <2>4, <3>1, <3>2, <3>3
  <2>7. QED
    BY <2>2, <2>5, <2>6 DEF f
<1>4. QED
  BY <1>1, <1>2, <1>3, Inductive, PTL DEF Spec

=============================================================================
