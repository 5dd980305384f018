------------------------ MODULE PaperExecutionStore ------------------------
(***************************************************************************)
(* The local paper OMS tables of                                           *)
(* backend/app/services/paper_execution_store.py and the two calls that    *)
(* write them: POST /workflow/record and POST /reliability/timeout-mark.   *)
(*                                                                         *)
(* The routes are synchronous, so calls run on threads and interleave.     *)
(* sqlite3 opens a transaction at the first write of a connection: every   *)
(* SELECT before it is on its own, everything from the first write to the  *)
(* end of the with block commits as one step.  So a record call is a       *)
(* SELECT of the idempotency key, then one transaction; a timeout mark is  *)
(* three SELECTs, then one transaction.                                    *)
(*                                                                         *)
(* Identifiers are digests.  An order id and its idempotency key are two   *)
(* halves of one digest, so an order stands for both.  A workflow run id   *)
(* covers what the order id covers and the broker simulation asked for,    *)
(* but not the age of the quote: calls for the same run may differ in what *)
(* the risk engine says, and Verdicts tells for each run whether they do.  *)
(***************************************************************************)
EXTENDS Integers, Sequences, OrderStateMachine, PaperOutcome

CONSTANTS
  Orders,        \* order ids
  Simulations,   \* broker outcomes the calls ask for
  Verdicts,      \* for each run, what the risk engine may answer its calls
  QuantityOf,    \* quantity of each order
  Timeout,       \* timeout_seconds of the marks
  Clients,       \* concurrent API calls
  MaxClock       \* bound on the clock

ASSUME ConstantsAssumption ==
  /\ Simulations \subseteq BrokerOutcome
  /\ Verdicts \in [Orders \X Simulations -> SUBSET BOOLEAN]
  /\ QuantityOf \in [Orders -> Nat \ {0}]
  /\ Timeout \in Nat \ {0}
  /\ MaxClock \in Nat

VARIABLES
  clock,    \* datetime.now(UTC)
  keys,     \* paper_order_idempotency: order -> run
  runs,     \* paper_execution_runs: run -> status and time
  events,   \* paper_oms_events, by run
  audit,    \* paper_audit_events, by run
  reports,  \* paper_execution_reports, by run
  outbox,   \* paper_oms_outbox: the runs with a (completed) item
  calls     \* what each call has in memory

tables == <<keys, runs, events, audit, reports, outbox>>
vars == <<clock, tables, calls>>

Run == Orders \X Simulations

OrderOf(run) == run[1]
SimulationOf(run) == run[2]

\* Table f with the row of k replaced or added.
Put(f, k, row) ==
  [x \in DOMAIN f \cup {k} |-> IF x = k THEN row ELSE f[x]]

-----------------------------------------------------------------------------
(* The workflow, up to what it asks the store to write *)

\* PaperExecutionWorkflow.preview: the history it drives the order through.
Path(run, approved) ==
  IF approved
    THEN <<"CREATE", "RISK_APPROVE", "SUBMIT">>
           \o BrokerEvents(SimulationOf(run))
    ELSE <<"CREATE", "RISK_REJECT">>

EventRow(seq, type, at) ==
  [ sequence |-> seq, event_type |-> type,
    status_after |-> EVENT_TARGET_STATUS[type], timestamp |-> at ]

\* _oms_event_records_from_response
EventRows(path, at) == {EventRow(i, path[i], at) : i \in DOMAIN path}

\* _execution_type_for_event maps the other events to no report.
Reported ==
  { "ACKNOWLEDGE", "PARTIAL_FILL", "FILL", "REJECT", "CANCEL", "EXPIRE" }

\* build_execution_reports
ReportRows(run, path, at) ==
  { [ sequence |-> i, execution_type |-> path[i], timestamp |-> at,
      cumulative |-> Filled(path[i], QuantityOf[OrderOf(run)]),
      leaves |-> QuantityOf[OrderOf(run)]
                   - Filled(path[i], QuantityOf[OrderOf(run)]) ] :
    i \in {j \in DOMAIN path : path[j] \in Reported} }

-----------------------------------------------------------------------------
(* Reading the tables *)

\* The row ORDER BY timestamp DESC puts first.  Rows of one workflow carry
\* increasing timestamps within the clock value they share.
Newest(rows) ==
  CHOOSE x \in rows : \A y \in rows :
    \/ y.timestamp < x.timestamp
    \/ y.timestamp = x.timestamp /\ y.sequence <= x.sequence

LatestEvent(run) ==
  CHOOSE x \in events[run] : \A y \in events[run] : y.sequence <= x.sequence

\* The status and sequence a mark works with: of the last event, else of
\* the run row.
CurrentStatus(run) ==
  IF events[run] # {} THEN LatestEvent(run).status_after
  ELSE runs[run].final_oms_status

CurrentSequence(run) ==
  IF events[run] # {} THEN LatestEvent(run).sequence ELSE 0

\* The audit events of one response are one block here: they are written,
\* replaced and chained together.
Genesis == <<>>

AuditRow(part, at, previous) ==
  [part |-> part, timestamp |-> at, previous |-> previous]

AuditHash(row) == <<row.part, row.timestamp>>

AuditEarlier(x, y) ==
  \/ x.timestamp < y.timestamp
  \/ x.timestamp = y.timestamp /\ x.part = "workflow" /\ y.part = "timeout"

\* Mutation: a mark starts the audit chain anew.
LatestAuditHashIsGenesis(run) == Genesis

\* latest_audit_hash
LatestAuditHash(run) ==
  IF audit[run] = {} THEN Genesis
  ELSE AuditHash(CHOOSE x \in audit[run] :
         \A y \in audit[run] \ {x} : AuditEarlier(y, x))

\* Mutation: the scan lists every overdue run, ended or not.
OverdueRuns ==
  { run \in DOMAIN runs : clock - runs[run].persisted_at >= Timeout }

\* list_timeout_candidates
TimeoutCandidates ==
  { run \in DOMAIN runs :
      /\ runs[run].final_oms_status \notin TERMINAL_ORDER_STATUSES
      /\ clock - runs[run].persisted_at >= Timeout }

-----------------------------------------------------------------------------

Idle == [op |-> "idle"]

Init ==
  /\ clock = 0
  /\ keys = << >>
  /\ runs = << >>
  /\ events = [run \in Run |-> {}]
  /\ audit = [run \in Run |-> {}]
  /\ reports = [run \in Run |-> {}]
  /\ outbox = {}
  /\ calls = [c \in Clients |-> Idle]

\* Mutation: the key of another run is no reason to refuse.
KeyAlwaysAvailable(run) == TRUE

\* _record_idempotency_key raises unless this holds.
KeyAvailable(run) ==
  OrderOf(run) \in DOMAIN keys => keys[OrderOf(run)] = run

\* persist_workflow up to the SELECT of the idempotency key: the response
\* is built, its rows are stamped with the present time.
RecordCheck(c, run, approved) ==
  /\ calls[c] = Idle
  /\ KeyAvailable(run)
  /\ calls' = [calls EXCEPT ![c] =
       [op |-> "record", run |-> run, path |-> Path(run, approved),
        now |-> clock]]
  /\ UNCHANGED <<clock, tables>>

\* Mutation: INSERT OR REPLACE in place of INSERT OR IGNORE.
KeysReplaced(run) == Put(keys, OrderOf(run), run)

\* INSERT OR IGNORE of the key.
KeysAfter(run) ==
  IF OrderOf(run) \in DOMAIN keys THEN keys ELSE Put(keys, OrderOf(run), run)

\* Mutation: the events of an earlier record are not deleted first.
EventsKept(run, path, now) ==
  [events EXCEPT ![run] = @ \cup EventRows(path, now)]

\* The run's events are deleted and written again.
EventsRecorded(run, path, now) ==
  [events EXCEPT ![run] = EventRows(path, now)]

\* The rest of persist_workflow, one transaction.
RecordCommit(c) ==
  /\ calls[c].op = "record"
  /\ LET run == calls[c].run
         path == calls[c].path
         now == calls[c].now
         status == EVENT_TARGET_STATUS[path[Len(path)]] IN
       /\ keys' = KeysAfter(run)
       /\ runs' = Put(runs, run,
                      [final_oms_status |-> status, persisted_at |-> now])
       /\ events' = EventsRecorded(run, path, now)
       /\ audit' = [audit EXCEPT ![run] =
                      {AuditRow("workflow", now, Genesis)}]
       /\ reports' = [reports EXCEPT ![run] = ReportRows(run, path, now)]
       /\ outbox' = outbox \cup {run}
  /\ calls' = [calls EXCEPT ![c] = Idle]
  /\ UNCHANGED clock

-----------------------------------------------------------------------------

\* mark_timeout takes the time and reads the run row.
MarkReadRun(c, run) ==
  /\ calls[c] = Idle
  /\ run \in DOMAIN runs
  /\ calls' = [calls EXCEPT ![c] =
       [op |-> "mark_status", run |-> run, now |-> clock,
        persisted_at |-> runs[run].persisted_at]]
  /\ UNCHANGED <<clock, tables>>

\* Mutation: the mark looks at the age of the run only.
MarkAllowedByAge(status, age) == age >= Timeout

\* What the mark asks of the status and the age it read.
MarkAllowed(status, age) ==
  /\ status \notin TERMINAL_ORDER_STATUSES
  /\ "EXPIRE" \in ALLOWED_TRANSITIONS[status]
  /\ age >= Timeout

\* It reads the last event and checks the status and the age of the run.
MarkReadStatus(c) ==
  /\ calls[c].op = "mark_status"
  /\ MarkAllowed(CurrentStatus(calls[c].run),
                 calls[c].now - calls[c].persisted_at)
  /\ calls' = [calls EXCEPT ![c] =
       [op |-> "mark_report", run |-> calls[c].run, now |-> calls[c].now,
        sequence |-> CurrentSequence(calls[c].run) + 1]]
  /\ UNCHANGED <<clock, tables>>

\* Mutation: the quantities come from the first report of the run.
FirstQuantities(run) ==
  LET first == CHOOSE x \in reports[run] :
                 \A y \in reports[run] : x.sequence <= y.sequence IN
    IF reports[run] = {} THEN <<0, 0>> ELSE <<first.cumulative, first.leaves>>

\* Cumulative and leaves quantity of the previous report, if there is one.
PreviousQuantities(run) ==
  IF reports[run] = {} THEN <<0, 0>>
  ELSE <<Newest(reports[run]).cumulative, Newest(reports[run]).leaves>>

\* It reads the key, which never goes away once it is there, and then the
\* newest report.
MarkReadReport(c) ==
  /\ calls[c].op = "mark_report"
  /\ LET run == calls[c].run IN
       /\ OrderOf(run) \in DOMAIN keys /\ keys[OrderOf(run)] = run
       /\ calls' = [calls EXCEPT ![c] =
            [op |-> "mark", run |-> run, now |-> calls[c].now,
             sequence |-> calls[c].sequence,
             quantities |-> PreviousQuantities(run)]]
  /\ UNCHANGED <<clock, tables>>

\* Mutation: no primary key on the events.
EventAlwaysFree(run, seq, type) == TRUE

\* PRIMARY KEY (workflow_run_id, event_id); the event id is made of the
\* order, the sequence and the type.  The audit and report keys are digests
\* of the event id, so they clash only with it.
EventFree(run, seq, type) ==
  ~ \E x \in events[run] : x.sequence = seq /\ x.event_type = type

\* Mutation: the run row is left as it was.
RunsUnmarked(run) == runs

\* UPDATE of the run row.
RunsMarked(run) == [runs EXCEPT ![run].final_oms_status = "EXPIRED"]

\* One transaction: the EXPIRE event, its audit event and report, and the
\* status of the run.
MarkCommit(c) ==
  /\ calls[c].op = "mark"
  /\ LET run == calls[c].run
         seq == calls[c].sequence
         now == calls[c].now
         q == calls[c].quantities IN
       /\ EventFree(run, seq, "EXPIRE")
       /\ events' = [events EXCEPT ![run] =
                       @ \cup {EventRow(seq, "EXPIRE", now)}]
       /\ audit' = [audit EXCEPT ![run] =
                      @ \cup {AuditRow("timeout", now, LatestAuditHash(run))}]
       /\ reports' = [reports EXCEPT ![run] = @ \cup
            { [ sequence |-> seq, execution_type |-> "EXPIRE",
                timestamp |-> now, cumulative |-> q[1], leaves |-> q[2] ] }]
       /\ runs' = RunsMarked(run)
  /\ calls' = [calls EXCEPT ![c] = Idle]
  /\ UNCHANGED <<clock, keys, outbox>>

-----------------------------------------------------------------------------

\* A call ends without writing: it raised, the database stayed locked, or
\* the process died before the commit.
Abandon(c) ==
  /\ calls[c] # Idle
  /\ calls' = [calls EXCEPT ![c] = Idle]
  /\ UNCHANGED <<clock, tables>>

Tick ==
  /\ clock < MaxClock
  /\ clock' = clock + 1
  /\ UNCHANGED <<tables, calls>>

Next ==
  \/ Tick
  \/ \E c \in Clients :
       \/ \E run \in Run : \E approved \in Verdicts[run] :
            RecordCheck(c, run, approved)
       \/ RecordCommit(c)
       \/ \E run \in Run : MarkReadRun(c, run)
       \/ MarkReadStatus(c)
       \/ MarkReadReport(c)
       \/ MarkCommit(c)
       \/ Abandon(c)

Spec == Init /\ [][Next]_vars

-----------------------------------------------------------------------------

Event ==
  [ sequence : Nat \ {0}, event_type : OrderEventType,
    status_after : OrderStatus, timestamp : 0 .. MaxClock ]

Report ==
  [ sequence : Nat \ {0}, execution_type : Reported,
    timestamp : 0 .. MaxClock, cumulative : Nat, leaves : Nat ]

AuditPart == {"workflow", "timeout"}

AuditEvent ==
  [ part : AuditPart, timestamp : 0 .. MaxClock,
    previous : {Genesis} \cup (AuditPart \X (0 .. MaxClock)) ]

Call ==
  {Idle}
  \cup [op : {"record"}, run : Run, path : Seq(OrderEventType),
        now : 0 .. MaxClock]
  \cup [op : {"mark_status"}, run : Run, now : 0 .. MaxClock,
        persisted_at : 0 .. MaxClock]
  \cup [op : {"mark_report"}, run : Run, now : 0 .. MaxClock,
        sequence : Nat \ {0}]
  \cup [op : {"mark"}, run : Run, now : 0 .. MaxClock,
        sequence : Nat \ {0}, quantities : Nat \X Nat]

TypeOK ==
  /\ clock \in 0 .. MaxClock
  /\ DOMAIN keys \subseteq Orders
  /\ \A o \in DOMAIN keys : keys[o] \in Run
  /\ DOMAIN runs \subseteq Run
  /\ \A run \in DOMAIN runs :
       runs[run] \in [final_oms_status : OrderStatus,
                      persisted_at : 0 .. MaxClock]
  /\ \A run \in Run : /\ events[run] \subseteq Event
                      /\ audit[run] \subseteq AuditEvent
                      /\ reports[run] \subseteq Report
  /\ outbox \subseteq Run
  /\ calls \in [Clients -> Call]

(***************************************************************************)
(* Whatever records and marks interleave, the run row carries the status   *)
(* of the run's last event: the timeout scan, which reads the row, and the *)
(* timeout mark, which reads the event, see the same order.                *)
(***************************************************************************)
HeaderMatchesLatestEvent ==
  \A run \in DOMAIN runs :
    /\ events[run] # {}
    /\ runs[run].final_oms_status = LatestEvent(run).status_after

(***************************************************************************)
(* An order expires once: two marks that both read it as open do not both  *)
(* book an EXPIRE.                                                         *)
(***************************************************************************)
ExpiresOnce ==
  \A run \in Run : \A x, y \in events[run] :
    x.event_type = "EXPIRE" /\ y.event_type = "EXPIRE" => x = y

(***************************************************************************)
(* An idempotency key stays with the run that took it.                     *)
(***************************************************************************)
KeyNeverMoves ==
  [][\A o \in DOMAIN keys : o \in DOMAIN keys' /\ keys'[o] = keys[o]]_vars

\* The risk engine answers all calls for the run alike.
Agreed(run) == \A a, b \in Verdicts[run] : a = b

(***************************************************************************)
(* The stored events of a run replay through the state machine: numbered   *)
(* without a gap or a double, each allowed by the status the one before it *)
(* left (docs/oms-state-machine.md, transition table).  When the calls for *)
(* the run get different verdicts, a stale mark may land behind the        *)
(* shorter path of a later record.                                         *)
(***************************************************************************)
EventsReplay ==
  \A run \in Run : Agreed(run) => \A x \in events[run] :
    /\ \A y \in events[run] : y.sequence = x.sequence => y = x
    /\ \/ x.sequence = 1 /\ CanApply("PENDING", x.event_type)
       \/ \E y \in events[run] :
            y.sequence = x.sequence - 1 /\ CanApply(y.status_after, x.event_type)

(***************************************************************************)
(* Execution reports account for the whole order, and what was once        *)
(* reported as filled is never taken back: cumulative quantity only grows  *)
(* along the reports, and cumulative plus leaves is the order's quantity.  *)
(***************************************************************************)
ReportsConserveQuantity ==
  \A run \in Run : Agreed(run) => \A x, y \in reports[run] :
    /\ x.cumulative + x.leaves = QuantityOf[OrderOf(run)]
    /\ x.sequence <= y.sequence => x.cumulative <= y.cumulative

(***************************************************************************)
(* What a mark checked may be wrong by the time it commits, and still an   *)
(* order that the broker filled, rejected or cancelled is never expired    *)
(* too: not by a mark that read it before it was recorded anew, and not by *)
(* one that read another verdict.                                          *)
(***************************************************************************)
EndedNeverExpires ==
  \A run \in Run : \A x, y \in events[run] :
    x.event_type = "EXPIRE" => y.event_type \notin {"FILL", "REJECT", "CANCEL"}

\* The runs of an order that are on record, or past their check and on the
\* way there, although the key is another's.
Rivals(o) ==
  { run \in Run :
      /\ OrderOf(run) = o /\ run # keys[o]
      /\ \/ run \in DOMAIN runs
         \/ \E c \in Clients : calls[c].op = "record" /\ calls[c].run = run }

(***************************************************************************)
(* Once the key of an order is on record, no further run becomes its       *)
(* rival: a second run of an order can only come from a call that had      *)
(* passed its check before the key was committed.  This is what holds of   *)
(* docs/oms-state-machine.md:47-50 for any number of callers.              *)
(***************************************************************************)
NoLateDuplicate ==
  [][\A o \in DOMAIN keys : Rivals(o)' \subseteq Rivals(o)]_vars

(***************************************************************************)
(* Followed from hash to hash, the audit events of a run are one chain     *)
(* from the genesis hash, without a fork and without a link to an event    *)
(* that is gone, although a mark stamps its event before it links it and   *)
(* records replace the events it could link to.                            *)
(***************************************************************************)
AuditChainUnforked ==
  \A run \in DOMAIN runs : \E first \in audit[run] :
    /\ first.previous = Genesis
    /\ \A x \in audit[run] \ {first} :
         \E y \in audit[run] \ {x} : x.previous = AuditHash(y)
    /\ \A x, y \in audit[run] : x.previous = y.previous => x = y

(***************************************************************************)
(* Every run the timeout scan lists has a status that EXPIRE may leave,    *)
(* and its order has a key on record: that of the run, or of a rival it    *)
(* raced with, which is itself on record.  Without a rival it can be       *)
(* marked.                                                                 *)
(***************************************************************************)
CandidatesMarkable ==
  \A run \in TimeoutCandidates :
    /\ "EXPIRE" \in ALLOWED_TRANSITIONS[CurrentStatus(run)]
    /\ OrderOf(run) \in DOMAIN keys
    /\ OrderOf(keys[OrderOf(run)]) = OrderOf(run)
    /\ keys[OrderOf(run)] \in DOMAIN runs

(***************************************************************************)
(* One paper workflow per idempotency key: no order is on record under two *)
(* runs (docs/oms-state-machine.md:47-50).  It does not hold: two calls    *)
(* may both pass the check before either takes the key.                    *)
(***************************************************************************)
DuplicateKeyRejected ==
  \A run1, run2 \in DOMAIN runs :
    OrderOf(run1) = OrderOf(run2) => run1 = run2

(***************************************************************************)
(* Read in the order the verifier reads them, the first audit event of a   *)
(* run carries the genesis hash and each later one the hash of the one     *)
(* before (docs/paper-audit-integrity-preview.md:64-65).  It does not      *)
(* hold: a mark takes its time first and links its event last, and a       *)
(* record in between puts a later event before it.                         *)
(***************************************************************************)
AuditChainIntact ==
  \A run \in Run : \A x \in audit[run] :
    LET earlier == {y \in audit[run] : AuditEarlier(y, x)} IN
      IF earlier = {} THEN x.previous = Genesis
      ELSE \E y \in earlier :
             /\ \A z \in earlier \ {y} : AuditEarlier(z, y)
             /\ x.previous = AuditHash(y)

(***************************************************************************)
(* An expired order stays expired: docs/oms-state-machine.md:38 calls the  *)
(* status terminal.                                                        *)
(***************************************************************************)
ExpiredIsTerminal ==
  [][\A run \in DOMAIN runs :
       runs[run].final_oms_status = "EXPIRED" =>
         runs'[run].final_oms_status = "EXPIRED"]_vars

=============================================================================
