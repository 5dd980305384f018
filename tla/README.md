# Verification of the TAIFEX quant trading platform

TLA+ models of the paper trading platform, the TLC runs that check them on small
instances, and TLAPS proofs of the theorems that matter most. Paths are relative
to the repository; most of the modelled code is under `src/backend/app/`.

## 1. The system

The platform is a research and paper-trading demonstrator: a FastAPI backend with
one local SQLite file, a Next.js Command Center, an offline research SDK and a
data pipeline. No broker is ever called. The parts that keep state and make
decisions are few; most of the rest builds constant or stateless responses.

| Part | State it keeps | Operations | Talks to |
| --- | --- | --- | --- |
| OMS state machine (`domain/order_state_machine.py`) | an order's status and event history, in memory | `new_order_state`, `apply_order_event` | called by the workflow; its table is used by the store |
| Paper approval store (`services/paper_approval_store.py`, `domain/paper_approval.py`) | requests and hash-chained decisions in SQLite | `create_request`, `record_decision`, queue and history reads | REST; read by the execution routes |
| Paper execution workflow (`services/paper_execution_workflow.py`, `domain/paper_execution.py`) | none: one request in, one response out | `preview` | approval history, risk rules, broker simulation, state machine |
| Paper execution store (`services/paper_execution_store.py`, `domain/paper_oms_reliability.py`) | runs, OMS events, audit events, execution reports, idempotency keys, outbox, in SQLite | `persist_workflow`, `list_timeout_candidates`, `mark_timeout`, list and status reads | the workflow's response; the audit verifier reads its tables |
| Audit integrity verifier (`services/audit_integrity_service.py`) | none | `verify` | audit events of the execution store |
| Risk rules (`domain/risk_rules.py`, `api/paper_risk_routes.py`) | a guardrail state per process | `evaluate_paper_order`, reset | the workflow |
| Broker simulation (`domain/paper_broker_simulation.py`) | none | `simulate_paper_broker_outcome` | the workflow |
| Mock backend session (`domain/mock_backend.py`) | one demo session per process: tick, signal, order, portfolio | run strategy, simulate order, reset | REST; `MockBackendDemoPanel` |
| Browser-only mock runtime (`frontend/.../browserOnlyMockRuntime.ts`) | one demo session per browser: tick, signal, order, portfolio, performance, and its copy in `localStorage` | next tick, run strategy, simulate order, reset, load, save | `BrowserOnlyMockDemoPanel` |
| Command Center page (`frontend/app/page.tsx`) | none between requests: 38 answers or fallbacks per rendering | render, refresh | fetches from every read route, each with a time limit of 2 s |
| Panels that act (`frontend/app/components/`) | form fields, what is under way, the last result or error | submit, decide, simulate, select a run, preview and mark a timeout, load an evidence file | POST and GET of their own, `router.refresh`, files of the user |
| Panels that only show | none | render an answer | props of the page |
| Allocator, exposure, reconciliation, in-memory OMS | a dictionary of orders | pure functions | library code, tests |
| Research pipeline (feature manifest, backtest preview/result/artifact/bundle, review queue/decision/packet) | none | stateless builders chained by checksums | REST |
| Registries, hosted-paper readiness, release and roadmap metadata, website, infra, scripts, data pipeline, SDK | constants, files | presentation and I/O | |

**Concurrency.** The routes are `def`, not `async def`: FastAPI runs every call on a
thread of its pool, and each call opens SQLite connections of its own. `sqlite3`
begins a transaction at the first *write* of a connection, so the SELECTs before
it see whatever is committed at that moment and nothing protects them. This is
where the hard behaviour of the system lies: reads that are stale when the write
happens, calls that are repeated, calls that stop half way, and two stores that use
separate connections to the one file, with no transaction across them.

The frontend adds a second layer of staleness. A page is a snapshot of 38 fetches
that ended at different times or not at all. Its panels keep their own state over a
`router.refresh`, act on a snapshot of any age, have several requests under way at
once, and read answers in the order in which they come. The GETs of the page end
after two seconds and those of the records viewer after five; the POSTs have no time
limit and end with an answer or with the connection.

**What makes each part correct.**

- State machine: risk approval before the broker, no fill after a cancel, expiry
  or rejection, terminal statuses final.
- Approval store: two different reviewers in fitting roles, an append-only,
  unforked hash chain, final decisions.
- Execution store: one run per idempotency key, a run row that agrees with the
  events, events that replay, quantities that add up, one expiry and none of what
  has ended, an audit chain that verifies, candidates that can be marked.
- The whole path: nothing is recorded that was not approved.
- Workflow: the order state machine never refuses an event in the middle of a call; a
  simulated fill is within size, limit and age and on an uncrossed quote, and the
  order's status agrees with it.
- Browser session: what is shown explains what became of the order, fills are
  within quote and size, the timeline follows the backend's transition table, and the
  next visit finds the session that was left.
- Mock backend session: concurrent setters lose updates but never mix sessions.
- Approval desk: nobody approves what they did not see, what is offered is approved, a
  success is on record, and a form becomes usable again.
- Command Center page: a fallback is never passed off as an answer, and a backend that
  trades live is never shown as paper.
- Viewers and panels: what is shown together belongs together, an order is marked
  after a preview and no candidate any more, a result is that of the last submission, a message about a
  file is about the file in view, and exporter, validator and view agree on which
  flags are safe.
- Verifier over several runs, guardrail state, allocator: see the plan.

## 2. Modules

| Module | Models | State |
| --- | --- | --- |
| `OrderStateMachine` | the transition table as operators | none |
| `OmsOrder` | one order under an arbitrary event stream | `status`, `history` as in `OrderState` |
| `ApprovalLifecycle` | what the approval store promises, with no log and no concurrency | status and reviewers per request |
| `PaperApproval` | the approval store under concurrent calls; implements `ApprovalLifecycle` | the two tables, and per call what it holds in memory between its read and its insert |
| `PaperExecutionStore` | the execution store under concurrent record and mark calls | a clock, the six tables, and per call what it has read so far |
| `PaperOutcome` | the events and quantities a broker outcome is booked with | none |
| `RiskRules` | the fourteen checks of the risk engine as operators | none |
| `PaperBrokerSimulation` | the quote-based broker model as operators | none |
| `PaperWorkflow` | one `preview` call, composed of the three modules above and the transition table | how far the call is, its request and policy, what it computed so far |
| `BrowserMockMarket` | the deterministic quotes of the browser demo as operators | none |
| `BrowserMockSession` | the functions that change the browser's session, and the views made of it | tick, symbol, signal, order, portfolio and performance as in `BrowserOnlyMockSession` |
| `BrowserDemoPanel` | the panel around it: mounted, restored, clicked, saved, closed | the session, `localStorage`, how far the page is, the session of the last visit |
| `MockDemoPanel` | the demo session of the backend, its panel, and another visitor | the shared session, one call of each visitor, the fields of the panel |
| `ApprovalDesk` | the forms for requests, decisions and simulations in several browsers, over `ApprovalLifecycle` | the lifecycle, the requests, decisions and runs on record, and per browser its page, its rendering, what is sent and what it waits for |
| `CommandCenterPanels` | what each panel shows of a page, with notices and colours, as operators | none |
| `CommandCenterPage` | the rendering of the page while the backend restarts and records | settings and runs of the backend, the answers so far |
| `RecordsPanel` | the viewer of recorded runs and their timelines | the runs, the selected one, the two timelines, the requests under way |
| `TimeoutPanel` | previewing and marking timeouts, and the refreshes behind | EXPIRE events, candidates, refreshes, the pending action, the actions under way |
| `BrokerPreviewPanel` | the form of the broker preview | form, result, error, the requests under way |
| `EvidencePanels` | the five viewers of exported evidence: exporter, validator, view, file reads | the file in view, the message, the files being read |
| `PaperTrading` | both stores and the record route that joins them | the variables of both, and the runs whose approval a caller has validated |
| `MC...` | values of the constants for TLC | |
| `CommandCenter` | page, viewers and demo panels in one system | their variables, and which of them moves |
| `OmsOrderProofs`, `PaperApprovalProofs`, `PaperExecutionStoreProofs`, `PaperTradingProofs`, `PaperWorkflowProofs`, `ApprovalDeskProofs`, `CommandCenterProofs`, `BrowserDemoProofs` | theorems and their proofs | |

### From code to actions

`PaperApproval`: `CreateRequest` is `create_request` (one INSERT). `record_decision`
is cut where other calls can run: `ReadAndBuild` (request and decisions read,
`validate_decision_transition`, the next record with its sequence and hashes built
in memory), then `Insert` (the row is free for `UNIQUE (approval_request_id,
sequence)`) or `InsertFails` (IntegrityError, a locked database, a crash), then
`Return` (the history is returned, or the answer is lost). A refused decision
answers 400 and changes nothing, so it is no step. Reading the request and its
decisions is one step: the request row never changes once it exists.

`PaperExecutionStore`: `persist_workflow` is `RecordCheck` (the SELECT of the
idempotency key, which raises if another run has it) and `RecordCommit` (INSERT OR
IGNORE of the key, INSERT OR REPLACE of the run, delete and rewrite of its events,
audit events and reports, the outbox item: one transaction). `mark_timeout` is
`MarkReadRun` (the time is taken, the run row read), `MarkReadStatus` (last event,
then the checks of status and age), `MarkReadReport` (the key, the newest report)
and `MarkCommit` (EXPIRE event, audit event linked to the newest hash, report,
status of the run: one transaction). The INSERT that opens this transaction takes
the write lock, so the audit hash is read inside it. `Abandon` ends a call anywhere
before its commit. `Tick` lets time pass.

`PaperTrading`: `Admit` is the read of the approval history and its validation in
`create_approval`; `Record` goes on to the store; `Decide` and `Execute` are what
the two stores do meanwhile.

`PaperWorkflow`: one action per call `preview` makes. `Refuse` and `Create` are
`create_approval` and the intent; `Apply` is `_apply_oms_event` and the same call
inside `apply_paper_broker_outcome`; `EvaluateRisk`, `SimulateBroker`, and `Book`
(gateway and outcome) pick the events to apply next. A call shares nothing with
others, so one call is the whole system here. The risk engine is called without a
state, as `preview` calls it: the checks on duplicates, daily loss and the present
position only ever see an empty past.

`BrowserMockSession`: one action per exported function that changes the session.
The panel calls one per click and replaces the session by its result, so each is one
step. Market data are a function of the tick and not a variable.

`BrowserDemoPanel`: the effects of the mount are one step, `Mount`: the first loads the
copy, the second writes the *initial* session over it, before `Restore` makes what was
loaded the session and `Save` writes that. The page may be closed between any two of
them (`Close`). One tab is open at a time; with two, the last write wins and each shows
its own session.

`MockDemoPanel`: a setter of the store is `Copy` and `Assign`, since it reads the
session, replaces fields and assigns the result without a lock. `Answer` serves the
calls that read or reset. `Elsewhere` is another visitor, who runs strategies, orders and
resets too. `Receive`, `ReceiveSession` (the fetch that follows an order)
and `ReceiveError` are the panel's; a call it gave up goes on. A signal and an order
are told apart by symbol and tick. `next_tick` of the store is called by no route.

`ApprovalDesk`: `Refresh` and `Reload` start a rendering, `Fetch` and `FetchFails` end
one of its fetches, `Show` replaces the page. `Submit` sends whatever the forms can
send from the page in view. `HandleRequest`, `HandleDecision` and `HandleSubmit` are the
backend, now or much later; the answer reaches the panel only if it still waits for
that submission. `HandleFails` is any refusal, `Disconnect` a broken connection, before
or after the backend was reached. `Elsewhere` is everybody else. The backend is
`ApprovalLifecycle`, which `PaperApproval` is shown to implement, so that races inside
the store need not be repeated here.

`CommandCenterPage`: `Request` starts the load, `Fetch` and `FetchFails` end one fetch,
`NextStage` goes from the 35 first fetches to the two event lists of the newest run, to
its reports, and to the page. `Restart` (other settings) and `Record` are the backend
meanwhile. `CommandCenterPanels` says of each section which resources it shows, for
which it has a notice, and which of its values are green or red for which settings.

`RecordsPanel`: `SelectRun` is a click; each of its two requests ends with `Answer` or the
pair with `Fail`, in any order between clicks, as `selectRun` does not look whether
its run is still the selected one. `Refresh` replaces the list and leaves the rest alone.
`TimeoutPanel`: `Click`; at the backend `Check`, then for a mark `Commit`, or `Refuse`;
`Receive` or `ReceiveError`. A mark shown asks for the page anew: `RefreshReads` at the
server, `RefreshArrives` in the browser, one refresh at a time. `Expire` and `Record` are
the other clients, who mark orders and record runs again; `Expire` is also a mark whose
connection broke before its commit.
`BrokerPreviewPanel`: `Edit` while a preview is under way. `EvidencePanels`: `Pick`
rejects a file at once or starts to read it, `Read` ends a read, in any order. Its files
are what the exporters write, and what becomes of it when one part is edited.

`CommandCenter` lets one part move in a behaviour. The parts share no state in the
browser, and each has the others' effects at the backend as its environment, so a
product of them would only repeat states.

### Abstractions

- SHA-256 is free of collisions. A decision's hash is the chain of contents it
  covers; an audit event's hash is what tells it from the others of its run; an
  order id and its idempotency key are halves of one digest, so an order stands
  for both; a run is an order and the simulation asked for, which is what its id
  digests. The id does **not** cover the age of the quote, so two calls for one run may
  get different risk verdicts; `Verdicts` says which ones.
- The audit events of one response are one block: they are written, replaced and
  chained together.
- Events of one call share a value of the clock and are ordered within it by
  sequence, as their microsecond timestamps are.
- Free text, prices, wording and the safety flags (constant `True` or `False` in
  every record) are left out.
- Prices are integers, liquidity scores tenths and exposures 1/20 of a TX contract. The
  rounding of binary fractions (`round(ask - bid, 6)`, `floor(quantity * score)`) is
  therefore exact in the model. An intent of the workflow never has a price, so
  `PriceReasonable` is always true there.
- An approval is a flag of the request in `PaperWorkflow`; `PaperTrading` models it.
- Of an answer of the backend the page keeps what can vary: the settings, whether the
  audit chain verifies, the run it is about. The rest of the metadata is constant.
- Safety flags of evidence are kept by name; the other fields of a payload are the parts
  its validator looks at, each in order or not.
- Text, language, layout, the steps of the guides and the copy buttons are left out.
- `Path` and `Filled` are the histories `preview` drives an order through and the
  quantities it books, including the partial fill of all but one contract.

## 3. Runs

Deadlock is checked except where the bounds let the system stop: `OmsOrder` ends
at `MaxEvents`, `PaperApproval` and `PaperTrading` when every request is decided (and
the clock is out), `PaperWorkflow` when its call has answered, and the frontend when
nobody may click any more.

| Run | Bounds | Shows |
| --- | --- | --- |
| `oms_order` | 8 events | `RiskBeforeBroker`, `NoLateFill`. The longest path without repetition has 6 events; 8 leave room for repeated partial fills and the MARK_UNKNOWN escape |
| `paper_approval` | 1 request, 3 reviewers, 3 calls | `DualReview`, `ChainLinked`, `AcknowledgedIsStored`, `ImplementsLifecycle`. A request takes at most two decisions, so three reviewers and three calls are one more than any race on it needs. Requests do not touch each other's rows |
| `execution_store` | 1 order, 4 simulations, 2 calls, both verdicts for the acknowledged run, clock to 3, timeout 1 | `HeaderMatchesLatestEvent`, `ExpiresOnce`, `KeyNeverMoves`, `EndedNeverExpires`, and `EventsReplay` and `ReportsConserveQuantity` for the runs whose calls agree; `AuditChainUnforked`, `CandidatesMarkable` and `NoLateDuplicate` are what is left of three promises that two callers break. Every interleaving; an order of two contracts is filled in part and can expire behind that. A broker's rejection ends an order as its cancellation does and is left to the proofs |
| `paper_trading` | 1 request, 3 reviewers, 2 deciders, 1 order, 2 simulations, 1 recorder | `RecordedIsApproved` across the two stores' connections. A second recorder multiplies the states beyond the time limit and adds no interference with the approvals, which recorders only read; the proof has any number |
| `paper_workflow` | 27576 pairs of a request and a policy | `NeverRaises`, `FillIsSound`, `MoreLiquidityNeverHurts`, `LooserPolicyNeverRefuses`. Quotes on both sides of every threshold: crossed, at and over the spread limit, fresh and stale, limits at, through and away from the touch, sizes below, at and above the order, scores below, at and above one half; exposures and quote ages at and over two limits, and a daily loss limit of 0, which refuses all |
| `approval_desk` | 1 desk next to everybody else, 1 request, 2 reviewers, 1 order, 2 submissions | `ApprovedOnSight`, `OfferedIsApproved`, `SuccessIsRecorded`, `SubmissionEnds`. Two submissions are a first one and a retry or a second form; what a second desk would do, `Elsewhere` does at any time. The three safety properties are proved for any number of each |
| `command_center`, page | 2 settings, 2 runs, 1 change of the backend during the load, 22 sets of one to three resources that are late or fail | `NothingIsSilent`, `LiveIsAlarming`. The sets cover every resource, alone or with one shown next to it; how many others fail makes no difference to a section |
| `command_center`, records | 3 runs, a list of 2, 2 clicks | `TimelinesBelongTogether`, `CalmTimelineIsChosen`. Two clicks are the race; a third run pushes the oldest, perhaps the selected one, off the list |
| `command_center`, timeouts | 2 orders, 3 actions, any number of marks and records of others | `MarkedIsGone`, `PreviewedBeforeMarked`. A preview, a mark, and one more of either order over them; a refresh that read the candidates before a commit arrives after it |
| `command_center`, preview | 3 forms, one refused, 3 submissions | `ResultIsOfLastSubmission` |
| `command_center`, evidence | 5 viewers, 2 files | `StatusTellsEvidence`, `ListsAgree`. Every flag of every list; two reads are the race |
| `command_center`, mock | 1 symbol, ticks to 2, another visitor | `SessionIsCoherent`. Two calls at once are all the routes of one panel and one visitor make |
| `command_center`, browser | quantities 0 and 5, ticks 0 to 5, 2 orders, 3 symbols | `OutcomeIsExplained`, `FillsAreConservative`, `TimelineIsLegal`, `ComesBack`. The six ticks pass through all five market regimes; the quantities fill, fill in part and are rejected |
| `command_center`, all parts | the above | `BusyEnds`: whatever the user waits for ends |
| `duplicate_key`, `audit_chain`, `expired_reopened`, `average_price`, `stale_timeline` | the smallest that show them | the findings below |

Two calls are enough for
the races of the execution store: every step of a call interferes with another call
through a committed row only, and a row of a run carries no memory of more than one
earlier writer.

### Fairness

`SubmissionEnds` and `BusyEnds` rest on weak fairness of what the browser does by
itself. A GET of the page is aborted after two seconds and one of the records viewer
after five, so it ends, with an answer or without. A POST has no time limit, but its
connection ends with an answer or an error; fairness is on the end of the connection,
and `Disconnect` or `ReceiveError` is enough for it, so the backend owes no answer and
need not be up. The rendering of the page goes on when its fetches have ended. Nobody
is obliged to click, to reload, to record or to handle what was sent.

The backend has no liveness to check. It promises no progress by itself: a timeout mark
is a manual API call ("paper timeout worker" is listed among the known gaps), a review
waits for people, and the outbox item is written as completed.

### Findings

1. **Duplicate key** (`services/paper_execution_store.py:1093`, run `duplicate_key`). The
   idempotency key is read before the write transaction begins, and `INSERT OR IGNORE`
   drops the conflict. Two concurrent calls for one order with different simulations
   both commit a run; `docs/oms-state-machine.md:47-50` says the second is rejected. The
   losing run has no key, so the timeout scan lists it and no mark can ever expire
   it. What holds is that no call which starts its check after the key was taken gets
   past it (`NoLateDuplicate`).
2. **Broken audit chain** (`:798`, `:1170`, run `audit_chain`). A mark takes its timestamp
   first and links its event to the newest hash at its commit. If its run is recorded
   again in between, its event sorts first in the verifier's order but carries the hash
   of the one behind it, not the genesis hash
   (`docs/paper-audit-integrity-preview.md:64-65`). Followed by hashes the events are a
   chain nevertheless (`AuditChainUnforked`).
3. **Reopened order** (`:169`, run `expired_reopened`). Recording the same workflow after
   a mark replaces the run and deletes its EXPIRE event: an EXPIRED order is ACCEPTED or
   FILLED again, although `docs/oms-state-machine.md:38` calls the status terminal. No
   concurrency is needed.
4. **Stale timeline** (`PaperExecutionRecordsPanel.tsx:78`, run `stale_timeline`). An
   answer is shown without looking whether its run is still selected: after two clicks
   in quick succession the slower first answer stays, under the second run. Who waits
   for one timeline before the next click sees that of the run clicked
   (`CalmTimelineIsChosen`).
5. **Average price** (`browserOnlyMockRuntime.ts:784`, run `average_price`). An order that
   reduces a position adds its value to the position's and divides by the contracts
   left: selling 4 of 5 contracts at 20000 gives an average of 180000.

Disagreements that the models show but no run is spent on:

- Dropped selection (`PaperExecutionRecordsPanel.tsx:62`). When a refresh drops the
  selected run from the list, because newer runs were recorded, the panel shows the first
  run as selected and keeps the timelines of the old one in view, with nothing under way
  and no error. Not even a reader who waits is spared, so `CalmTimelineIsChosen` speaks of
  the run that was clicked and not of the one shown as selected.
- Stale mark (`paper_execution_store.py:831`, `:846`). Status and age are checked before
  the transaction and not again: a mark can expire an order that was meanwhile recorded
  anew, at no age. It cannot expire one that has ended (`EndedNeverExpires`). The race
  also breaks the numbering of the events when the second record came to another risk
  verdict, which is why `EventsReplay` and `ReportsConserveQuantity` speak of the runs
  whose calls agree (`Agreed`).
- Unsized exposure (`domain/paper_execution.py:164`). The intent's exposure is the
  signal's; symbol and quantity are the request's, and nothing relates them. One TX
  contract under a signal of 0.25 passes every check of the risk engine although it is
  worth 1.00 by `docs/quant-workflow-standardization.md:71-78`, and
  `docs/risk-engine.md:9` rejects what exceeds the limit.
- In the browser demo an order rejected for another symbol marks the position at the
  price of tick 0 (`browserOnlyMockRuntime.ts:776`, repaired by the next tick), and
  `tx_equivalent_position` multiplies a position of mixed contracts by the ratio of the
  last one (`:796`). Its OMS panel says `duplicate_order_prevention` whatever happens.
- The Command Center names the first four missing resources only
  (`CommandCenterTabs.tsx:78`), the fallback of the audit verification says "verified"
  next to its notice, and several cards show the trading mode in green whatever it is.
  `NothingIsSilent` and `LiveIsAlarming` say what holds nevertheless: a notice or the
  banner is there, and something is red.

## 4. Proofs

TLAPS proves the following for every value of the constants.

`OmsOrderProofs`. The properties speak of the past (`history`), the guards of the present
(`status`); the inductive invariant connects them: every status says which events
its history must and must not contain (a RISK_APPROVE before any of the broker statuses,
no cancel, expiry, rejection or fill behind the open ones). `RiskBeforeBrokerSafe`,
`NoLateFillSafe` and `TerminalIsFinalSafe` follow.

`PaperApprovalProofs`. Type correctness is itself not obvious: that the rows of a
request stay numbered 1..n although `Insert` writes at whatever sequence its call
computed earlier. The inductive invariant `IInv` therefore says of a pending row:
*if* its sequence is still free, the row is a valid next row of the present ledger
(`Fresh`). The unique index lets only such rows in, so an insert is an append of a
row that is valid now, and it makes every other pending row of the request stale.
From `IInv` follow `TypeSafe`, `DualReviewSafe`, `ChainSafe`, `ReviewerOnceSafe`,
`AcknowledgedSafe`, `AppendOnlySafe`, `DecidedIsFinalSafe`, and `Refinement`: every
step of the store is a step or a stutter of `ApprovalLifecycle`. Collision freedom
of the hash is built into the model; nothing is assumed of the constants.

`PaperExecutionStoreProofs`. A mark checks and writes in different steps, so nothing
it read need hold when it commits. What saves it: a run has one broker simulation,
the only status EXPIRE can leave is the last one of the approved path of that
simulation, and hence every mark of a run, whenever it read, computes the same
sequence (`MarkSequence`). The inductive invariant `IInv` says that the events of a
run are those of some path, or of some path and that one EXPIRE event, that the run
row fits, and that pending marks hold `MarkSequence`. Had another mark of the
run committed since its last record, the primary key would refuse the second.
`HeaderMatchesSafe` and `ExpiresOnceSafe` follow, and `EndedNeverExpiresSafe`: a run with an
EXPIRE event has the path of an order that can expire, and no such path books an end of
it. `EventsReplaySafe` is for the runs whose calls get one verdict: with two, a stale mark
lands behind a shorter, rejected path. `KeyNeverMovesSafe` needs no invariant, and
`NoLateDuplicateSafe` none either: what a step adds to the rivals of an order has passed
`KeyAvailable` in that step, or had passed it and was a rival already.
`ConstantsAssumption` (the simulations are the five the API accepts, quantities and
timeout positive) is what the proofs take from the constants. None of the theorems limits
the number of callers or what they ask for.

`ReportsConserveQuantitySafe` too is for the runs whose calls agree. The report of a mark
is computed from one that may have been replaced since; but a run has one simulation, so
all its record calls write reports of the same quantities. The invariant (`ReportInv`)
says that the reports of a run are those of its approved path, after a mark with one more
that repeats the quantities of the last, and that a pending mark holds these quantities,
whenever it read them.

`AuditChainUnforkedSafe` rests on `AuditInv`: the audit rows of a run are the block of its
last record, after a mark with one more that is linked to that block. It says nothing of
their times, for in the order of times the chain does not hold (`audit_chain`).
`CandidatesMarkableSafe` rests on `KeysHold`: every order on record has its key, and the
key's run is one of that order and on record. That it is the *same* run is what
`duplicate_key` refutes.

`PaperTradingProofs`. The record route acts on an approval it read on another connection
some time ago. The invariant of the approval store carries over (its lemmas are used by
name through an instance), and one lemma of it, `DecidedStep`, says that an ended
request takes no more decisions. So an approval that was there when a run was admitted
is there while the call is on its way, when it commits, and ever after
(`RecordedIsApprovedSafe`). It takes from the constants only that every order has a
request.

`ApprovalDeskProofs`. Pages may be arbitrarily old, so the invariant says only what age
cannot spoil: an approval a page or a rendering has read is one still; a decision on its
way was on offer for the status its page showed; and the number of an attempt tells the
submissions of a desk apart, so that an answer a panel still waits for is the answer to
what it sent. `ApprovedOnSightSafe`, `OfferedIsApprovedSafe` and `SuccessIsRecordedSafe`
follow, for any number of desks, requests, reviewers and submissions. The limits of
queue and history are assumed to be natural numbers.

`PaperWorkflowProofs`. The events a call still has to apply form a queue, and the
invariant says that the transition table allows the queue from the present status on, to
the status the call expects at its end (`Applicable`, `EndsAs`). It is put there in four
places, each with one lemma; `NeverRaisesSafe` follows for every request and policy.
`FillIsSoundSafe` is the broker model by cases, carried to the end of the call by the
invariant. `MoreLiquidityNeverHurtsSafe` rests on `CapacityGrows`: the capacity is 0 without size or
score, a rounded-down product of the order's quantity below half a point of liquidity,
and the whole size above, and no step between these goes down. `LooserPolicyNeverRefusesSafe` looks at the
three of the fourteen checks whose limits the settings give; the other limits are defaults
that no policy of the routes changes. The proofs take from the
constants that requests and policies are what the request models of the API let in
(`ConstantsAssumption`).

`CommandCenterProofs`. A step of `CommandCenter` is a step of one part (`PartSteps`), so
each part has an invariant of its own, for any runs, orders, forms, settings and
bounds:

- Records: for a reader who waits, one request at most is under way, it is for the
  run clicked last, and with none under way the timelines are that run's or empty
  (`CalmInv`), whatever becomes of the list. `TimelinesBelongTogether` is inductive itself.
- Timeouts: an order shown as marked, and not recorded anew since, is expired, and what a
  refresh under way has read does not offer it unless another refresh is to follow
  (`GoneInv`); a preview in view is one the visit has seen (`MarkInv`).
- Preview: one request at most is under way, that of the last submission
  (`SubmissionInv`).
- Mock session: a session whose fields fit together, and so does every copy a setter
  holds (`Coherent`, `CallOK`); for the other half of the property, what a panel knows
  that nobody came between, at each point of its call (`AloneInv`). It needs that `None`
  is no order, which is now assumed.
- Page: `NothingIsSilentSafe` is a fact about the lists of sections, notices and
  `backendIssues`, for every set of failed fetches. `LiveIsAlarmingSafe` needs `SinceInv`:
  every answer of the first stage was given under settings the backend has had since
  the load began.
- Evidence: what is in view was let through by the validator and is the file the panel
  names (`EvidenceInv`); `ListsAgreeSafe` goes through the five kinds of evidence.

`BrowserDemoProofs`. Quotes are a function of symbol and tick, bounded by arithmetic on
the table of regimes for every tick (`Snapshot`): no bid is smaller than the largest
slippage, so a sale never comes to a negative price. An order is known by the tick it
was made at (`MadeBy`), from which everything the panels say of it follows
(`OrdersTell`). The invariant `DemoInv` carries this through the session, its copy in
`localStorage` and the copy being restored, and says which of the three agree in which
phase of a visit. `ComesBackSafe`, `FillsAreConservativeSafe`, `TimelineIsLegalSafe` and
`OutcomeIsExplainedSafe` follow for all quantities, ticks and numbers of orders. The last
section has the types of all parts (`TypeOKSafe`), which need the invariants above: an
order's record is typed because of what is known of the order.

Every safety property that a run checks is a theorem. Four of the theorems are about
properties no run spends time on any more: `TerminalIsFinalSafe`, `ReviewerOnceSafe`,
`AppendOnlySafe` and `DecidedIsFinalSafe`; `TypeSafe` and the `TypeOKSafe` of the workflow are
what the others of their modules rest on.

Model-checked only: `SubmissionEnds` and `BusyEnds`, as liveness under fairness is out of
the prover's reach. So would induction over recursive definitions be (there are none).
The five findings are counterexamples and stay with TLC.

## 5. Not modelled, and the plan

In this order:

1. What holds of a run whose calls get different verdicts: which events and reports it
   can have after a stale mark.
2. An abstract specification of the execution store, as `ApprovalLifecycle` is for the
   approvals, and the refinement.
3. `AuditIntegrity`: `verify` over several runs with single audit events, its
   duplicate check, broken links, and edits of stored rows that it must detect.
4. The guardrail state of the risk routes and its reset.
5. `Allocation`, `Reconciliation`, `ContinuousFutures` as operator modules.
6. The research review chain: what evidence and flags a decision and a packet can be
   built from.

Left out for good:

- Copy: `frontend/app/i18n.ts` (7055 lines) and `website/src/i18n/content.ts` (894 lines)
  are texts in two languages. Together they are more than a quarter of the lines that
  count as implementation, and nothing in them runs.
- `frontend/scripts/*.mjs` (some 3800 lines) look for words in source files before a
  release. They have no state and say nothing about what the program does.
- Constant metadata served over HTTP (readiness, release, roadmap). What the page shows
  of their settings is in `CommandCenterPanels`.
- Guides and steppers, language switch, layout, copy buttons, the static website.
- I/O: data pipeline, SQL migrations, infrastructure, and registries that are
  dictionaries filled once.
