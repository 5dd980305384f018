--------------------------- MODULE CommandCenter ---------------------------
(***************************************************************************)
(* The parts of the Command Center page, checked together: the rendering   *)
(* of the page, and the panels that do more than show it.                  *)
(*                                                                         *)
(* The panels keep their own state and meet only at the backend, where     *)
(* each module has the others as its environment.  So one part moves in a  *)
(* behaviour, and the initial state says which.                            *)
(***************************************************************************)
EXTENDS Naturals, Sequences

CONSTANTS
  Nothing,       \* no run, order, result, signal or answer
  \* the page
  Deployments,   \* settings the backend may be started with
  Watched,       \* resources whose fetches interleave and may fail
  PageRuns,      \* workflow runs recorded while a page is rendered
  MaxChanges,    \* bound on the changes at the backend
  \* the recorded runs
  Runs,          \* workflow runs that may be recorded
  RunLimit,      \* the limit page.tsx asks the runs with
  MaxTimelines,  \* bound on the timelines asked for in a visit
  \* timeouts
  Orders,        \* orders that are open for too long
  MaxActions,    \* bound on the previews and marks of a visit
  \* the preview of the paper broker
  Forms,         \* what the form may hold
  Accepted,      \* the forms the backend simulates
  MaxPreviews,   \* bound on the submissions of a visit
  \* evidence
  MaxPicks,      \* bound on the files chosen in a visit
  \* the mock backend demo
  Symbols,       \* symbols the visitors try
  OtherTicks,    \* ticks the other visitor has come to
  MaxMockTick,   \* bound on the ticks
  \* the browser-only demo
  Quantities,    \* quantities the visitor may type
  MaxTick,       \* bound on current_tick
  MaxOrders      \* bound on the orders of a session

VARIABLES
  part,
  \* the page
  settings, sound, recorded, changes, watched, phase, reply, since,
  \* the recorded runs
  runsRecorded, runs, selected, oms, audit, runsError, loading, runRequests,
  runClicks, calm,
  \* timeouts
  expired, candidates, refreshes, rendering, preview, mark, failed, pending,
  timeoutRequests, timeoutClicks, previewed, marked,
  \* the preview of the paper broker
  form, previewing, result, previewError, status, previewRequests,
  previewClicks,
  \* evidence
  kind, evidence, source, state, reading, picks,
  \* the mock backend demo
  session, call, tick, market, signal, order, working, mockError, alone,
  \* the browser-only demo
  current_tick, selected_symbol, latest_signal, latest_order, portfolio,
  performance, stored, restoring, demoPhase, left

page ==
  <<settings, sound, recorded, changes, watched, phase, reply, since>>
records ==
  << runsRecorded, runs, selected, oms, audit, runsError, loading,
     runRequests, runClicks, calm >>
timeout ==
  << expired, candidates, refreshes, rendering, preview, mark, failed,
     pending, timeoutRequests, timeoutClicks, previewed, marked >>
brokerPreview ==
  << form, previewing, result, previewError, status, previewRequests,
     previewClicks >>
evidences == <<kind, evidence, source, state, reading, picks>>
mock ==
  <<session, call, tick, market, signal, order, working, mockError, alone>>
browser ==
  << current_tick, selected_symbol, latest_signal, latest_order, portfolio,
     performance, stored, restoring, demoPhase, left >>
vars ==
  << part, page, records, timeout, brokerPreview, evidences, mock, browser >>

-----------------------------------------------------------------------------

Page ==
  INSTANCE CommandCenterPage WITH NoRun <- Nothing, Runs <- PageRuns

Records ==
  INSTANCE RecordsPanel WITH
    NoRun <- Nothing, MaxClicks <- MaxTimelines, recorded <- runsRecorded,
    error <- runsError, requests <- runRequests, clicks <- runClicks

Timeout ==
  INSTANCE TimeoutPanel WITH
    None <- Nothing, MaxClicks <- MaxActions,
    requests <- timeoutRequests, clicks <- timeoutClicks

Preview ==
  INSTANCE BrokerPreviewPanel WITH
    None <- Nothing, MaxClicks <- MaxPreviews, error <- previewError,
    requests <- previewRequests, clicks <- previewClicks

Evidence == INSTANCE EvidencePanels WITH None <- Nothing

MockDemo ==
  INSTANCE MockDemoPanel WITH
    None <- Nothing, MaxTick <- MaxMockTick, error <- mockError

Demo == INSTANCE BrowserDemoPanel WITH phase <- demoPhase

ASSUME ConstantsAssumption ==
  /\ Page!ConstantsAssumption
  /\ Records!ConstantsAssumption
  /\ Timeout!ConstantsAssumption
  /\ Preview!ConstantsAssumption
  /\ Evidence!ConstantsAssumption
  /\ MockDemo!ConstantsAssumption
  /\ Demo!ConstantsAssumption

-----------------------------------------------------------------------------

Part ==
  {"page", "records", "timeout", "preview", "evidence", "mock", "browser"}

Init ==
  /\ part \in Part
  /\ IF part = "page" THEN Page!Init
     ELSE /\ settings = CHOOSE s \in Deployments : TRUE
          /\ sound = TRUE /\ recorded = <<>> /\ changes = 0 /\ watched = {}
          /\ phase = "idle" /\ reply = Nothing /\ since = {}
  /\ Records!Init /\ (part # "records" => runsRecorded = <<>>)
  /\ Timeout!Init
  /\ Preview!Init /\ (part # "preview" => form = CHOOSE f \in Forms : TRUE)
  /\ Evidence!Init /\ (part # "evidence" => kind = "audit")
  /\ MockDemo!Init
  /\ Demo!PanelInit /\ (part # "browser" => stored = {})

PageMoves ==
  /\ part = "page"
  /\ UNCHANGED << part, records, timeout, brokerPreview, evidences,
                  mock, browser >>
RecordsMoves ==
  /\ part = "records"
  /\ UNCHANGED << part, page, timeout, brokerPreview, evidences,
                  mock, browser >>
TimeoutMoves ==
  /\ part = "timeout"
  /\ UNCHANGED << part, page, records, brokerPreview, evidences,
                  mock, browser >>
PreviewMoves ==
  /\ part = "preview"
  /\ UNCHANGED << part, page, records, timeout, evidences,
                  mock, browser >>
EvidenceMoves ==
  /\ part = "evidence"
  /\ UNCHANGED << part, page, records, timeout, brokerPreview,
                  mock, browser >>
MockDemoMoves ==
  /\ part = "mock"
  /\ UNCHANGED << part, page, records, timeout, brokerPreview,
                  evidences, browser >>
DemoMoves ==
  /\ part = "browser"
  /\ UNCHANGED << part, page, records, timeout, brokerPreview,
                  evidences, mock >>

Next ==
  \/ PageMoves /\ Page!Next
  \/ RecordsMoves /\ Records!Next
  \/ TimeoutMoves /\ Timeout!Next
  \/ PreviewMoves /\ Preview!Next
  \/ EvidenceMoves /\ Evidence!Next
  \/ MockDemoMoves /\ MockDemo!Next
  \/ DemoMoves /\ Demo!PanelNext

(***************************************************************************)
(* The fairness of the parts.  As one part moves, the conditions of all    *)
(* are conditions on the union of their actions: on the fetches or the     *)
(* first request of a panel, on the next stage of the page or the second   *)
(* request, on the third request.                                          *)
(***************************************************************************)
Ends(i) ==
  \/ /\ PageMoves
     /\ \/ i = 0 /\ \E r \in Page!Resource : Page!Fetch(r) \/ Page!FetchFails(r)
        \/ i = 1 /\ Page!NextStage
  \/ RecordsMoves /\ Records!RequestEnds(i)
  \/ TimeoutMoves /\ Timeout!Ends(i)
  \/ PreviewMoves /\ Preview!Ends(i)
  \/ /\ MockDemoMoves
     /\ i = 0
     /\ MockDemo!Receive \/ MockDemo!ReceiveSession \/ MockDemo!ReceiveError

RequestIds ==
  {0, 1} \cup 0..(MaxTimelines - 1) \cup 0..(MaxActions - 1)
    \cup 0..(MaxPreviews - 1)

Fairness == \A i \in RequestIds : WF_vars(Ends(i))

Spec == Init /\ [][Next]_vars /\ Fairness

-----------------------------------------------------------------------------
\* The properties of the parts, as their modules state them

TypeOK ==
  CASE part = "page"     -> Page!TypeOK
    [] part = "records"  -> Records!TypeOK
    [] part = "timeout"  -> Timeout!TypeOK
    [] part = "preview"  -> Preview!TypeOK
    [] part = "evidence" -> Evidence!TypeOK
    [] part = "mock"     -> MockDemo!TypeOK
    [] part = "browser"  -> Demo!PanelTypeOK

\* A page never passes a fallback off as an answer.
NothingIsSilent == Page!NothingIsSilent

\* A backend that trades live is not shown as paper.
LiveIsAlarming == Page!LiveIsAlarming

\* The two timelines are never those of two different runs.
TimelinesBelongTogether == Records!TimelinesBelongTogether

\* Who waits for one timeline before asking for the next sees the one asked
\* for last.
CalmTimelineIsChosen == Records!CalmTimelineIsChosen

\* An order the panel has marked is not offered again.
MarkedIsGone == Timeout!MarkedIsGone

\* What the panel marks was previewed in the same visit.
PreviewedBeforeMarked == Timeout!PreviewedBeforeMarked

\* A result is shown only for the last submission.
ResultIsOfLastSubmission == Preview!ResultIsOfLastSubmission

\* What is said of a file and what is shown of it agree.
StatusTellsEvidence == Evidence!StatusTellsEvidence

\* Exporter, validator and view agree on the safety flags.
ListsAgree == Evidence!ListsAgree

\* The shared session of the mock backend is never a mixture.
SessionIsCoherent == MockDemo!SessionIsCoherent

\* What the demo shows explains what became of the order.
OutcomeIsExplained == Demo!OutcomeIsExplained

\* The fill model of the browser is conservative.
FillsAreConservative == Demo!FillsAreConservative

\* The OMS of the browser follows the transition table of the backend.
TimelineIsLegal == Demo!TimelineIsLegal

\* The next visit shows the session that was left.
ComesBack == Demo!ComesBack

\* What the reader is waiting for: the page, a timeline, an action, a
\* preview, an answer of the mock backend.
Busy ==
  CASE part = "page"    -> phase \notin {"idle", "shown"}
    [] part = "records" -> loading
    [] part = "timeout" -> pending # Timeout!NoAction
    [] part = "preview" -> previewing
    [] part = "mock"    -> working
    [] OTHER            -> FALSE

(***************************************************************************)
(* Nothing stays busy: whatever the backend does and whatever is clicked   *)
(* meanwhile, the page is shown and a panel that waits becomes usable      *)
(* again.                                                                  *)
(***************************************************************************)
BusyEnds == Busy ~> ~Busy

=============================================================================
