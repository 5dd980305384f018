------------------------ MODULE CommandCenterProofs ------------------------
(***************************************************************************)
(* Proofs about the parts of the Command Center, for any runs, orders,     *)
(* forms, settings and bounds.                                             *)
(*                                                                         *)
(* A step of CommandCenter is a step of one part and leaves the others     *)
(* alone, so the invariants of each part are proved from its own actions.  *)
(***************************************************************************)
EXTENDS CommandCenter, TLAPS

LEMMA PartSteps ==
  ASSUME [Next]_vars
  PROVE  /\ part' = part
         /\ (part = "page" /\ Page!Next) \/ UNCHANGED page
         /\ Records!Next \/ UNCHANGED records
         /\ Timeout!Next \/ UNCHANGED timeout
         /\ Preview!Next \/ UNCHANGED brokerPreview
         /\ Evidence!Next \/ UNCHANGED evidences
         /\ MockDemo!Next \/ UNCHANGED mock
         /\ Demo!PanelNext \/ UNCHANGED browser
BY DEF Next, vars, PageMoves, RecordsMoves, TimeoutMoves, PreviewMoves,
       EvidenceMoves, MockDemoMoves, DemoMoves

-----------------------------------------------------------------------------
(* The recorded runs *)

LEMMA TogetherStep ==
  ASSUME TimelinesBelongTogether, Records!Next \/ UNCHANGED records
  PROVE  TimelinesBelongTogether'
<1> USE DEF TimelinesBelongTogether, Records!TimelinesBelongTogether
<1>1. CASE Records!Visit
  BY <1>1 DEF Records!Visit, Records!Mount
<1>2. CASE Records!Refresh
  BY <1>2 DEF Records!Refresh, Records!panel
<1>3. ASSUME NEW run, Records!Record(run) \/ Records!SelectRun(run)
      PROVE  TimelinesBelongTogether'
  BY <1>3 DEF Records!Record, Records!SelectRun, Records!panel
<1>4. ASSUME NEW request, Records!Fail(request)
      PROVE  TimelinesBelongTogether'
  BY <1>4 DEF Records!Fail, Records!ClearOnFailure
<1>5. ASSUME NEW request, NEW timeline, Records!Answer(request, timeline)
      PROVE  TimelinesBelongTogether'
  BY <1>5 DEF Records!Answer, Records!ShowWhenComplete
<1>6. CASE UNCHANGED records
  BY <1>6 DEF records
<1>7. QED
  BY <1>1, <1>2, <1>3, <1>4, <1>5, <1>6 DEF Records!Next

(***************************************************************************)
(* However the requests for the timelines overtake each other and fail,    *)
(* the panel never shows the OMS events of one run next to the audit       *)
(* events of another (selectRun, Promise.all).                             *)
(***************************************************************************)
THEOREM TimelinesBelongTogetherSafe == Spec => []TimelinesBelongTogether
<1>1. Init => TimelinesBelongTogether
  BY DEF Init, Records!Init, TimelinesBelongTogether,
         Records!TimelinesBelongTogether
<1>2. TimelinesBelongTogether /\ [Next]_vars => TimelinesBelongTogether'
  BY PartSteps, TogetherStep
<1>3. QED
  BY <1>1, <1>2, PTL DEF Spec

\* A reader who does not let requests cross has at most one under way, which
\* is for the run clicked last.
CalmInv ==
  calm =>
    /\ \A r1, r2 \in runRequests : r1 = r2
    /\ \A r \in runRequests : r.run = selected /\ ~runsError
    /\ runRequests = {} =>
         /\ {oms, audit} \subseteq {selected, Nothing}
         /\ runsError => oms = Nothing /\ audit = Nothing

LEMMA CalmStep ==
  ASSUME CalmInv, Records!Next \/ UNCHANGED records
  PROVE  CalmInv'
<1>1. CASE Records!Visit
  <2>1. /\ runRequests' = {}
        /\ runsError' = FALSE
        /\ oms' \in {selected', Nothing}
        /\ audit' \in {selected', Nothing}
    BY <1>1 DEF Records!Visit, Records!Mount
  <2>2. QED
    BY <2>1 DEF CalmInv
<1>2. ASSUME NEW run, Records!Refresh \/ Records!Record(run)
      PROVE  CalmInv'
  BY <1>2 DEF Records!Refresh, Records!Record, Records!panel, CalmInv
<1>3. ASSUME NEW run, Records!SelectRun(run)
      PROVE  CalmInv'
  <2> DEFINE request == [id |-> runClicks, run |-> run,
                         missing |-> Records!Timeline]
  <2>1. /\ selected' = run /\ runsError' = FALSE
        /\ runRequests' = runRequests \cup {request}
        /\ calm' = (calm /\ runRequests = {})
    BY <1>3 DEF Records!SelectRun
  <2>2. request.run = run
    OBVIOUS
  <2> HIDE DEF request
  <2>3. QED
    BY <2>1, <2>2 DEF CalmInv
<1>4. ASSUME NEW request \in runRequests, Records!Fail(request)
      PROVE  CalmInv'
  BY <1>4 DEF Records!Fail, Records!ClearOnFailure, CalmInv
<1>5. ASSUME NEW request \in runRequests, NEW timeline,
             Records!Answer(request, timeline)
      PROVE  CalmInv'
  <2>1. UNCHANGED <<selected, runsError, calm>>
    BY <1>5 DEF Records!Answer
  <2>2. calm => runRequests = {request} /\ request.run = selected /\ ~runsError
    BY DEF CalmInv
  <2>3. CASE request.missing = {timeline}
    <3>1. /\ runRequests' = runRequests \ {request}
          /\ oms' = request.run /\ audit' = request.run
      BY <1>5, <2>3 DEF Records!Answer, Records!ShowWhenComplete
    <3>2. QED
      BY <2>1, <2>2, <3>1 DEF CalmInv
  <2>4. CASE request.missing # {timeline}
    <3> DEFINE rest == [request EXCEPT !.missing = @ \ {timeline}]
    <3>1. runRequests' = (runRequests \ {request}) \cup {rest}
      BY <1>5, <2>4 DEF Records!Answer
    <3>2. rest.run = request.run
      OBVIOUS
    <3> HIDE DEF rest
    <3>3. QED
      BY <2>1, <2>2, <3>1, <3>2 DEF CalmInv
  <2>5. QED
    BY <2>3, <2>4
<1>6. CASE UNCHANGED records
  BY <1>6 DEF records, CalmInv
<1>7. QED
  BY <1>1, <1>2, <1>3, <1>4, <1>5, <1>6 DEF Records!Next

(***************************************************************************)
(* A reader who waits for one timeline before asking for the next sees     *)
(* that of the run clicked last or none, and none after an error, over     *)
(* visits, failures, refreshes and newly recorded runs (selectRun).        *)
(***************************************************************************)
THEOREM CalmTimelineIsChosenSafe == Spec => []CalmTimelineIsChosen
<1>1. Init => CalmInv
  BY DEF Init, Records!Init, CalmInv
<1>2. CalmInv /\ [Next]_vars => CalmInv'
  BY PartSteps, CalmStep
<1>3. CalmInv => CalmTimelineIsChosen
  BY DEF CalmInv, CalmTimelineIsChosen, Records!CalmTimelineIsChosen
<1>4. QED
  BY <1>1, <1>2, <1>3, PTL DEF Spec

-----------------------------------------------------------------------------
(* Timeouts *)

\* A marked order is expired; a refresh that could still offer it is
\* followed by another one.
GoneInv ==
  /\ refreshes \in Nat
  /\ marked \subseteq expired
  /\ refreshes = 0 => \A seen \in rendering : marked \cap seen = {}
  /\ MarkedIsGone

\* A preview in view has been seen, and so has one of every mark under way.
MarkInv ==
  /\ preview # Nothing => preview \in previewed
  /\ PreviewedBeforeMarked

LEMMA GoneStep ==
  ASSUME GoneInv, Timeout!Next \/ UNCHANGED timeout
  PROVE  GoneInv'
<1> USE DEF GoneInv, MarkedIsGone, Timeout!MarkedIsGone
<1>1. CASE Timeout!Visit
  BY <1>1 DEF Timeout!Visit
<1>2. CASE Timeout!RefreshReads
  <2>1. PICK seen \in SUBSET (Orders \ expired) : rendering' = {seen}
    BY <1>2 DEF Timeout!RefreshReads, Timeout!Candidates
  <2>2. /\ refreshes > 0 /\ refreshes' = refreshes - 1
        /\ UNCHANGED <<expired, marked>>
    BY <1>2 DEF Timeout!RefreshReads, Timeout!visit
  <2>3. QED
    BY <2>1, <2>2
<1>3. CASE Timeout!RefreshArrives
  BY <1>3 DEF Timeout!RefreshArrives, Timeout!visit
<1>4. ASSUME NEW o,
             Timeout!Expire(o)
               \/ \E action \in {"preview", "mark"} : Timeout!Click(action, o)
      PROVE  GoneInv'
  BY <1>4 DEF Timeout!Expire, Timeout!Click, Timeout!page, Timeout!visit
<1>5. ASSUME NEW o, Timeout!Record(o)
      PROVE  GoneInv'
  BY <1>5 DEF Timeout!Record, Timeout!page
<1>6. ASSUME NEW r, Timeout!Check(r) \/ Timeout!Commit(r) \/ Timeout!Refuse(r)
      PROVE  GoneInv'
  <2>1. /\ UNCHANGED <<candidates, refreshes, rendering, marked>>
        /\ expired \subseteq expired'
    BY <1>6 DEF Timeout!Check, Timeout!Commit, Timeout!Refuse,
                Timeout!Proceeds, Timeout!page
  <2>2. QED
    BY <2>1
<1>7. ASSUME NEW r, Timeout!Receive(r)
      PROVE  GoneInv'
  <2>1. UNCHANGED <<expired, candidates, rendering>>
    BY <1>7 DEF Timeout!Receive
  <2>2. CASE r.action = "mark"
    <3>1. /\ marked' = marked \cup ({r.order} \cap expired)
          /\ refreshes' = refreshes + 1
      BY <1>7, <2>2 DEF Timeout!Receive, Timeout!RefreshesAfter
    <3>2. QED
      BY <2>1, <3>1
  <2>3. CASE r.action # "mark"
    <3>1. UNCHANGED <<marked, refreshes>>
      BY <1>7, <2>3 DEF Timeout!Receive, Timeout!RefreshesAfter
    <3>2. QED
      BY <2>1, <3>1
  <2>4. QED
    BY <2>2, <2>3
<1>8. ASSUME NEW r, Timeout!ReceiveError(r)
      PROVE  GoneInv'
  BY <1>8 DEF Timeout!ReceiveError, Timeout!page
<1>9. CASE UNCHANGED timeout
  BY <1>9 DEF timeout
<1>10. QED
  BY <1>1, <1>2, <1>3, <1>4, <1>5, <1>6, <1>7, <1>8, <1>9 DEF Timeout!Next

LEMMA MarkStep ==
  ASSUME ConstantsAssumption, MarkInv,
         Timeout!Next \/ UNCHANGED timeout
  PROVE  MarkInv'
<1> USE DEF MarkInv, PreviewedBeforeMarked, Timeout!PreviewedBeforeMarked
<1>1. ASSUME NEW o \in Orders, NEW action \in {"preview", "mark"},
             Timeout!Click(action, o)
      PROVE  MarkInv'
  <2> DEFINE request == [ id |-> timeoutClicks, action |-> action,
                          order |-> o, outcome |-> "sent" ]
  <2>1. /\ timeoutRequests' = timeoutRequests \cup {request}
        /\ UNCHANGED <<preview, previewed>>
        /\ action = "mark" => preview = o
    BY <1>1 DEF Timeout!Click, Timeout!Enabled,
                Timeout!IsPreviewForCandidate
  <2>2. request.action = action /\ request.order = o
    OBVIOUS
  <2>3. o # Nothing
    BY DEF ConstantsAssumption, Timeout!ConstantsAssumption
  <2> HIDE DEF request
  <2>4. QED
    BY <2>1, <2>2, <2>3
<1>2. ASSUME NEW r \in timeoutRequests, NEW outcome,
             timeoutRequests' = (timeoutRequests \ {r})
                                  \cup {[r EXCEPT !.outcome = outcome]},
             UNCHANGED <<preview, previewed>>
      PROVE  MarkInv'
  <2> DEFINE request == [r EXCEPT !.outcome = outcome]
  <2>1. request.action = r.action /\ request.order = r.order
    OBVIOUS
  <2>2. timeoutRequests' = (timeoutRequests \ {r}) \cup {request}
    BY <1>2
  <2> HIDE DEF request
  <2>3. QED
    BY <1>2, <2>1, <2>2
<1>3. ASSUME NEW r \in timeoutRequests,
             Timeout!Check(r) \/ Timeout!Commit(r) \/ Timeout!Refuse(r)
      PROVE  MarkInv'
  <2>1. \E outcome : Timeout!Proceeds(r, outcome)
    BY <1>3 DEF Timeout!Check, Timeout!Commit, Timeout!Refuse
  <2>2. QED
    BY <1>2, <2>1 DEF Timeout!Proceeds, Timeout!panel
<1>4. ASSUME NEW r \in timeoutRequests, Timeout!Receive(r)
      PROVE  MarkInv'
  BY <1>4 DEF Timeout!Receive
<1>5. ASSUME NEW r \in timeoutRequests, Timeout!ReceiveError(r)
      PROVE  MarkInv'
  BY <1>5 DEF Timeout!ReceiveError
<1>6. CASE Timeout!Visit
  BY <1>6 DEF Timeout!Visit
<1>7. CASE Timeout!RefreshReads \/ Timeout!RefreshArrives
             \/ \E o \in Orders : Timeout!Expire(o) \/ Timeout!Record(o)
  BY <1>7 DEF Timeout!RefreshReads, Timeout!RefreshArrives, Timeout!Expire,
              Timeout!Record, Timeout!panel, Timeout!visit
<1>8. CASE UNCHANGED timeout
  BY <1>8 DEF timeout
<1>9. QED
  BY <1>1, <1>3, <1>4, <1>5, <1>6, <1>7, <1>8 DEF Timeout!Next

(***************************************************************************)
(* When no refresh is left to come, no candidate is an order whose mark    *)
(* was shown in this visit, however marks, refreshes, marks of others and  *)
(* new records interleave; unless it was recorded anew since               *)
(* (markTimeout, router.refresh, list_timeout_candidates).                 *)
(***************************************************************************)
THEOREM MarkedIsGoneSafe == Spec => []MarkedIsGone
<1>1. Init => GoneInv
  BY DEF Init, Timeout!Init, GoneInv, MarkedIsGone, Timeout!MarkedIsGone
<1>2. GoneInv /\ [Next]_vars => GoneInv'
  BY PartSteps, GoneStep
<1>3. GoneInv => MarkedIsGone
  BY DEF GoneInv
<1>4. QED
  BY <1>1, <1>2, <1>3, PTL DEF Spec

(***************************************************************************)
(* Every order a visit marks, it has shown a preview of, over late answers *)
(* and refreshed candidates (isPreviewForCandidate).                       *)
(***************************************************************************)
THEOREM PreviewedBeforeMarkedSafe == Spec => []PreviewedBeforeMarked
<1>1. Init => MarkInv
  BY DEF Init, Timeout!Init, MarkInv, PreviewedBeforeMarked,
         Timeout!PreviewedBeforeMarked
<1>2. MarkInv /\ [Next]_vars => MarkInv'
  BY ConstantsAssumption, PartSteps, MarkStep
<1>3. MarkInv => PreviewedBeforeMarked
  BY DEF MarkInv
<1>4. QED
  BY <1>1, <1>2, <1>3, PTL DEF Spec

-----------------------------------------------------------------------------
(* The preview of the paper broker *)

(***************************************************************************)
(* One request is under way at most, that of the last submission; nothing  *)
(* is shown meanwhile, and what is shown afterwards is its result.         *)
(***************************************************************************)
SubmissionInv ==
  /\ \A r1, r2 \in previewRequests : r1 = r2
  /\ \A r \in previewRequests :
       previewing /\ r.form = previewClicks.last
  /\ previewRequests # {} => result = Nothing /\ ~previewError
  /\ result # Nothing =>
       /\ previewing = FALSE /\ previewError = FALSE
       /\ status = "ready" /\ result = previewClicks.last

LEMMA SubmissionStep ==
  ASSUME SubmissionInv, Preview!Next \/ UNCHANGED brokerPreview
  PROVE  SubmissionInv'
<1> USE DEF SubmissionInv
<1>1. CASE Preview!Edit
  BY <1>1 DEF Preview!Edit
<1>2. CASE Preview!Submit
  BY <1>2 DEF Preview!Submit, Preview!Enabled
<1>3. ASSUME NEW r \in previewRequests, Preview!Receive(r)
      PROVE  SubmissionInv'
  BY <1>3 DEF Preview!Receive
<1>4. ASSUME NEW r \in previewRequests, Preview!ReceiveError(r)
      PROVE  SubmissionInv'
  BY <1>4 DEF Preview!ReceiveError, Preview!PreviewingAfter
<1>5. CASE UNCHANGED brokerPreview
  BY <1>5 DEF brokerPreview
<1>6. QED
  BY <1>1, <1>2, <1>3, <1>4, <1>5 DEF Preview!Next

(***************************************************************************)
(* A result in view is that of the last submission, without an error or a  *)
(* preview under way next to it, although the form is edited meanwhile     *)
(* (previewSimulation).                                                    *)
(***************************************************************************)
THEOREM ResultIsOfLastSubmissionSafe == Spec => []ResultIsOfLastSubmission
<1>1. Init => SubmissionInv
  BY DEF Init, Preview!Init, SubmissionInv
<1>2. SubmissionInv /\ [Next]_vars => SubmissionInv'
  BY PartSteps, SubmissionStep
<1>3. SubmissionInv => ResultIsOfLastSubmission
  BY DEF SubmissionInv, ResultIsOfLastSubmission,
         Preview!ResultIsOfLastSubmission, Preview!View
<1>4. QED
  BY <1>1, <1>2, <1>3, PTL DEF Spec

-----------------------------------------------------------------------------
(* The mock backend demo *)

Sessions ==
  [ current_tick : 0..MaxMockTick, market_data : 0..MaxMockTick,
    latest_signal : MockDemo!Ids \cup {Nothing},
    latest_order : MockDemo!Ids \cup {Nothing},
    portfolio : MockDemo!Ids \cup {Nothing} ]

\* A session whose fields fit together.
Coherent(s) ==
  /\ s \in Sessions
  /\ s.market_data = s.current_tick
  /\ s.portfolio = s.latest_order
  /\ s.latest_order # Nothing => s.latest_signal # Nothing

Calls ==
  [ kind : {"none", "load", "tick", "strategy", "order", "reset", "refetch"},
    id : MockDemo!Ids \cup {Nothing}, sent : MockDemo!Ids \cup {Nothing},
    at : {"sent", "copied", "handled"}, session : Sessions \cup {Nothing} ]

\* A call carries what its kind asks for, and a session that fits together.
CallOK(c) ==
  /\ c \in Calls
  /\ c.kind \in {"strategy", "order"} => c.id \in MockDemo!Ids
  /\ c.kind = "order" => c.sent \in MockDemo!Ids
  /\ c.at = "copied" =>
       c.kind \in {"strategy", "order"} /\ Coherent(c.session)
  /\ c.at = "handled" =>
       /\ c.kind \notin {"none", "refetch"}
       /\ c.kind = "load" => Coherent(c.session)
       /\ c.kind = "reset" => c.session = MockDemo!NewSession

MockTypeInv ==
  /\ Coherent(session)
  /\ call \in [MockDemo!Visitors -> Calls]
  /\ \A v \in MockDemo!Visitors : CallOK(call[v])
  /\ tick \in 1..MaxMockTick
  /\ call["panel"].kind = "tick" => tick < MaxMockTick
  /\ market \in (0..MaxMockTick) \cup {Nothing}
  /\ signal \in MockDemo!Ids \cup {Nothing}
  /\ order \in MockDemo!Ids \cup {Nothing}

\* What a panel knows that nobody else came between, as its call gets on.
Alone(c, s, shown) ==
  /\ c.kind \in {"none", "tick", "strategy", "refetch"} =>
       shown = s.latest_order
  /\ c.kind = "strategy" /\ c.at = "copied" =>
       c.session.latest_order = s.latest_order
  /\ c.at = "handled" =>
       /\ c.kind = "load" => c.session.latest_order = s.latest_order
       /\ c.kind = "order" => s.latest_order = c.id
       /\ c.kind = "reset" => s.latest_order = Nothing

AloneInv ==
  /\ working \in BOOLEAN
  /\ working = FALSE => call["panel"] = MockDemo!Idle
  /\ alone => /\ call["other"] = MockDemo!Idle
              /\ Alone(call["panel"], session, order)

LEMMA SettersCoherent ==
  ASSUME NEW s, Coherent(s), NEW id \in MockDemo!Ids,
         NEW sent \in MockDemo!Ids, Nothing \notin MockDemo!Ids
  PROVE  /\ Coherent(MockDemo!SetOrder(s, id, sent))
         /\ MockDemo!SetOrder(s, id, sent).latest_order = id
         /\ Coherent(MockDemo!SetSignal(s, id))
         /\ MockDemo!SetSignal(s, id).latest_order = s.latest_order
<1>1. id[2] \in 0..MaxMockTick
  BY DEF MockDemo!Ids
<1>2. QED
  BY <1>1 DEF Coherent, Sessions, MockDemo!SetOrder, MockDemo!SetSignal

LEMMA CallsOK ==
  ASSUME NEW asked \in {"none", "load", "tick", "strategy", "order",
                        "reset", "refetch"},
         NEW id \in MockDemo!Ids \cup {Nothing},
         NEW sent \in MockDemo!Ids \cup {Nothing},
         asked \in {"strategy", "order"} => id # Nothing,
         asked = "order" => sent # Nothing
  PROVE  /\ CallOK(MockDemo!Call(asked, id, sent))
         /\ MockDemo!Call(asked, id, sent).kind = asked
         /\ MockDemo!Call(asked, id, sent).at = "sent"
BY DEF CallOK, Calls, MockDemo!Call

LEMMA MockConstants ==
  ASSUME ConstantsAssumption
  PROVE  /\ MaxMockTick \in Nat \ {0}
         /\ Nothing \notin MockDemo!Ids
         /\ \A symbol \in Symbols :
              /\ \A t \in OtherTicks : <<symbol, t>> \in MockDemo!Ids
              /\ \A t \in 1..MaxMockTick : <<symbol, t>> \in MockDemo!Ids
BY DEF ConstantsAssumption, MockDemo!ConstantsAssumption, MockDemo!Ids

\* One call changes, to one that is in order.
LEMMA OneCallChanges ==
  ASSUME MockTypeInv, NEW v \in MockDemo!Visitors, NEW c, CallOK(c),
         call' = [call EXCEPT ![v] = c]
  PROVE  /\ call' \in [MockDemo!Visitors -> Calls]
         /\ \A w \in MockDemo!Visitors : CallOK(call'[w])
         /\ call'[v] = c
         /\ \A w \in MockDemo!Visitors \ {v} : call'[w] = call[w]
BY DEF MockTypeInv, CallOK

LEMMA MockInit ==
  ASSUME ConstantsAssumption, MockDemo!Init
  PROVE  MockTypeInv /\ AloneInv
<1>1. /\ CallOK(MockDemo!Load) /\ CallOK(MockDemo!Idle)
      /\ MockDemo!Load.kind = "load" /\ MockDemo!Load.at = "sent"
  BY CallsOK DEF MockDemo!Load, MockDemo!Idle
<1>2. Coherent(MockDemo!NewSession)
  BY DEF ConstantsAssumption, MockDemo!ConstantsAssumption, Coherent,
         Sessions, MockDemo!NewSession
<1>3. /\ call \in [MockDemo!Visitors -> Calls]
      /\ call["panel"] = MockDemo!Load /\ call["other"] = MockDemo!Idle
      /\ MockDemo!Visitors = {"panel", "other"}
  BY <1>1 DEF MockDemo!Init, MockDemo!Visitors, CallOK
<1>4. QED
  BY <1>1, <1>2, <1>3, MockConstants
     DEF MockDemo!Init, MockTypeInv, AloneInv, Alone

\* The panel begins a call.
LEMMA BeginStep ==
  ASSUME MockTypeInv, AloneInv, ConstantsAssumption,
         NEW asked \in {"tick", "strategy", "order", "reset"},
         NEW id \in MockDemo!Ids \cup {Nothing},
         NEW sent \in MockDemo!Ids \cup {Nothing},
         asked \in {"strategy", "order"} => id # Nothing,
         asked = "order" => sent # Nothing,
         asked = "tick" => tick < MaxMockTick,
         MockDemo!Begin(asked, id, sent)
  PROVE  MockTypeInv' /\ AloneInv'
<1> DEFINE c == MockDemo!Call(asked, id, sent)
<1>1. /\ CallOK(c) /\ c.kind = asked /\ c.at = "sent"
      /\ "panel" \in MockDemo!Visitors /\ "other" \in MockDemo!Visitors
  BY CallsOK DEF MockDemo!Visitors
<1>2. /\ call' = [call EXCEPT !["panel"] = c]
      /\ UNCHANGED <<session, tick, market, signal, order>>
  BY DEF MockDemo!Begin
<1>3. working' = TRUE /\ ~working /\ alone' = alone
  BY DEF MockDemo!Begin
<1>4. call["panel"].kind = "none"
  BY <1>3 DEF AloneInv, MockDemo!Idle, MockDemo!Call
<1> HIDE DEF c
<1>5. /\ call' \in [MockDemo!Visitors -> Calls]
      /\ \A w \in MockDemo!Visitors : CallOK(call'[w])
      /\ call'["panel"] = c /\ call'["other"] = call["other"]
  BY <1>1, <1>2, OneCallChanges
<1>6. MockTypeInv'
  BY <1>1, <1>2, <1>5 DEF MockTypeInv
<1>7. Alone(call["panel"], session, order) => Alone(c, session, order)
  BY <1>1, <1>4 DEF Alone
<1>8. QED
  BY <1>2, <1>3, <1>5, <1>6, <1>7 DEF AloneInv

LEMMA CopyStep ==
  ASSUME MockTypeInv, AloneInv, NEW v \in MockDemo!Visitors,
         MockDemo!Copy(v)
  PROVE  MockTypeInv' /\ AloneInv'
<1> DEFINE c == [call[v] EXCEPT !.at = "copied", !.session = session]
<1>1. call[v] \in Calls /\ CallOK(call[v]) /\ Coherent(session)
  BY DEF MockTypeInv
<1>2. call[v].kind \in {"strategy", "order"} /\ call[v].at = "sent"
  BY DEF MockDemo!Copy
<1>3. /\ c \in Calls /\ c.kind = call[v].kind /\ c.id = call[v].id
      /\ c.sent = call[v].sent /\ c.at = "copied" /\ c.session = session
  BY <1>1 DEF Calls, Coherent
<1>4. CallOK(c)
  BY <1>1, <1>2, <1>3 DEF CallOK
<1>5. /\ call' = [call EXCEPT ![v] = c]
      /\ UNCHANGED <<session, MockDemo!panel>>
  BY DEF MockDemo!Copy, MockTypeInv
<1> HIDE DEF c
<1>6. /\ call' \in [MockDemo!Visitors -> Calls]
      /\ \A w \in MockDemo!Visitors : CallOK(call'[w])
      /\ call'[v] = c
      /\ \A w \in MockDemo!Visitors \ {v} : call'[w] = call[w]
  BY <1>4, <1>5, OneCallChanges
<1>7. v \in {"panel", "other"} /\ "panel" \in MockDemo!Visitors
  BY DEF MockDemo!Visitors
<1>8. call'["panel"] = call["panel"]
        \/ call'["panel"].kind \in {"strategy", "order"}
  BY <1>2, <1>3, <1>6, <1>7
<1>9. MockTypeInv'
  BY <1>5, <1>6, <1>8 DEF MockTypeInv, MockDemo!panel
<1>10. call[v] # MockDemo!Idle
  BY <1>2 DEF MockDemo!Idle, MockDemo!Call
<1>11. ASSUME v = "panel", Alone(call["panel"], session, order)
       PROVE  Alone(c, session, order)
  BY <1>2, <1>3, <1>11 DEF Alone
<1>12. QED
  BY <1>5, <1>6, <1>7, <1>9, <1>10, <1>11
     DEF AloneInv, MockDemo!panel, MockDemo!Visitors

LEMMA AssignStep ==
  ASSUME MockTypeInv, AloneInv, ConstantsAssumption,
         NEW v \in MockDemo!Visitors, MockDemo!Assign(v)
  PROVE  MockTypeInv' /\ AloneInv'
<1> DEFINE c == [call[v] EXCEPT !.at = "handled", !.session = Nothing]
<1>1. call[v] \in Calls /\ CallOK(call[v]) /\ call[v].at = "copied"
  BY DEF MockTypeInv, MockDemo!Assign
<1>2. /\ call[v].kind \in {"strategy", "order"}
      /\ Coherent(call[v].session)
      /\ call[v].id \in MockDemo!Ids
  BY <1>1 DEF CallOK
<1>3. /\ c \in Calls /\ c.kind = call[v].kind /\ c.id = call[v].id
      /\ c.sent = call[v].sent /\ c.at = "handled"
  BY <1>1 DEF Calls
<1>4. CallOK(c)
  BY <1>1, <1>2, <1>3 DEF CallOK
<1>5. /\ call' = [call EXCEPT ![v] = c]
      /\ UNCHANGED MockDemo!panel
  BY DEF MockDemo!Assign, MockTypeInv
<1> HIDE DEF c
<1>6. /\ call' \in [MockDemo!Visitors -> Calls]
      /\ \A w \in MockDemo!Visitors : CallOK(call'[w])
      /\ call'[v] = c
      /\ \A w \in MockDemo!Visitors \ {v} : call'[w] = call[w]
  BY <1>4, <1>5, OneCallChanges
<1>7. /\ v \in {"panel", "other"}
      /\ "panel" \in MockDemo!Visitors /\ "other" \in MockDemo!Visitors
  BY DEF MockDemo!Visitors
<1>8. /\ Coherent(session')
      /\ call[v].kind = "order" => session'.latest_order = call[v].id
      /\ call[v].kind = "strategy" =>
           session'.latest_order = call[v].session.latest_order
  <2>1. CASE call[v].kind = "order"
    <3>1. session' = MockDemo!SetOrder(call[v].session, call[v].id,
                                       call[v].sent)
      BY <2>1 DEF MockDemo!Assign
    <3>2. call[v].sent \in MockDemo!Ids
      BY <1>1, <2>1 DEF CallOK
    <3>3. QED
      BY <1>2, <2>1, <3>1, <3>2, SettersCoherent, MockConstants
  <2>2. CASE call[v].kind = "strategy"
    <3>1. session' = MockDemo!SetSignal(call[v].session, call[v].id)
      BY <2>2 DEF MockDemo!Assign
    <3>2. QED
      BY <1>2, <2>2, <3>1, SettersCoherent, MockConstants
  <2>3. QED
    BY <1>2, <2>1, <2>2
<1>9. MockTypeInv'
  <2>1. call'["panel"].kind = call["panel"].kind
    BY <1>3, <1>6, <1>7
  <2>2. QED
    BY <1>5, <1>6, <1>8, <2>1 DEF MockTypeInv, MockDemo!panel
<1>10. call[v] # MockDemo!Idle
  BY <1>1 DEF MockDemo!Idle, MockDemo!Call
<1>11. ASSUME v = "panel", Alone(call["panel"], session, order)
       PROVE  Alone(c, session', order)
  BY <1>1, <1>2, <1>3, <1>8, <1>11 DEF Alone
<1>12. QED
  BY <1>5, <1>6, <1>7, <1>9, <1>10, <1>11 DEF AloneInv, MockDemo!panel

LEMMA AnswerStep ==
  ASSUME MockTypeInv, AloneInv, ConstantsAssumption,
         NEW v \in MockDemo!Visitors, MockDemo!Answer(v)
  PROVE  MockTypeInv' /\ AloneInv'
<1> DEFINE answer == IF call[v].kind = "tick" THEN Nothing ELSE session'
           c == [call[v] EXCEPT !.at = "handled", !.session = answer]
<1>1. /\ call[v] \in Calls /\ CallOK(call[v]) /\ Coherent(session)
      /\ call[v].kind \in {"load", "tick", "reset"} /\ call[v].at = "sent"
      /\ session' = IF call[v].kind = "reset"
                      THEN MockDemo!NewSession ELSE session
  BY DEF MockTypeInv, MockDemo!Answer
<1>2. Coherent(session')
  <2>1. Coherent(MockDemo!NewSession)
    BY MockConstants DEF Coherent, Sessions, MockDemo!NewSession
  <2>2. QED
    BY <1>1, <2>1
<1>3. /\ c \in Calls /\ c.kind = call[v].kind /\ c.id = call[v].id
      /\ c.sent = call[v].sent /\ c.at = "handled"
      /\ c.kind # "tick" => c.session = session'
  BY <1>1, <1>2 DEF Calls, Coherent
<1>4. CallOK(c)
  BY <1>1, <1>2, <1>3 DEF CallOK
<1>5. /\ call' = [call EXCEPT ![v] = c]
      /\ UNCHANGED MockDemo!panel
  BY DEF MockDemo!Answer, MockTypeInv
<1> HIDE DEF c
<1>6. /\ call' \in [MockDemo!Visitors -> Calls]
      /\ \A w \in MockDemo!Visitors : CallOK(call'[w])
      /\ call'[v] = c
      /\ \A w \in MockDemo!Visitors \ {v} : call'[w] = call[w]
  BY <1>4, <1>5, OneCallChanges
<1>7. /\ v \in {"panel", "other"}
      /\ "panel" \in MockDemo!Visitors /\ "other" \in MockDemo!Visitors
  BY DEF MockDemo!Visitors
<1>8. MockTypeInv'
  <2>1. call'["panel"].kind = call["panel"].kind
    BY <1>3, <1>6, <1>7
  <2>2. QED
    BY <1>2, <1>5, <1>6, <2>1 DEF MockTypeInv, MockDemo!panel
<1>9. call[v] # MockDemo!Idle
  BY <1>1 DEF MockDemo!Idle, MockDemo!Call
<1>10. ASSUME v = "panel", Alone(call["panel"], session, order)
       PROVE  Alone(c, session', order)
  BY <1>1, <1>3, <1>10 DEF Alone, MockDemo!NewSession
<1>11. QED
  BY <1>5, <1>6, <1>7, <1>8, <1>9, <1>10 DEF AloneInv, MockDemo!panel

LEMMA ReceiveStep ==
  ASSUME MockTypeInv, AloneInv, ConstantsAssumption, MockDemo!Receive
  PROVE  MockTypeInv' /\ AloneInv'
<1> DEFINE c == call["panel"]
           asked == IF c.kind = "order" THEN "refetch" ELSE "none"
           next == MockDemo!Call(asked, Nothing, Nothing)
<1>1. /\ CallOK(c) /\ c \in Calls /\ c.at = "handled" /\ Coherent(session)
      /\ "panel" \in MockDemo!Visitors /\ "other" \in MockDemo!Visitors
  BY DEF MockTypeInv, MockDemo!Receive, MockDemo!Visitors
<1>2. /\ c.kind \in {"load", "tick", "strategy", "order", "reset"}
      /\ c.kind \in {"strategy", "order"} => c.id \in MockDemo!Ids
      /\ c.kind = "load" => Coherent(c.session)
      /\ c.kind = "reset" => c.session = MockDemo!NewSession
  BY <1>1 DEF CallOK, Calls
<1>3. /\ call' = [call EXCEPT !["panel"] = next]
      /\ UNCHANGED <<session, alone>>
  BY DEF MockDemo!Receive, MockDemo!Idle
<1>4. /\ CallOK(next) /\ next.kind = asked /\ next.at = "sent"
      /\ next.kind \in {"refetch", "none"}
  BY CallsOK
<1>5. /\ tick' \in 1..MaxMockTick
      /\ market' \in (0..MaxMockTick) \cup {Nothing}
  <2>1. /\ tick' = CASE c.kind = "tick"  -> tick + 1
                     [] c.kind = "reset" -> c.session.current_tick + 1
                     [] OTHER            -> tick
        /\ market' = CASE c.kind = "load"  -> tick
                       [] c.kind = "tick"  -> tick + 1
                       [] c.kind = "reset" -> c.session.market_data
                       [] OTHER            -> market
    BY DEF MockDemo!Receive
  <2>2. /\ tick \in 1..MaxMockTick
        /\ c.kind = "tick" => tick < MaxMockTick
        /\ market \in (0..MaxMockTick) \cup {Nothing}
        /\ MaxMockTick \in Nat \ {0}
    BY MockConstants DEF MockTypeInv
  <2>3. c.kind = "reset" =>
          c.session.current_tick = 0 /\ c.session.market_data = 0
    BY <1>2 DEF MockDemo!NewSession
  <2> HIDE DEF c
  <2>4. QED
    BY <1>2, <2>1, <2>2, <2>3
<1>6. /\ signal' \in MockDemo!Ids \cup {Nothing}
      /\ order' \in MockDemo!Ids \cup {Nothing}
  <2>1. /\ signal' = CASE c.kind = "load"     -> c.session.latest_signal
                       [] c.kind = "strategy" -> c.id
                       [] c.kind = "reset"    -> Nothing
                       [] OTHER               -> signal
        /\ order' = CASE c.kind = "load"  -> c.session.latest_order
                      [] c.kind = "order" -> c.id
                      [] c.kind = "reset" -> Nothing
                      [] OTHER            -> order
    BY DEF MockDemo!Receive
  <2>2. c.kind = "load" =>
          {c.session.latest_signal, c.session.latest_order}
            \subseteq MockDemo!Ids \cup {Nothing}
    BY <1>2 DEF Coherent, Sessions
  <2>3. {signal, order} \subseteq MockDemo!Ids \cup {Nothing}
    BY DEF MockTypeInv
  <2> HIDE DEF c
  <2>4. QED
    BY <1>2, <2>1, <2>2, <2>3
<1>7. working' \in BOOLEAN /\ (working' = FALSE => next = MockDemo!Idle)
  <2>1. CASE c.kind = "order"
    <3>1. working' = working
      BY <2>1 DEF MockDemo!Receive
    <3>2. c # MockDemo!Idle
      BY <1>1 DEF MockDemo!Idle, MockDemo!Call
    <3>3. QED
      BY <3>1, <3>2 DEF AloneInv
  <2>2. CASE c.kind # "order"
    <3>1. working' = FALSE
      BY <2>2 DEF MockDemo!Receive
    <3>2. QED
      BY <2>2, <3>1 DEF MockDemo!Idle
  <2>3. QED
    BY <2>1, <2>2
<1>8. Alone(c, session, order) => Alone(next, session, order')
  <2>1. order' = CASE c.kind = "load"  -> c.session.latest_order
                   [] c.kind = "order" -> c.id
                   [] c.kind = "reset" -> Nothing
                   [] OTHER            -> order
    BY DEF MockDemo!Receive
  <2>2. Alone(c, session, order) => order' = session.latest_order
    <3> HIDE DEF c
    <3>1. QED
      BY <1>1, <1>2, <2>1 DEF Alone
  <2>3. order' = session.latest_order => Alone(next, session, order')
    <3> HIDE DEF next
    <3>1. QED
      BY <1>4 DEF Alone
  <2>4. QED
    BY <2>2, <2>3
<1> HIDE DEF next, asked
<1>9. /\ call' \in [MockDemo!Visitors -> Calls]
      /\ \A w \in MockDemo!Visitors : CallOK(call'[w])
      /\ call'["panel"] = next /\ call'["other"] = call["other"]
  BY <1>1, <1>3, <1>4, OneCallChanges
<1>10. MockTypeInv'
  BY <1>1, <1>3, <1>4, <1>5, <1>6, <1>9 DEF MockTypeInv
<1>11. QED
  BY <1>3, <1>7, <1>8, <1>9, <1>10 DEF AloneInv

\* A call of the panel is over; the other is as it was, or is the one that
\* the panel had sent.
LEMMA CallsEnd ==
  ASSUME MockTypeInv,
         NEW other \in {call["other"], call["panel"], MockDemo!Idle},
         NEW panel \in {call["panel"], MockDemo!Idle, MockDemo!Load},
         call' = [call EXCEPT !["panel"] = panel, !["other"] = other]
  PROVE  /\ call' \in [MockDemo!Visitors -> Calls]
         /\ \A w \in MockDemo!Visitors : CallOK(call'[w])
         /\ call'["panel"] = panel /\ call'["other"] = other
<1>1. CallOK(MockDemo!Idle) /\ CallOK(MockDemo!Load)
  BY CallsOK DEF MockDemo!Idle, MockDemo!Load
<1>2. /\ CallOK(call["panel"]) /\ CallOK(call["other"])
      /\ MockDemo!Visitors = {"panel", "other"}
  BY DEF MockTypeInv, MockDemo!Visitors
<1>3. CallOK(other) /\ CallOK(panel)
  BY <1>1, <1>2
<1>4. other \in Calls /\ panel \in Calls
  BY <1>3 DEF CallOK
<1>5. QED
  BY <1>2, <1>3, <1>4 DEF MockTypeInv

\* The steps that leave the session alone and set the panel's call.
LEMMA OtherMockSteps ==
  ASSUME MockTypeInv, AloneInv, ConstantsAssumption,
         MockDemo!ReceiveSession \/ MockDemo!ReceiveError
           \/ MockDemo!Leave \/ MockDemo!Reload
  PROVE  MockTypeInv' /\ AloneInv'
<1>1. /\ MockDemo!Idle.kind = "none" /\ MockDemo!Idle.at = "sent"
      /\ MockDemo!Load.kind = "load" /\ MockDemo!Load.at = "sent"
      /\ call["panel"] \in Calls /\ call["other"] \in Calls
      /\ DOMAIN call = {"panel", "other"}
      /\ MaxMockTick \in Nat \ {0}
  BY MockConstants
     DEF MockDemo!Idle, MockDemo!Load, MockDemo!Call, MockTypeInv,
         MockDemo!Visitors
<1>2. ASSUME NEW panel \in {call["panel"], MockDemo!Idle, MockDemo!Load},
             NEW other \in {call["other"], call["panel"], MockDemo!Idle},
             call' = [call EXCEPT !["panel"] = panel, !["other"] = other],
             UNCHANGED session,
             UNCHANGED <<tick, market, signal, order>>
               \/ /\ tick' = 1
                  /\ market' = Nothing /\ signal' = Nothing
                  /\ order' = Nothing
      PROVE  MockTypeInv'
  <2>1. /\ call' \in [MockDemo!Visitors -> Calls]
        /\ \A w \in MockDemo!Visitors : CallOK(call'[w])
        /\ call'["panel"] = panel
    BY <1>2, CallsEnd
  <2>2. Coherent(session')
    BY <1>2 DEF MockTypeInv
  <2>3. /\ tick' \in 1..MaxMockTick
        /\ market' \in (0..MaxMockTick) \cup {Nothing}
        /\ signal' \in MockDemo!Ids \cup {Nothing}
        /\ order' \in MockDemo!Ids \cup {Nothing}
    BY <1>1, <1>2 DEF MockTypeInv
  <2>4. call'["panel"].kind = "tick" => tick' < MaxMockTick
    <3>1. panel = call["panel"] => UNCHANGED tick \/ tick' = 1
      BY <1>2
    <3>2. QED
      BY <1>1, <1>2, <2>1, <3>1 DEF MockTypeInv
  <2>5. QED
    BY <2>1, <2>2, <2>3, <2>4 DEF MockTypeInv
<1>3. CASE MockDemo!ReceiveSession
  <2>1. /\ call' = [call EXCEPT !["panel"] = MockDemo!Idle,
                                !["other"] = call["other"]]
        /\ UNCHANGED <<session, tick, market, signal, order>>
        /\ working' = FALSE /\ alone' = alone
        /\ call["panel"].kind = "refetch"
    BY <1>1, <1>3 DEF MockDemo!ReceiveSession, MockTypeInv
  <2>2. /\ call'["panel"] = MockDemo!Idle
        /\ call'["other"] = call["other"]
    BY <2>1, CallsEnd
  <2>3. Alone(call["panel"], session, order) =>
          Alone(MockDemo!Idle, session, order)
    BY <1>1, <2>1 DEF Alone
  <2>4. MockTypeInv'
    BY <1>2, <2>1
  <2>5. QED
    BY <2>1, <2>2, <2>3, <2>4 DEF AloneInv
<1>4. CASE MockDemo!ReceiveError
  <2>1. PICK other \in {call["other"], call["panel"], MockDemo!Idle} :
          call' = [call EXCEPT !["panel"] = MockDemo!Idle,
                               !["other"] = other]
    BY <1>4 DEF MockDemo!ReceiveError
  <2>2. /\ UNCHANGED <<session, tick, market, signal, order>>
        /\ working' = FALSE /\ ~alone'
    BY <1>4 DEF MockDemo!ReceiveError, MockDemo!WorkingAfter
  <2>3. call'["panel"] = MockDemo!Idle
    BY <2>1, CallsEnd
  <2>4. MockTypeInv'
    BY <1>2, <2>1, <2>2
  <2>5. QED
    BY <2>2, <2>3, <2>4 DEF AloneInv
<1>5. CASE MockDemo!Leave
  <2>1. /\ call' = [call EXCEPT !["panel"] = call["panel"],
                                !["other"] = MockDemo!Idle]
        /\ UNCHANGED <<session, MockDemo!panel>>
    BY <1>1, <1>5 DEF MockDemo!Leave, MockTypeInv
  <2>2. /\ call'["panel"] = call["panel"]
        /\ call'["other"] = MockDemo!Idle
    BY <2>1, CallsEnd
  <2>3. MockTypeInv'
    BY <1>2, <2>1 DEF MockDemo!panel
  <2>4. QED
    BY <2>1, <2>2, <2>3 DEF AloneInv, MockDemo!panel
<1>6. CASE MockDemo!Reload
  <2>1. /\ call' = [call EXCEPT !["panel"] = MockDemo!Load,
                                !["other"] = call["other"]]
        /\ UNCHANGED session
        /\ tick' = 1
        /\ market' = Nothing /\ signal' = Nothing /\ order' = Nothing
        /\ working' = TRUE
        /\ alone' = (call["other"] = MockDemo!Idle)
    BY <1>1, <1>6 DEF MockDemo!Reload, MockTypeInv
  <2>2. /\ call'["panel"] = MockDemo!Load
        /\ call'["other"] = call["other"]
    BY <2>1, CallsEnd
  <2>3. Alone(MockDemo!Load, session, order')
    BY <1>1 DEF Alone
  <2>4. MockTypeInv'
    BY <1>2, <2>1
  <2>5. QED
    BY <2>1, <2>2, <2>3, <2>4 DEF AloneInv
<1>7. QED
  BY <1>3, <1>4, <1>5, <1>6

LEMMA ElsewhereStep ==
  ASSUME MockTypeInv, AloneInv, ConstantsAssumption,
         NEW asked \in {"strategy", "order", "reset"},
         NEW id \in MockDemo!Ids \cup {Nothing},
         asked # "reset" => id # Nothing,
         MockDemo!Elsewhere(asked, id)
  PROVE  MockTypeInv' /\ AloneInv'
<1>1. /\ CallOK(MockDemo!Call(asked, id, id))
      /\ "panel" \in MockDemo!Visitors /\ "other" \in MockDemo!Visitors
  BY CallsOK DEF MockDemo!Visitors
<1>2. /\ call' = [call EXCEPT !["other"] = MockDemo!Call(asked, id, id)]
      /\ UNCHANGED <<session, tick, market, signal, order, working>>
      /\ ~alone'
  BY DEF MockDemo!Elsewhere
<1>3. /\ call' \in [MockDemo!Visitors -> Calls]
      /\ \A w \in MockDemo!Visitors : CallOK(call'[w])
      /\ call'["panel"] = call["panel"]
  BY <1>1, <1>2, OneCallChanges
<1>4. QED
  BY <1>2, <1>3 DEF MockTypeInv, AloneInv

LEMMA MockStep ==
  ASSUME MockTypeInv, AloneInv, ConstantsAssumption,
         MockDemo!Next \/ UNCHANGED mock
  PROVE  MockTypeInv' /\ AloneInv'
<1>1. ASSUME NEW symbol \in Symbols
      PROVE  /\ <<symbol, tick>> \in MockDemo!Ids
             /\ <<symbol, tick>> # Nothing
  BY MockConstants DEF MockTypeInv
<1>2. CASE MockDemo!GenerateNextTick
  BY <1>2, BeginStep DEF MockDemo!GenerateNextTick
<1>3. ASSUME NEW symbol \in Symbols, MockDemo!RunMockStrategy(symbol)
      PROVE  MockTypeInv' /\ AloneInv'
  BY <1>1, <1>3, BeginStep DEF MockDemo!RunMockStrategy
<1>4. ASSUME NEW symbol \in Symbols, MockDemo!SimulatePaperOrder(symbol)
      PROVE  MockTypeInv' /\ AloneInv'
  <2> DEFINE sent == IF signal = Nothing THEN <<symbol, tick>> ELSE signal
  <2>1. sent \in MockDemo!Ids /\ sent # Nothing
    BY <1>1 DEF MockTypeInv
  <2>2. MockDemo!Begin("order", <<symbol, tick>>, sent)
    BY <1>4 DEF MockDemo!SimulatePaperOrder
  <2> HIDE DEF sent
  <2>3. QED
    BY <1>1, <2>1, <2>2, BeginStep
<1>5. CASE MockDemo!ResetDemoSession
  BY <1>5, BeginStep DEF MockDemo!ResetDemoSession
<1>6. CASE \/ \E asked \in {"strategy", "order"},
                  id \in Symbols \X OtherTicks : MockDemo!Elsewhere(asked, id)
           \/ MockDemo!Elsewhere("reset", Nothing)
  BY <1>6, MockConstants, ElsewhereStep
<1>7. CASE \E v \in MockDemo!Visitors :
             MockDemo!Copy(v) \/ MockDemo!Assign(v) \/ MockDemo!Answer(v)
  BY <1>7, CopyStep, AssignStep, AnswerStep
<1>8. CASE MockDemo!Receive
  BY <1>8, ReceiveStep
<1>9. CASE MockDemo!ReceiveSession \/ MockDemo!ReceiveError
             \/ MockDemo!Leave \/ MockDemo!Reload
  BY <1>9, OtherMockSteps
<1>10. CASE UNCHANGED mock
  BY <1>10 DEF mock, MockTypeInv, AloneInv
<1>11. QED
  BY <1>2, <1>3, <1>4, <1>5, <1>6, <1>7, <1>8, <1>9, <1>10
     DEF MockDemo!Next

(***************************************************************************)
(* Setters that copy and assign the shared session without a lock lose     *)
(* updates but never mix two sessions, whatever tick and symbol two        *)
(* visitors have come to; and a panel that was alone shows the order and   *)
(* the portfolio of the session (MockBackendDemoSessionStore).             *)
(***************************************************************************)
THEOREM SessionIsCoherentSafe == Spec => []SessionIsCoherent
<1>1. Init => MockTypeInv /\ AloneInv
  BY ConstantsAssumption, MockInit DEF Init
<1>2. MockTypeInv /\ AloneInv /\ [Next]_vars => (MockTypeInv /\ AloneInv)'
  BY ConstantsAssumption, PartSteps, MockStep
<1>3. MockTypeInv /\ AloneInv => SessionIsCoherent
  BY DEF MockTypeInv, Coherent, AloneInv, Alone, MockDemo!Idle,
         MockDemo!Call, SessionIsCoherent, MockDemo!SessionIsCoherent,
         MockDemo!View
<1>4. QED
  BY <1>1, <1>2, <1>3, PTL DEF Spec

-----------------------------------------------------------------------------
(* What the sections of the page say *)

\* A section tells that something it shows did not come, or the page does.
Told(section, p) ==
  \A r \in section.shows :
    ~Page!Available(p, r) => section.notice \/ Page!Banner(p)

LEMMA SectionTold ==
  ASSUME NEW shows, NEW watches, NEW p, NEW marks,
         shows \subseteq watches \cup Page!Reported
  PROVE  Told(Page!Section(shows, watches, p, marks), p)
BY DEF Told, Page!Section, Page!Available, Page!Banner

LEMMA PanelTold ==
  ASSUME NEW resources, NEW p, NEW marks
  PROVE  Told(Page!Panel(resources, p, marks), p)
BY SectionTold DEF Page!Panel

LEMMA ReleaseTabTold ==
  ASSUME NEW p, NEW section \in Page!ReleaseTab(p)
  PROVE  Told(section, p)
<1>1. Told(Page!HostedWebCommandCenterPanel(p), p)
  <2>1. {"health", "webReadiness", "session", "tenant"}
          \subseteq {"health", "webReadiness"} \cup Page!Reported
    BY DEF Page!Reported, Page!Resource, Page!FirstStage, Page!Events
  <2>2. QED
    BY <2>1, SectionTold DEF Page!HostedWebCommandCenterPanel
<1>2. Told(Page!LocalDemoSetupPanel, p)
        /\ Told(Page!LocalBackendDemoModePanel, p)
  BY DEF Told, Page!LocalDemoSetupPanel, Page!LocalBackendDemoModePanel,
         Page!LocalPanel
<1>3. /\ Told(Page!ReleaseBaselinePanel(p), p)
      /\ Told(Page!HostedPaperEnvironmentPanel(p), p)
      /\ Told(Page!HostedPaperDatastoreReadinessPanel(p), p)
      /\ Told(Page!HostedPaperProductionDatastoreReadinessPanel(p), p)
      /\ Told(Page!HostedPaperReadinessPanel(p), p)
      /\ Told(Page!HostedPaperSandboxOnboardingPanel(p), p)
  BY PanelTold
     DEF Page!ReleaseBaselinePanel, Page!HostedPaperEnvironmentPanel,
         Page!HostedPaperDatastoreReadinessPanel,
         Page!HostedPaperProductionDatastoreReadinessPanel,
         Page!HostedPaperReadinessPanel,
         Page!HostedPaperSandboxOnboardingPanel
<1>4. /\ Told(Page!HostedPaperIdentityReadinessPanel(p), p)
      /\ Told(Page!HostedPaperIdentityAccessContractPanel(p), p)
      /\ Told(Page!HostedPaperAuthProviderSelectionPanel(p), p)
      /\ Told(Page!HostedPaperSecurityOperationsPanel(p), p)
      /\ Told(Page!HostedPaperMockSessionPanel(p), p)
  BY PanelTold
     DEF Page!HostedPaperIdentityReadinessPanel,
         Page!HostedPaperIdentityAccessContractPanel,
         Page!HostedPaperAuthProviderSelectionPanel,
         Page!HostedPaperSecurityOperationsPanel,
         Page!HostedPaperMockSessionPanel
<1>5. QED
  BY <1>1, <1>2, <1>3, <1>4 DEF Page!ReleaseTab

LEMMA PaperTabTold ==
  ASSUME NEW p, NEW section \in Page!PaperTab(p)
  PROVE  Told(section, p)
<1>1. Told(Page!PaperWorkflowSection(p), p)
  <2>1. {"executionStatus", "persistence"}
          \subseteq {"executionStatus"} \cup Page!Reported
    BY DEF Page!Reported, Page!Resource, Page!FirstStage, Page!Events
  <2>2. QED
    BY <2>1, SectionTold DEF Page!PaperWorkflowSection
<1>2. /\ Told(Page!PaperRiskGuardrailsPanel(p), p)
      /\ Told(Page!PaperRiskCrossAccountReadinessPanel(p), p)
      /\ Told(Page!PaperApprovalQueuePanel(p), p)
      /\ Told(Page!PaperComplianceApprovalReadinessPanel(p), p)
      /\ Told(Page!PaperBrokerSimulationReadinessPanel(p), p)
  BY PanelTold
     DEF Page!PaperRiskGuardrailsPanel,
         Page!PaperRiskCrossAccountReadinessPanel,
         Page!PaperApprovalQueuePanel,
         Page!PaperComplianceApprovalReadinessPanel,
         Page!PaperBrokerSimulationReadinessPanel
<1>3. /\ Told(Page!PaperExecutionRecordsPanel(p), p)
      /\ Told(Page!PaperOmsReliabilityPanel(p), p)
      /\ Told(Page!PaperOmsProductionReadinessPanel(p), p)
      /\ Told(Page!PaperAuditIntegrityPanel(p), p)
      /\ Told(Page!PaperAuditWormReadinessPanel(p), p)
  BY PanelTold
     DEF Page!PaperExecutionRecordsPanel, Page!PaperOmsReliabilityPanel,
         Page!PaperOmsProductionReadinessPanel,
         Page!PaperAuditIntegrityPanel, Page!PaperAuditWormReadinessPanel
<1>4. QED
  BY <1>1, <1>2, <1>3 DEF Page!PaperTab

LEMMA OtherSectionsTold ==
  ASSUME NEW p,
         NEW section \in {Page!HealthCard(p), Page!SafetyCard(p)}
                           \cup Page!PacketTab(p) \cup Page!ContractsTab(p)
  PROVE  Told(section, p)
<1>1. {"paperStatus", "roadmap", "contracts"} \subseteq Page!Reported
  BY DEF Page!Reported, Page!Resource, Page!FirstStage, Page!Events
<1>2. Told(Page!HealthCard(p), p)
  BY PanelTold DEF Page!HealthCard
<1>3. Told(Page!SafetyCard(p), p)
  BY <1>1, SectionTold DEF Page!SafetyCard
<1>4. \A s \in Page!PacketTab(p) : Told(s, p)
  BY PanelTold DEF Page!PacketTab
<1>5. \A s \in Page!ContractsTab(p) : Told(s, p)
  BY <1>1, SectionTold DEF Page!ContractsTab
<1>6. QED
  BY <1>2, <1>3, <1>4, <1>5

(***************************************************************************)
(* Whatever combination of fetches fails, no section shows a fallback      *)
(* without a notice of its own or the banner above the tabs: the list of   *)
(* backendIssues in Home and the notices of the panels leave no gap.       *)
(***************************************************************************)
THEOREM NothingIsSilentSafe == Spec => []NothingIsSilent
<1>1. \A section \in Page!Sections(reply) : Told(section, reply)
  BY ReleaseTabTold, PaperTabTold, OtherSectionsTold DEF Page!Sections
<1>2. NothingIsSilent
  BY <1>1 DEF NothingIsSilent, Page!NothingIsSilent, Told
<1>3. QED
  BY <1>2, PTL

-----------------------------------------------------------------------------
(* The settings a page is made of *)

Answers ==
  [ settings : Deployments \cup {Page!PaperSettings}, sound : BOOLEAN,
    run : PageRuns \cup {Nothing} ]

Replies == [available : BOOLEAN, data : Answers] \cup {Page!Waiting}

PageTypeInv ==
  /\ settings \in Deployments
  /\ sound \in BOOLEAN
  /\ recorded \in Seq(PageRuns)
  /\ changes \in 0..MaxChanges
  /\ watched \in Watched
  /\ phase \in {"idle", "first", "events", "reports", "shown"}
  /\ reply \in [Page!Resource -> Replies]
  /\ since \subseteq Deployments

\* What came of the first stage, the backend had answered since the load
\* began; the page goes on when all of it is there.
SinceInv ==
  /\ phase # "idle" => settings \in since
  /\ \A r \in Page!FirstStage :
       reply[r] # Page!Waiting /\ reply[r].available =>
         reply[r].data.settings \in since
  /\ phase \notin {"idle", "first"} => Page!Done(Page!FirstStage)

LEMMA AnswersTyped ==
  ASSUME ConstantsAssumption, PageTypeInv
  PROVE  /\ Page!AnswerNow \in Answers
         /\ Page!AnswerNow.settings = settings
         /\ Page!Came(Page!AnswerNow).available = TRUE
         /\ Page!Came(Page!AnswerNow).data = Page!AnswerNow
         /\ Page!Came(Page!AnswerNow) \in Replies
         /\ Page!Missing \in Replies
         /\ Page!Missing.available = FALSE
         /\ Page!Came(Page!Fallback) \in Replies
<1>1. Page!Newest \in PageRuns \cup {Nothing}
  BY DEF PageTypeInv, Page!Newest
<1>2. Page!AnswerNow \in Answers /\ Page!AnswerNow.settings = settings
  BY <1>1 DEF PageTypeInv, Page!AnswerNow, Page!Answer, Answers
<1>3. Page!Fallback \in Answers
  BY DEF Page!Fallback, Page!Answer, Answers
<1>4. QED
  BY <1>2, <1>3 DEF Page!Came, Page!Missing, Replies

LEMMA SecondAnswerTyped ==
  ASSUME PageTypeInv, SinceInv, phase \in {"events", "reports"}
  PROVE  Page!Came(Page!SecondAnswer) \in Replies
<1>1. "runs" \in Page!FirstStage /\ "runs" \in Page!Resource
  BY DEF Page!FirstStage, Page!Resource
<1>2. reply["runs"] # Page!Waiting
  BY <1>1 DEF SinceInv, Page!Done
<1>3. reply["runs"] \in [available : BOOLEAN, data : Answers]
  BY <1>1, <1>2 DEF PageTypeInv, Replies
<1>4. Page!Selected \in PageRuns \cup {Nothing}
  BY <1>3 DEF Page!Selected, Answers
<1>5. Page!SecondAnswer \in Answers
  BY <1>4 DEF PageTypeInv, Page!SecondAnswer, Page!Answer, Answers
<1>6. QED
  BY <1>5 DEF Page!Came, Replies

LEMMA PageInit ==
  ASSUME ConstantsAssumption, Page!Init
  PROVE  PageTypeInv /\ SinceInv
<1>1. recorded \in Seq(PageRuns)
  <2>1. recorded = <<>> \/ \E run \in PageRuns : recorded = <<run>>
    BY DEF Page!Init
  <2>2. <<>> \in Seq(PageRuns)
    OBVIOUS
  <2>3. \A run \in PageRuns : <<run>> \in Seq(PageRuns)
    OBVIOUS
  <2>4. QED
    BY <2>1, <2>2, <2>3, Zenon
<1>2. PageTypeInv
  BY <1>1 DEF Page!Init, PageTypeInv, Replies, ConstantsAssumption,
              Page!ConstantsAssumption
<1>3. Page!FirstStage \subseteq Page!Resource
  BY DEF Page!Resource
<1>4. QED
  BY <1>2, <1>3 DEF Page!Init, SinceInv

LEMMA RequestStep ==
  ASSUME ConstantsAssumption, PageTypeInv, SinceInv, Page!Request
  PROVE  PageTypeInv' /\ SinceInv'
<1>1. /\ reply' =
           [ r \in Page!Resource |->
               IF r \in Page!FirstStage \ watched
                 THEN Page!Came(Page!AnswerNow) ELSE Page!Waiting ]
      /\ since' = {settings} /\ phase' = "first"
      /\ UNCHANGED <<settings, sound, recorded, changes, watched>>
  BY DEF Page!Request, Page!backend
<1>2. reply' \in [Page!Resource -> Replies]
  BY <1>1, AnswersTyped DEF Replies
<1>3. PageTypeInv'
  BY <1>1, <1>2 DEF PageTypeInv
<1>4. ASSUME NEW r \in Page!FirstStage,
             reply'[r] # Page!Waiting, reply'[r].available
      PROVE  reply'[r].data.settings \in since'
  <2>1. reply'[r] = Page!Came(Page!AnswerNow)
    BY <1>1, <1>4 DEF Page!Resource
  <2>2. QED
    BY <1>1, <2>1, AnswersTyped
<1>5. QED
  BY <1>1, <1>3, <1>4 DEF SinceInv

LEMMA FetchStep ==
  ASSUME ConstantsAssumption, PageTypeInv, SinceInv,
         NEW r \in Page!Resource, Page!Fetch(r) \/ Page!FetchFails(r)
  PROVE  PageTypeInv' /\ SinceInv'
<1> DEFINE answer == IF phase = "first" THEN Page!AnswerNow
                     ELSE Page!SecondAnswer
<1>1. /\ Page!Asked(r) /\ reply[r] = Page!Waiting
      /\ UNCHANGED <<settings, sound, recorded, changes, watched, phase,
                     since>>
  BY DEF Page!Fetch, Page!FetchFails, Page!backend
<1>2. PICK came \in {Page!Came(answer), Page!Missing} :
        reply' = [reply EXCEPT ![r] = came]
  BY DEF Page!Fetch, Page!FetchFails
<1>3. /\ phase = "first" \/ phase \in {"events", "reports"}
      /\ phase # "first" => r \notin Page!FirstStage
  BY <1>1 DEF Page!Asked, Page!Events, Page!FirstStage
<1>4. /\ came \in Replies
      /\ phase = "first" /\ came.available => came.data.settings = settings
  <2>1. CASE phase = "first"
    BY <1>2, <2>1, AnswersTyped
  <2>2. CASE phase \in {"events", "reports"}
    BY <1>2, <2>2, AnswersTyped, SecondAnswerTyped
  <2>3. QED
    BY <1>3, <2>1, <2>2
<1> HIDE DEF answer
<1>5. PageTypeInv'
  BY <1>1, <1>2, <1>4 DEF PageTypeInv
<1>6. ASSUME NEW q \in Page!FirstStage,
             reply'[q] # Page!Waiting, reply'[q].available
      PROVE  reply'[q].data.settings \in since'
  <2>1. q \in Page!Resource
    BY DEF Page!Resource
  <2>2. CASE q # r
    BY <1>1, <1>2, <1>6, <2>1, <2>2 DEF PageTypeInv, SinceInv
  <2>3. CASE q = r
    <3>1. phase = "first" /\ reply'[q] = came
      BY <1>2, <1>3, <2>1, <2>3 DEF PageTypeInv
    <3>2. QED
      BY <1>1, <1>4, <1>6, <3>1 DEF SinceInv
  <2>4. QED
    BY <2>2, <2>3
<1>7. phase \notin {"idle", "first"} => Page!Done(Page!FirstStage)'
  <2>1. ASSUME NEW q \in Page!FirstStage, phase \notin {"idle", "first"}
        PROVE  reply'[q] # Page!Waiting
    <3>1. reply'[q] = reply[q]
      BY <1>2, <1>3, <2>1 DEF Page!Resource, PageTypeInv
    <3>2. QED
      BY <2>1, <3>1 DEF SinceInv, Page!Done
  <2>2. QED
    BY <2>1 DEF Page!Done
<1>8. QED
  BY <1>1, <1>5, <1>6, <1>7 DEF SinceInv

LEMMA NextStageStep ==
  ASSUME ConstantsAssumption, PageTypeInv, SinceInv, Page!NextStage
  PROVE  PageTypeInv' /\ SinceInv'
<1>1. /\ UNCHANGED <<settings, sound, recorded, changes, watched, since>>
      /\ phase' \in {"events", "reports", "shown"}
      /\ phase # "idle"
      /\ Page!Done(Page!FirstStage)
  BY DEF Page!NextStage, Page!backend, SinceInv
<1>2. /\ reply' \in [Page!Resource -> Replies]
      /\ \A r \in Page!FirstStage : reply'[r] = reply[r]
  BY AnswersTyped DEF Page!NextStage, PageTypeInv, Page!Resource
<1>3. PageTypeInv'
  BY <1>1, <1>2 DEF PageTypeInv
<1>4. Page!Done(Page!FirstStage)'
  BY <1>1, <1>2 DEF Page!Done
<1>5. QED
  BY <1>1, <1>2, <1>3, <1>4 DEF SinceInv

LEMMA BackendStep ==
  ASSUME ConstantsAssumption, PageTypeInv, SinceInv,
         Page!Restart \/ Page!Record
  PROVE  PageTypeInv' /\ SinceInv'
<1>1. CASE Page!Restart
  BY <1>1 DEF Page!Restart, PageTypeInv, SinceInv, Page!Done,
              ConstantsAssumption, Page!ConstantsAssumption
<1>2. CASE Page!Record
  <2>1. PICK run \in PageRuns : recorded' = <<run>> \o recorded
    BY <1>2 DEF Page!Record
  <2>2. recorded' \in Seq(PageRuns)
    BY <2>1 DEF PageTypeInv
  <2>3. QED
    BY <1>2, <2>2 DEF Page!Record, PageTypeInv, SinceInv, Page!Done,
                      ConstantsAssumption, Page!ConstantsAssumption
<1>3. QED
  BY <1>1, <1>2

\* The invariant of a behaviour in which the page moves.
PageInv == part = "page" => PageTypeInv /\ SinceInv

LEMMA PageStep ==
  ASSUME ConstantsAssumption, PageInv, [Next]_vars
  PROVE  PageInv'
<1>1. CASE part = "page" /\ Page!Next
  <2>1. PageTypeInv /\ SinceInv
    BY <1>1 DEF PageInv
  <2>2. PageTypeInv' /\ SinceInv'
    BY <1>1, <2>1, RequestStep, FetchStep, NextStageStep, BackendStep
       DEF Page!Next
  <2>3. QED
    BY <2>2 DEF PageInv
<1>2. CASE UNCHANGED page
  BY <1>2, PartSteps DEF page, PageInv, PageTypeInv, SinceInv, Page!Done
<1>3. QED
  BY <1>1, <1>2, PartSteps

\* Live settings give red marks in the panels that judge them.
LEMMA LiveIsRed ==
  ASSUME NEW s, s.live = TRUE
  PROVE  /\ \E mark0 \in Page!RedWhenLive(s) : mark0.tone = "danger"
         /\ \E mark0 \in Page!JudgedFlags(s) : mark0.tone = "danger"
BY DEF Page!RedWhenLive, Page!JudgedFlags, Page!Judged, Page!Mark

(***************************************************************************)
(* Whatever settings the backend is restarted with while a page loads: if  *)
(* it traded live all the time, the page has a red mark above its tabs and *)
(* in either tab, or says that the backend is not available (safety cards  *)
(* and flags of the panels).                                               *)
(***************************************************************************)
THEOREM LiveIsAlarmingSafe == Spec => []LiveIsAlarming
<1>1. Init => PageInv
  BY ConstantsAssumption, PageInit DEF Init, PageInv
<1>2. PageInv /\ [Next]_vars => PageInv'
  BY ConstantsAssumption, PageStep
<1>3. (part # "page" => phase = "idle") /\ PageInv => LiveIsAlarming
  <2> SUFFICES ASSUME PageTypeInv, SinceInv, phase = "shown",
                      \A s \in since : s.live, ~Page!Banner(reply)
               PROVE  /\ Page!Alarms({Page!SafetyCard(reply)})
                      /\ Page!Alarms(Page!ReleaseTab(reply))
                      /\ Page!Alarms(Page!PaperTab(reply))
    BY DEF PageInv, LiveIsAlarming, Page!LiveIsAlarming
  <2>1. /\ {"paperStatus", "releaseBaseline", "crossAccount"}
             \subseteq Page!FirstStage \cap Page!Reported
    BY DEF Page!Reported, Page!Resource, Page!FirstStage, Page!Events
  <2>2. ASSUME NEW r \in Page!FirstStage \cap Page!Reported
        PROVE  Page!Of(reply, r).live = TRUE
    <3>1. Page!Of(reply, r) \in since
      BY DEF Page!Banner, Page!Available, SinceInv, Page!Done, Page!Of
    <3>2. Page!Of(reply, r).live \in BOOLEAN
      BY <3>1, ConstantsAssumption
         DEF PageTypeInv, ConstantsAssumption, Page!ConstantsAssumption,
             Page!LegalSettings
    <3>3. QED
      BY <3>1, <3>2
  <2>3. Page!Alarms({Page!SafetyCard(reply)})
    BY <2>1, <2>2, LiveIsRed
       DEF Page!Alarms, Page!SafetyCard, Page!Section
  <2>4. Page!Alarms({Page!ReleaseBaselinePanel(reply)})
    BY <2>1, <2>2, LiveIsRed
       DEF Page!Alarms, Page!ReleaseBaselinePanel, Page!Panel, Page!Section
  <2>5. Page!Alarms({Page!PaperRiskCrossAccountReadinessPanel(reply)})
    BY <2>1, <2>2, LiveIsRed
       DEF Page!Alarms, Page!PaperRiskCrossAccountReadinessPanel,
           Page!Panel, Page!Section
  <2>6. QED
    BY <2>3, <2>4, <2>5 DEF Page!Alarms, Page!ReleaseTab, Page!PaperTab
<1>4. Init => (part # "page" => phase = "idle")
  BY DEF Init
<1>5. (part # "page" => phase = "idle") /\ [Next]_vars =>
        (part # "page" => phase = "idle")'
  BY PartSteps DEF page
<1>6. QED
  BY <1>1, <1>2, <1>3, <1>4, <1>5, PTL DEF Spec

-----------------------------------------------------------------------------
(* The flags of exported evidence: exporter, validator and view *)

DemoGreen == {"paper_only", "local_sqlite_only", "paper_broker_gateway_called"}

\* The flags that the view of a kind has in green when they are true.
Green(k) ==
  CASE k = "paperDemo" -> DemoGreen
    [] k = "audit"     -> {"paper_only", "local_sqlite_only"}
    [] k = "broker"    -> {"paper_only"}
    [] k = "tenant"    -> {"paper_only", "read_only", "broker_provider"}
    [] k = "packet"    -> {"research_only", "simulated_metrics_only"}

\* The flags that an exporter of that kind writes.
FlagsOf(k) ==
  CASE k = "paperDemo" ->
         {Evidence!DemoFlags(gateway) : gateway \in BOOLEAN}
    [] k = "audit"     -> {Evidence!AuditFlags}
    [] k = "broker"    -> {Evidence!BrokerFlags}
    [] k = "tenant"    -> {Evidence!TenantFlags}
    [] k = "packet"    -> {Evidence!PacketFlags}

\* What it may report as failed.
Reports(k) ==
  CASE k = "audit"  -> SUBSET {"verified"}
    [] k = "broker" -> SUBSET {"checks"}
    [] OTHER        -> {{}}

\* The flag of a run that was not sent to the gateway.
Unsent(flags) ==
  IF flags = Evidence!DemoFlags(FALSE)
    THEN {"paper_broker_gateway_called"} ELSE {}

LEMMA ExportsAre ==
  ASSUME NEW k \in Evidence!Kinds, NEW p \in Evidence!Exports(k)
  PROVE  /\ p.kind = k
         /\ p.failed \in Reports(k)
         /\ p.flags \in FlagsOf(k)
         /\ p = Evidence!Payload(k, p.broken, p.failed, p.flags)
<1>1. CASE k = "paperDemo"
  BY <1>1 DEF Evidence!Exports, Evidence!Payload, Reports, FlagsOf
<1>2. CASE k = "audit"
  BY <1>2 DEF Evidence!Exports, Evidence!Payload, Reports, FlagsOf
<1>3. CASE k = "broker"
  BY <1>3 DEF Evidence!Exports, Evidence!Payload, Reports, FlagsOf
<1>4. CASE k = "tenant"
  BY <1>4 DEF Evidence!Exports, Evidence!Payload, Reports, FlagsOf
<1>5. CASE k = "packet"
  BY <1>5 DEF Evidence!Exports, Evidence!Payload, Reports, FlagsOf
<1>6. QED
  BY <1>1, <1>2, <1>3, <1>4, <1>5 DEF Evidence!Kinds

\* The validator of a kind accepts the flags its exporter writes.
LEMMA ExportsValid ==
  ASSUME NEW k \in Evidence!Kinds, NEW p \in Evidence!Exports(k),
         p.broken = {}
  PROVE  Evidence!Validate(k, p)
<1>1. p.kind = k /\ p.flags \in FlagsOf(k)
  BY ExportsAre
<1>2. CASE k = "paperDemo"
  BY <1>1, <1>2
     DEF FlagsOf, Evidence!Validate, Evidence!ValidatePaperDemoEvidence,
         Evidence!Holds, Evidence!DemoFlags, Evidence!Flags
<1>3. CASE k = "audit"
  BY <1>1, <1>3
     DEF FlagsOf, Evidence!Validate,
         Evidence!ValidatePaperAuditIntegrityEvidence,
         Evidence!Holds, Evidence!AuditFlags, Evidence!Flags
<1>4. CASE k = "broker"
  BY <1>1, <1>4
     DEF FlagsOf, Evidence!Validate,
         Evidence!ValidatePaperBrokerSimulationEvidence,
         Evidence!Holds, Evidence!BrokerFlags, Evidence!Flags
<1>5. CASE k = "tenant"
  BY <1>1, <1>5
     DEF FlagsOf, Evidence!Validate,
         Evidence!ValidateHostedPaperTenantBoundaryEvidence,
         Evidence!Holds, Evidence!TenantFlags, Evidence!Flags
<1>6. CASE k = "packet"
  BY <1>1, <1>6
     DEF FlagsOf, Evidence!Validate, Evidence!ValidateResearchReviewPacket,
         Evidence!Holds, Evidence!PacketFlags, Evidence!Flags
<1>7. QED
  BY <1>2, <1>3, <1>4, <1>5, <1>6 DEF Evidence!Kinds

\* Of a true and b false flags, those are red that a view does not expect.
LEMMA RedOfFlags ==
  ASSUME NEW p, NEW a, NEW b, NEW green, p.flags = Evidence!Flags(a, b)
  PROVE  Evidence!RedFlags(p, green) =
           (a \ green) \cup ((b \ a) \cap green)
BY DEF Evidence!RedFlags, Evidence!Flags, Evidence!IsSafeEvidenceFlag

\* The flags of an export in red: at most that of a run that was not sent.
LEMMA RedOfExports ==
  ASSUME NEW k \in Evidence!Kinds, NEW p, p.flags \in FlagsOf(k)
  PROVE  /\ Evidence!RedFlags(p, Green(k)) = Unsent(p.flags)
         /\ k # "paperDemo" => Unsent(p.flags) = {}
<1>1. DOMAIN Evidence!DemoFlags(FALSE) =
        { "paper_only", "local_sqlite_only", "live_trading_enabled",
          "broker_api_called", "external_db_written",
          "broker_credentials_collected", "real_order_created",
          "approval_for_live", "investment_advice",
          "paper_broker_gateway_called" }
  BY DEF Evidence!DemoFlags, Evidence!Flags
<1>2. CASE k = "paperDemo"
  <2>1. PICK gateway \in BOOLEAN : p.flags = Evidence!DemoFlags(gateway)
    BY <1>2 DEF FlagsOf
  <2>2. CASE gateway = TRUE
    <3>1. Evidence!DemoFlags(TRUE)["paper_broker_gateway_called"]
      BY DEF Evidence!DemoFlags, Evidence!Flags
    <3>2. ~Evidence!DemoFlags(FALSE)["paper_broker_gateway_called"]
      BY DEF Evidence!DemoFlags, Evidence!Flags
    <3>3. Unsent(p.flags) = {}
      BY <2>1, <2>2, <3>1, <3>2 DEF Unsent
    <3>4. Evidence!RedFlags(p, DemoGreen) = {}
      BY <2>1, <2>2, RedOfFlags DEF Evidence!DemoFlags, DemoGreen
    <3>5. QED
      BY <1>2, <3>3, <3>4 DEF Green
  <2>3. CASE gateway = FALSE
    <3>1. Evidence!RedFlags(p, DemoGreen) = {"paper_broker_gateway_called"}
      BY <2>1, <2>3, RedOfFlags DEF Evidence!DemoFlags, DemoGreen
    <3>2. QED
      BY <1>2, <2>1, <2>3, <3>1 DEF Green, Unsent
  <2>4. QED
    BY <2>2, <2>3
<1>3. CASE k = "audit"
  <2>1. p.flags = Evidence!AuditFlags
    BY <1>3 DEF FlagsOf
  <2>2. "approval_for_live" \notin DOMAIN p.flags
    BY <2>1 DEF Evidence!AuditFlags, Evidence!Flags
  <2>3. Evidence!RedFlags(p, Green(k)) = {}
    BY <1>3, <2>1, RedOfFlags DEF Evidence!AuditFlags, Green
  <2>4. QED
    BY <1>1, <2>2, <2>3 DEF Unsent
<1>4. CASE k = "broker"
  <2>1. p.flags = Evidence!BrokerFlags
    BY <1>4 DEF FlagsOf
  <2>2. "local_sqlite_only" \notin DOMAIN p.flags
    BY <2>1 DEF Evidence!BrokerFlags, Evidence!Flags
  <2>3. Evidence!RedFlags(p, Green(k)) = {}
    BY <1>4, <2>1, RedOfFlags DEF Evidence!BrokerFlags, Green
  <2>4. QED
    BY <1>1, <2>2, <2>3 DEF Unsent
<1>5. CASE k = "tenant"
  <2>1. p.flags = Evidence!TenantFlags
    BY <1>5 DEF FlagsOf
  <2>2. "local_sqlite_only" \notin DOMAIN p.flags
    BY <2>1 DEF Evidence!TenantFlags, Evidence!Flags
  <2>3. Evidence!RedFlags(p, Green(k)) = {}
    BY <1>5, <2>1, RedOfFlags DEF Evidence!TenantFlags, Green
  <2>4. QED
    BY <1>1, <2>2, <2>3 DEF Unsent
<1>6. CASE k = "packet"
  <2>1. p.flags = Evidence!PacketFlags
    BY <1>6 DEF FlagsOf
  <2>2. "local_sqlite_only" \notin DOMAIN p.flags
    BY <2>1 DEF Evidence!PacketFlags, Evidence!Flags
  <2>3. Evidence!RedFlags(p, Green(k)) = {}
    BY <1>6, <2>1, RedOfFlags DEF Evidence!PacketFlags, Green
  <2>4. QED
    BY <1>1, <2>2, <2>3 DEF Unsent
<1>7. QED
  BY <1>2, <1>3, <1>4, <1>5, <1>6 DEF Evidence!Kinds

\* A false flag, flipped.
LEMMA FlippedFlag ==
  ASSUME NEW a, NEW b, NEW f \in b \ a
  PROVE  [Evidence!Flags(a, b) EXCEPT ![f] = ~Evidence!Flags(a, b)[f]] =
           Evidence!Flags(a \cup {f}, b \ {f})
<1> DEFINE old == Evidence!Flags(a, b)
           new == Evidence!Flags(a \cup {f}, b \ {f})
           flipped == [old EXCEPT ![f] = ~old[f]]
<1>1. old = [g \in a \cup b |-> g \in a]
  BY DEF Evidence!Flags
<1>2. (a \cup {f}) \cup (b \ {f}) = a \cup b
  OBVIOUS
<1>3. new = [g \in a \cup b |-> g \in a \cup {f}]
  BY <1>2 DEF Evidence!Flags
<1>4. flipped = [g \in a \cup b |-> IF g = f THEN ~old[f] ELSE old[g]]
  BY <1>1
<1>5. /\ old[f] = (f \in a) /\ (f \in a) = FALSE
      /\ new[f] = (f \in a \cup {f}) /\ (f \in a \cup {f}) = TRUE
  <2>1. old[f] = (f \in a)
    BY <1>1
  <2>2. new[f] = (f \in a \cup {f})
    BY <1>3
  <2>3. (f \in a) = FALSE /\ (f \in a \cup {f}) = TRUE
    OBVIOUS
  <2>4. QED
    BY <2>1, <2>2, <2>3
<1>6. ASSUME NEW g \in a \cup b, g # f
      PROVE  old[g] = new[g]
  <2>1. old[g] = (g \in a)
    BY <1>1
  <2>2. new[g] = (g \in a \cup {f})
    BY <1>3
  <2>3. QED
    BY <1>6, <2>1, <2>2
<1>7. flipped = new
  <2> HIDE DEF old, new
  <2>1. \A g \in a \cup b : flipped[g] = new[g]
    BY <1>4, <1>5, <1>6
  <2> HIDE DEF flipped
  <2>2. QED
    BY <1>3, <1>4, <2>1
<1>8. QED
  BY <1>7

\* An edited export that a validator lets through has a flag in red.
LEMMA EditedIsRed ==
  ASSUME NEW k \in Evidence!Kinds, NEW p \in Evidence!Edited(k),
         Evidence!Validate(k, p), p \notin Evidence!Exports(k)
  PROVE  Evidence!RedFlags(p, Green(k)) # {}
<1>1. PICK q \in Evidence!Exports(k) :
        \/ \E piece \in Evidence!Parts(k) :
             p = [q EXCEPT !.broken = @ \cup {piece}]
        \/ \E f \in DOMAIN q.flags : p = [q EXCEPT !.flags[f] = ~@]
  BY DEF Evidence!Edited
<1>2. /\ q = Evidence!Payload(k, q.broken, q.failed, q.flags)
      /\ q.flags \in FlagsOf(k) /\ q.kind = k
  BY ExportsAre
<1>3. ASSUME NEW piece, p = [q EXCEPT !.broken = @ \cup {piece}]
      PROVE  FALSE
  <2>1. p.broken = q.broken \cup {piece}
    BY <1>2, <1>3 DEF Evidence!Payload
  <2>2. QED
    BY <2>1 DEF Evidence!Validate
<1>4. PICK f \in DOMAIN q.flags : p = [q EXCEPT !.flags[f] = ~@]
  BY <1>1, <1>3
<1>5. /\ p.flags = [q.flags EXCEPT ![f] = ~q.flags[f]]
      /\ p.kind = k /\ p.broken = q.broken /\ p.failed = q.failed
      /\ p = Evidence!Payload(k, p.broken, p.failed, p.flags)
  BY <1>2, <1>4 DEF Evidence!Payload
<1>6. CASE f \notin Evidence!RedFlags(q, Green(k))
  <2>1. Evidence!IsSafeEvidenceFlag(Green(k), f, q.flags[f])
    BY <1>6 DEF Evidence!RedFlags
  <2>2. f \in DOMAIN p.flags /\ p.flags[f] = ~q.flags[f]
    BY <1>5
  <2>3. ~Evidence!IsSafeEvidenceFlag(Green(k), f, p.flags[f])
    BY <2>1, <2>2 DEF Evidence!IsSafeEvidenceFlag
  <2>4. QED
    BY <2>2, <2>3 DEF Evidence!RedFlags
<1>7. CASE f \in Evidence!RedFlags(q, Green(k))
  <2>1. /\ k = "paperDemo" /\ f = "paper_broker_gateway_called"
        /\ q.flags = Evidence!DemoFlags(FALSE)
    BY <1>2, <1>7, RedOfExports DEF Unsent
  <2>2. p.flags = Evidence!DemoFlags(TRUE)
    <3> DEFINE a == {"paper_only", "local_sqlite_only"}
               b == { "live_trading_enabled", "broker_api_called",
                      "external_db_written", "broker_credentials_collected",
                      "real_order_created", "approval_for_live",
                      "investment_advice" } \cup {f}
    <3>1. Evidence!DemoFlags(FALSE) = Evidence!Flags(a, b)
      BY <2>1 DEF Evidence!DemoFlags
    <3>2. Evidence!DemoFlags(TRUE) =
            Evidence!Flags(a \cup {f}, b \ {f})
      <4>1. b \ {f} = { "live_trading_enabled", "broker_api_called",
                      "external_db_written", "broker_credentials_collected",
                      "real_order_created", "approval_for_live",
                      "investment_advice" } \cup {}
        BY <2>1
      <4>2. QED
        BY <2>1, <4>1 DEF Evidence!DemoFlags
    <3>3. f \in b \ a
      BY <2>1
    <3> HIDE DEF a, b
    <3> DEFINE false == Evidence!Flags(a, b)
    <3>4. [false EXCEPT ![f] = ~false[f]] = Evidence!Flags(a \cup {f}, b \ {f})
      BY <3>3, FlippedFlag
    <3>5. q.flags = false
      BY <2>1, <3>1
    <3>6. p.flags = [false EXCEPT ![f] = ~false[f]]
      BY <1>5, <3>5, Zenon
    <3>7. QED
      BY <3>2, <3>4, <3>6, Zenon
  <2>3. p.broken \in SUBSET {"order", "decisions"} /\ p.failed = {}
    BY <1>5, <2>1 DEF Evidence!Exports, Evidence!Payload
  <2>4. p \in Evidence!Exports(k)
    <3>1. Evidence!Exports(k) =
            { Evidence!Payload(k, broken, {}, Evidence!DemoFlags(gateway)) :
                broken \in SUBSET {"order", "decisions"},
                gateway \in BOOLEAN }
      BY <2>1 DEF Evidence!Exports
    <3>2. p = Evidence!Payload(k, p.broken, {}, Evidence!DemoFlags(TRUE))
      BY <1>5, <2>2, <2>3
    <3>3. \E broken \in SUBSET {"order", "decisions"},
             gateway \in BOOLEAN :
            p = Evidence!Payload(k, broken, {}, Evidence!DemoFlags(gateway))
      BY <2>3, <3>2
    <3>4. QED
      BY <3>1, <3>3
  <2>5. QED
    BY <2>4
<1>8. QED
  BY <1>6, <1>7

\* What a panel has in red: what its file reports as failed, and flags.
LEMMA ShownRed ==
  ASSUME kind \in Evidence!Kinds, evidence # Nothing,
         evidence.payload.broken = {}
  PROVE  /\ Evidence!RedFlags(evidence.payload, Green(kind))
              \subseteq Evidence!Shown.red
         /\ evidence.payload.failed \in Reports(kind) =>
              Evidence!Shown.red =
                evidence.payload.failed
                  \cup Evidence!RedFlags(evidence.payload, Green(kind))
<1>1. CASE kind = "paperDemo"
  BY <1>1 DEF Evidence!Shown, Evidence!PaperDemoEvidencePanel,
              Evidence!View, Green, DemoGreen, Reports
<1>2. CASE kind = "audit"
  BY <1>2 DEF Evidence!Shown, Evidence!PaperAuditIntegrityEvidencePanel,
              Evidence!View, Green, Reports
<1>3. CASE kind = "broker"
  BY <1>3 DEF Evidence!Shown, Evidence!PaperBrokerSimulationEvidencePanel,
              Evidence!View, Green, Reports
<1>4. CASE kind = "tenant"
  BY <1>4 DEF Evidence!Shown, Evidence!HostedPaperTenantBoundaryEvidencePanel,
              Evidence!View, Green, Reports
<1>5. CASE kind = "packet"
  BY <1>5 DEF Evidence!Shown, Evidence!ResearchReviewPacketPanel,
              Evidence!View, Green, Reports
<1>6. QED
  BY <1>1, <1>2, <1>3, <1>4, <1>5 DEF Evidence!Kinds

LEMMA ShownStatus ==
  ASSUME kind \in Evidence!Kinds
  PROVE  /\ Evidence!Shown.source = source
         /\ Evidence!Shown.state = state
         /\ Evidence!Shown.empty <=> evidence = Nothing
BY DEF Evidence!Kinds, Evidence!Shown, Evidence!View,
       Evidence!PaperDemoEvidencePanel,
       Evidence!PaperAuditIntegrityEvidencePanel,
       Evidence!PaperBrokerSimulationEvidencePanel,
       Evidence!HostedPaperTenantBoundaryEvidencePanel,
       Evidence!ResearchReviewPacketPanel

-----------------------------------------------------------------------------
(* The files that are read *)

\* What is in view was chosen, let through by the validator, and is what the
\* panel names; the state of the panel says whether there is something.
EvidenceInv ==
  /\ kind \in Evidence!Kinds
  /\ picks \in 0..MaxPicks
  /\ state \in {"idle", "ok", "error"}
  /\ \A r \in reading :
       /\ r.id \in 0..(MaxPicks - 1)
       /\ r.file \in Evidence!Chosen(kind)
       /\ r.file.fault \in {"none", "text"}
  /\ source = evidence
  /\ evidence # Nothing =>
       /\ evidence \in Evidence!Chosen(kind)
       /\ evidence.fault = "none"
       /\ Evidence!Validate(kind, evidence.payload)
  /\ state = "ok" => evidence # Nothing
  /\ kind \in {"audit", "broker", "tenant"} =>
       (state = "ok" <=> evidence # Nothing)

LEMMA SampleSafe ==
  /\ Evidence!Sample \in Evidence!Chosen("packet")
  /\ Evidence!Sample.fault = "none"
  /\ Evidence!Validate("packet", Evidence!Sample.payload)
  /\ Evidence!Sample # Nothing
<1>1. "packet" \in Evidence!Kinds
  BY DEF Evidence!Kinds
<1>2. /\ Evidence!Sample.payload \in Evidence!Exports("packet")
      /\ Evidence!Sample.payload.broken = {}
      /\ Evidence!Sample.fault = "none"
  BY DEF Evidence!Sample, Evidence!Exports, Evidence!Payload
<1>3. Evidence!Sample \in Evidence!Chosen("packet")
  BY <1>1, <1>2
     DEF Evidence!Sample, Evidence!Chosen, Evidence!Written
<1>4. QED
  BY <1>1, <1>2, <1>3, ExportsValid, ConstantsAssumption
     DEF ConstantsAssumption, Evidence!ConstantsAssumption

LEMMA EvidenceInit ==
  ASSUME ConstantsAssumption, Evidence!Init
  PROVE  EvidenceInv
<1>1. /\ MaxPicks \in Nat
      /\ kind \in Evidence!Kinds /\ picks = 0 /\ state = "idle"
      /\ reading = {} /\ source = evidence
      /\ evidence = Evidence!Initial(kind)
  BY DEF Evidence!Init, ConstantsAssumption, Evidence!ConstantsAssumption
<1>2. CASE kind = "packet"
  BY <1>1, <1>2, SampleSafe DEF EvidenceInv, Evidence!Initial
<1>3. CASE kind # "packet"
  BY <1>1, <1>3 DEF EvidenceInv, Evidence!Initial
<1>4. QED
  BY <1>2, <1>3

\* A refusal leaves nothing in view, or what was there.
LEMMA RejectStep ==
  ASSUME ConstantsAssumption, EvidenceInv, UNCHANGED kind,
         Evidence!Reject \/ Evidence!RejectEarly
  PROVE  /\ state' = "error"
         /\ source' = evidence'
         /\ evidence' \in {evidence, Nothing}
         /\ kind \in {"audit", "broker", "tenant"} => evidence' = Nothing
BY DEF EvidenceInv, Evidence!Reject, Evidence!RejectEarly,
       Evidence!RejectKeeps

LEMMA EvidenceStep ==
  ASSUME ConstantsAssumption, EvidenceInv,
         Evidence!Next \/ UNCHANGED evidences
  PROVE  EvidenceInv'
<1>1. MaxPicks \in Nat /\ Nothing \notin Evidence!Chosen(kind)
  BY DEF ConstantsAssumption, Evidence!ConstantsAssumption, EvidenceInv
<1>2. ASSUME NEW file \in Evidence!Chosen(kind), Evidence!Pick(file)
      PROVE  EvidenceInv'
  <2>1. kind' = kind /\ picks' = picks + 1 /\ picks < MaxPicks
    BY <1>2 DEF Evidence!Pick
  <2>2. CASE file.fault \in {"extension", "size"}
    <3>1. Evidence!RejectEarly /\ UNCHANGED reading
      BY <1>2, <2>2 DEF Evidence!Pick
    <3>2. QED
      BY <1>1, <2>1, <3>1, RejectStep DEF EvidenceInv
  <2>3. CASE file.fault \notin {"extension", "size"}
    <3> DEFINE read == [id |-> picks, file |-> file]
    <3>1. /\ reading' = reading \cup {read}
          /\ UNCHANGED <<evidence, source, state>>
      BY <1>2, <2>3 DEF Evidence!Pick
    <3>2. read.id = picks /\ read.file = file
      OBVIOUS
    <3>3. file.fault \in {"none", "text"}
      BY <2>3 DEF Evidence!Chosen, Evidence!Written
    <3> HIDE DEF read
    <3>4. QED
      BY <1>1, <2>1, <3>1, <3>2, <3>3 DEF EvidenceInv
  <2>4. QED
    BY <2>2, <2>3
<1>3. ASSUME NEW r \in reading, Evidence!Read(r)
      PROVE  EvidenceInv'
  <2>1. /\ reading' = reading \ {r}
        /\ UNCHANGED <<kind, picks>>
        /\ r.file \in Evidence!Chosen(kind)
    BY <1>3 DEF Evidence!Read, EvidenceInv
  <2>2. CASE r.file.fault = "none" /\ Evidence!Validate(kind, r.file.payload)
    <3>1. evidence' = r.file /\ source' = r.file /\ state' = "ok"
      BY <1>3, <2>2 DEF Evidence!Read
    <3>2. QED
      BY <1>1, <2>1, <2>2, <3>1 DEF EvidenceInv, Evidence!Validate,
           Evidence!ValidatePaperDemoEvidence,
           Evidence!ValidatePaperAuditIntegrityEvidence,
           Evidence!ValidatePaperBrokerSimulationEvidence,
           Evidence!ValidateHostedPaperTenantBoundaryEvidence,
           Evidence!ValidateResearchReviewPacket
  <2>3. CASE ~(r.file.fault = "none"
                 /\ Evidence!Validate(kind, r.file.payload))
    <3>1. Evidence!Reject
      BY <1>3, <2>3 DEF Evidence!Read
    <3>2. QED
      BY <1>1, <2>1, <3>1, RejectStep DEF EvidenceInv
  <2>4. QED
    BY <2>2, <2>3
<1>4. CASE Evidence!Clear
  <2>1. /\ evidence' = Evidence!Initial(kind)
        /\ source' = Evidence!Initial(kind) /\ state' = "idle"
        /\ UNCHANGED <<kind, reading, picks>>
    BY <1>4 DEF Evidence!Clear
  <2>2. CASE kind = "packet"
    BY <1>1, <2>1, <2>2, SampleSafe DEF EvidenceInv, Evidence!Initial
  <2>3. CASE kind # "packet"
    BY <1>1, <2>1, <2>3 DEF EvidenceInv, Evidence!Initial
  <2>4. QED
    BY <2>2, <2>3
<1>5. CASE Evidence!LoadBundledSafeSample
  BY <1>1, <1>5, SampleSafe DEF Evidence!LoadBundledSafeSample, EvidenceInv
<1>6. CASE UNCHANGED evidences
  BY <1>6 DEF evidences, EvidenceInv
<1>7. QED
  BY <1>2, <1>3, <1>4, <1>5, <1>6 DEF Evidence!Next

LEMMA EvidenceInvariant == Spec => []EvidenceInv
<1>1. Init => EvidenceInv
  BY ConstantsAssumption, EvidenceInit DEF Init
<1>2. EvidenceInv /\ [Next]_vars => EvidenceInv'
  BY ConstantsAssumption, PartSteps, EvidenceStep
<1>3. QED
  BY <1>1, <1>2, PTL DEF Spec

(***************************************************************************)
(* In whichever order files are read, accepted and refused, a panel names  *)
(* the file whose payload it shows, and says "loaded" only when it shows   *)
(* one (handleEvidenceFileChange).                                         *)
(***************************************************************************)
THEOREM StatusTellsEvidenceSafe == Spec => []StatusTellsEvidence
<1>1. EvidenceInv => StatusTellsEvidence
  BY ShownStatus DEF EvidenceInv, StatusTellsEvidence,
                     Evidence!StatusTellsEvidence
<1>2. QED
  BY <1>1, EvidenceInvariant, PTL

(***************************************************************************)
(* The flags that the exporters write, the validators look at and the      *)
(* views have in red agree: complete exports are accepted and shown with   *)
(* what they report, and no edited flag gets into a view unmarked.         *)
(***************************************************************************)
THEOREM ListsAgreeSafe == Spec => []ListsAgree
<1>1. EvidenceInv => ListsAgree
  <2> SUFFICES ASSUME EvidenceInv
               PROVE  ListsAgree
    OBVIOUS
  <2>1. kind \in Evidence!Kinds
    BY DEF EvidenceInv
  <2>2. ASSUME evidence # Nothing
        PROVE  IF evidence.payload \in Evidence!Exports(kind)
                 THEN Evidence!Shown.red =
                        evidence.payload.failed
                          \cup Unsent(evidence.payload.flags)
                 ELSE Evidence!Shown.red # {}
    <3>1. /\ evidence \in Evidence!Chosen(kind)
          /\ evidence.fault = "none"
          /\ Evidence!Validate(kind, evidence.payload)
          /\ evidence.payload.kind = kind /\ evidence.payload.broken = {}
      BY <2>2 DEF EvidenceInv, Evidence!Validate
    <3>2. \/ \E k \in Evidence!Kinds :
               evidence.payload \in Evidence!Exports(k)
          \/ evidence.payload \in Evidence!Edited(kind)
      BY <3>1 DEF Evidence!Chosen, Evidence!Written
    <3>3. CASE evidence.payload \in Evidence!Exports(kind)
      BY <2>1, <2>2, <3>1, <3>3, ExportsAre, RedOfExports, ShownRed
    <3>4. CASE evidence.payload \notin Evidence!Exports(kind)
      <4>1. evidence.payload \in Evidence!Edited(kind)
        BY <3>1, <3>2, <3>4, ExportsAre
      <4>2. QED
        BY <2>1, <2>2, <3>1, <3>4, <4>1, EditedIsRed, ShownRed
    <3>5. QED
      BY <3>3, <3>4
  <2>3. QED
    BY <2>1, <2>2, ExportsValid, ShownStatus
       DEF ListsAgree, Evidence!ListsAgree, Unsent
<1>2. QED
  BY <1>1, EvidenceInvariant, PTL

=============================================================================
