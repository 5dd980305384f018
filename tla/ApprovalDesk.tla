---------------------------- MODULE ApprovalDesk ----------------------------
(***************************************************************************)
(* The approval panels of the Command Center                               *)
(* (frontend/app/components/PaperApproval{Request,Decision}Panel.tsx and   *)
(* PaperSimulationSubmitPanel.tsx), open in several browsers.              *)
(*                                                                         *)
(* A page is a snapshot: page.tsx reads status, queue and history in       *)
(* parallel when it is rendered, and the panels act on what they were      *)
(* given, however old it is, until the next refresh.  A submission is a    *)
(* POST without a timeout.  Its answer may be lost, and a reload abandons  *)
(* it while the backend may still be at it.  Desks meet only at the        *)
(* backend, where others act as well.                                      *)
(*                                                                         *)
(* The approval store is its abstract lifecycle, which PaperApproval       *)
(* implements.  The free text of the forms is left out; the role of a      *)
(* reviewer only matters when it makes the backend refuse, which it may do *)
(* here at any time.                                                       *)
(***************************************************************************)
EXTENDS Integers, Sequences

CONSTANTS
  Desks,        \* browsers
  Requests,     \* approval requests that may be created
  Reviewers,    \* what may be typed as reviewer id
  Orders,       \* symbol and quantity of a simulation
  Simulations,  \* broker simulations
  QueueLimit,   \* the limit page.tsx asks the queue with
  HistoryLimit, \* the limit page.tsx asks the history with
  MaxAttempts   \* bound on the submissions from one desk

ConstantsAssumption ==
  /\ QueueLimit \in Nat \ {0}
  /\ HistoryLimit \in Nat \ {0}
  /\ MaxAttempts \in Nat

ASSUME ConstantsAssumption

VARIABLES
  status,     \* of each request at the backend
  reviewers,  \* who has decided on it
  created,    \* the requests, oldest first
  ledger,     \* the decisions on record, with what their desk showed
  runs,       \* the recorded run of each order of a request
  page,       \* what each desk shows
  load,       \* the rendering under way for each desk
  attempts,   \* submissions from each desk so far
  sent,       \* submissions on their way to the backend
  call,       \* the submission each panel waits for
  notice      \* the panels that show a success

backend == <<status, reviewers, created, ledger, runs>>
vars == <<backend, page, load, attempts, sent, call, notice>>

Lifecycle == INSTANCE ApprovalLifecycle

-----------------------------------------------------------------------------

Panel == {"request", "decision", "submit"}

Resource == {"queue", "history"}

\* PaperApprovalHistory
Item == [request : Requests, status : Lifecycle!Status \ {"absent"}]

\* available: whether the status of the approvals came, and whether queue
\* and history came as well.
Page ==
  [ available : {"nothing", "status", "all"},
    queue : Seq(Item), history : Seq(Item) ]

\* A page whose fetches all failed.
FallbackPage == [available |-> "nothing", queue |-> <<>>, history |-> <<>>]

None == [phase |-> "none"]

Open == {"pending_review", "research_approved"}

Approved == "approved_for_paper_simulation"

-----------------------------------------------------------------------------
\* What the panels offer

\* Mutation: every decision is on offer for every open request.
DecisionOptionsAll(s) ==
  IF s \in Open
    THEN {"research_approved", Approved, "rejected", "needs_data_review"}
    ELSE {}

\* getDecisionOptions
DecisionOptions(s) ==
  CASE s = "pending_review" ->
         {"research_approved", "rejected", "needs_data_review"}
    [] s = "research_approved" ->
         {Approved, "rejected", "needs_data_review"}
    [] OTHER -> {}

Elements(seq) == {seq[i] : i \in DOMAIN seq}

\* actionableQueue
Actionable(p) == {item \in Elements(p.queue) : item.status \in Open}

\* Mutation: whatever was not refused is offered.
OfferedAny(p) ==
  {item.request : item \in
    { i \in Elements(p.history) :
        i.status \notin {"rejected", "needs_data_review"} }}

\* approvedApprovalHistories
Offered(p) ==
  {item.request : item \in
    {i \in Elements(p.history) : i.status = Approved}}

\* The three forms: everything they can send from a page.  The fields only
\* choose among it, and none is cleared when the page is refreshed.
RequestForm(p) ==
  IF p.available # "nothing" THEN {[panel |-> "request"]} ELSE {}

DecisionForm(p) ==
  { body \in
      [ panel : {"decision"}, item : Actionable(p), reviewer : Reviewers,
        decision :
          UNION {DecisionOptions(item.status) : item \in Actionable(p)} ] :
      /\ p.available = "all"
      /\ body.decision \in DecisionOptions(body.item.status) }

SubmitForm(p) ==
  [ panel : {"submit"}, request : Offered(p), order : Orders,
    simulation : Simulations ]

Form(p) == RequestForm(p) \cup DecisionForm(p) \cup SubmitForm(p)

-----------------------------------------------------------------------------
\* What the backend answers

Min2(a, b) == IF a < b THEN a ELSE b

\* list_histories: the newest requests, the newest first.
ListHistories(limit) ==
  [ i \in 1..Min2(limit, Len(created)) |->
      LET r == created[Len(created) + 1 - i] IN
        [request |-> r, status |-> status[r]] ]

\* list_queue: the open ones among the newest requests.
ListQueue(limit) ==
  SelectSeq(ListHistories(limit), LAMBDA item : item.status \in Open)

Init ==
  /\ Lifecycle!Init
  /\ created = <<>>
  /\ ledger = {}
  /\ runs = [r \in {} |-> None]
  /\ page = [d \in Desks |-> FallbackPage]
  /\ load = [d \in Desks |-> None]
  /\ attempts = [d \in Desks |-> 0]
  /\ sent = {}
  /\ call = [d \in Desks |-> [p \in Panel |-> None]]
  /\ notice = [d \in Desks |-> {}]

-----------------------------------------------------------------------------
\* Rendering the page

StartLoad ==
  [ phase |-> "loading", left |-> Resource, failed |-> FALSE,
    queue |-> <<>>, history |-> <<>> ]

\* router.refresh: the panels keep their state.
Refresh(d) ==
  /\ load[d] = None
  /\ load' = [load EXCEPT ![d] = StartLoad]
  /\ UNCHANGED <<backend, page, attempts, sent, call, notice>>

\* window.location.reload, or a new visit: the panels start afresh.
Reload(d) ==
  /\ load' = [load EXCEPT ![d] = StartLoad]
  /\ call' = [call EXCEPT ![d] = [p \in Panel |-> None]]
  /\ notice' = [notice EXCEPT ![d] = {}]
  /\ page' = [page EXCEPT ![d] = FallbackPage]
  /\ UNCHANGED <<backend, attempts, sent>>

\* One of the parallel fetches is answered in time.
Fetch(d, resource) ==
  /\ load[d] # None
  /\ resource \in load[d].left
  /\ load' =
       [ load EXCEPT
           ![d].left = @ \ {resource},
           ![d].queue = IF resource = "queue" THEN ListQueue(QueueLimit) ELSE @,
           ![d].history =
             IF resource = "history" THEN ListHistories(HistoryLimit) ELSE @ ]
  /\ UNCHANGED <<backend, page, attempts, sent, call, notice>>

\* It fails or takes more than two seconds: the fallback stays.
FetchFails(d, resource) ==
  /\ load[d] # None
  /\ resource \in load[d].left
  /\ load' = [load EXCEPT ![d].left = @ \ {resource}, ![d].failed = TRUE]
  /\ UNCHANGED <<backend, page, attempts, sent, call, notice>>

\* All have ended.  The status of the approvals is constant, so only whether
\* it came matters.
Show(d) ==
  /\ load[d] # None
  /\ load[d].left = {}
  /\ \E available \in {"nothing", IF load[d].failed THEN "status" ELSE "all"} :
       page' = [page EXCEPT ![d] =
                  [ available |-> available,
                    queue |-> load[d].queue, history |-> load[d].history ]]
  /\ load' = [load EXCEPT ![d] = None]
  /\ UNCHANGED <<backend, attempts, sent, call, notice>>

-----------------------------------------------------------------------------
\* Submitting a form

\* The button is disabled while the panel waits (isSubmitting).
Submit(d, body) ==
  LET n == attempts[d] + 1 IN
    /\ n <= MaxAttempts
    /\ body \in Form(page[d])
    /\ call[d][body.panel] = None
    /\ attempts' = [attempts EXCEPT ![d] = n]
    /\ sent' = sent \cup {[desk |-> d, attempt |-> n, body |-> body]}
    /\ call' = [call EXCEPT ![d][body.panel] =
                  [phase |-> "waiting", attempt |-> n, body |-> body]]
    /\ notice' = [notice EXCEPT ![d] = @ \ {body.panel}]
    /\ UNCHANGED <<backend, page, load>>

\* Mutation: only a success gives the button back.
SettledOnSuccess(c, ok) == IF ok THEN None ELSE c

\* The finally branch: whatever came, the panel no longer waits.
Settled(c, ok) == None

\* Mutation: an error is shown like a success.
ShowsSuccessAlways(ok) == TRUE

\* The result and the success message, rather than the error message.
ShowsSuccess(ok) == ok

\* What a panel makes of an answer or an error; a new request refreshes the
\* page.
Receive(d, panel, ok) ==
  /\ call' = [call EXCEPT ![d][panel] = Settled(@, ok)]
  /\ notice' = [notice EXCEPT ![d] =
                  IF ShowsSuccess(ok) THEN @ \cup {panel} ELSE @ \ {panel}]
  /\ load' = IF panel = "request" /\ ok /\ load[d] = None
                THEN [load EXCEPT ![d] = StartLoad] ELSE load

Waits(d, panel, m) ==
  call[d][panel].phase = "waiting" /\ call[d][panel].attempt = m.attempt

\* The backend is done with m and the panel reads the answer, unless it has
\* given up on it.  An answer that gets lost is one that was given up before.
Answer(m, ok) ==
  /\ sent' = sent \ {m}
  /\ IF Waits(m.desk, m.body.panel, m)
       THEN Receive(m.desk, m.body.panel, ok)
       ELSE UNCHANGED <<call, notice, load>>
  /\ UNCHANGED <<page, attempts>>

\* create_request
HandleRequest(m) ==
  /\ m.body.panel = "request"
  /\ \E r \in Requests :
       /\ Lifecycle!Open(r)
       /\ created' = Append(created, r)
       /\ Answer(m, TRUE)
  /\ UNCHANGED <<ledger, runs>>

\* record_decision accepts the decision.
HandleDecision(m) ==
  /\ m.body.panel = "decision"
  /\ LET r == m.body.item.request
         v == m.body.reviewer
         decision == m.body.decision IN
       /\ \/ decision = "research_approved" /\ Lifecycle!ApproveResearch(r, v)
          \/ decision = Approved /\ Lifecycle!ApproveSimulation(r, v)
          \/ /\ decision \in {"rejected", "needs_data_review"}
             /\ Lifecycle!Decide(r, v, Open, decision)
       /\ ledger' =
            ledger \cup
              { [ request |-> r, reviewer |-> v, decision |-> decision,
                  shown |-> m.body.item.status, at |-> status[r] ] }
       /\ Answer(m, TRUE)
  /\ UNCHANGED <<created, runs>>

\* POST /workflow/record accepts the run: approved, and no other run has
\* the key of the order.
HandleSubmit(m) ==
  /\ m.body.panel = "submit"
  /\ LET key == <<m.body.request, m.body.order>> IN
       /\ status[m.body.request] = Approved
       /\ key \in DOMAIN runs => runs[key] = m.body.simulation
       /\ runs' = [k \in DOMAIN runs \cup {key} |->
                     IF k = key THEN m.body.simulation ELSE runs[k]]
       /\ Answer(m, TRUE)
  /\ UNCHANGED <<status, reviewers, created, ledger>>

\* Any error answer: a refused transition, an unfit role, a taken key, a
\* locked database.
HandleFails(m) ==
  /\ Answer(m, FALSE)
  /\ UNCHANGED backend

\* The connection breaks, before or after the backend was reached; what was
\* sent may still be handled.
Disconnect(d, panel) ==
  /\ call[d][panel] # None
  /\ Receive(d, panel, FALSE)
  /\ UNCHANGED <<backend, page, attempts, sent>>

\* What other browsers and scripts do with the same backend.
Elsewhere ==
  /\ \/ \E r \in Requests :
          /\ Lifecycle!Open(r)
          /\ created' = Append(created, r)
          /\ UNCHANGED runs
     \/ \E r \in Requests, v \in Reviewers :
          /\ \/ Lifecycle!ApproveResearch(r, v)
             \/ Lifecycle!ApproveSimulation(r, v)
             \/ Lifecycle!Stop(r, v)
          /\ UNCHANGED <<created, runs>>
     \/ \E r \in Requests, order \in Orders, simulation \in Simulations :
          /\ status[r] = Approved
          /\ <<r, order>> \notin DOMAIN runs
          /\ runs' = [k \in DOMAIN runs \cup {<<r, order>>} |->
                        IF k = <<r, order>> THEN simulation ELSE runs[k]]
          /\ UNCHANGED <<status, reviewers, created>>
  /\ UNCHANGED <<ledger, page, load, attempts, sent, call, notice>>

Next ==
  \/ Elsewhere
  \/ \E d \in Desks :
       \/ Refresh(d)
       \/ Reload(d)
       \/ \E resource \in Resource :
            Fetch(d, resource) \/ FetchFails(d, resource)
       \/ Show(d)
       \/ \E body \in Form(page[d]) : Submit(d, body)
       \/ \E panel \in Panel : Disconnect(d, panel)
  \/ \E m \in sent :
       \/ HandleRequest(m)
       \/ HandleDecision(m)
       \/ HandleSubmit(m)
       \/ HandleFails(m)

(***************************************************************************)
(* A connection does not stay open for ever without an answer: the panel   *)
(* gets one, or the browser reports an error.  Nobody is obliged to click, *)
(* to reload or to handle what was sent.                                   *)
(***************************************************************************)
Fairness ==
  \A d \in Desks, panel \in Panel :
    WF_vars(Disconnect(d, panel))

Spec == Init /\ [][Next]_vars /\ Fairness

-----------------------------------------------------------------------------

Body ==
  [panel : {"request"}]
  \cup [ panel : {"decision"}, item : Item, reviewer : Reviewers,
         decision : Lifecycle!Status ]
  \cup [ panel : {"submit"}, request : Requests, order : Orders,
         simulation : Simulations ]

TypeOK ==
  /\ Lifecycle!TypeOK
  /\ created \in Seq(Requests)
  /\ \A e \in ledger :
       /\ e.request \in Requests /\ e.reviewer \in Reviewers
       /\ e.decision \in Lifecycle!Status
       /\ e.shown \in Open /\ e.at \in Open
  /\ \A key \in DOMAIN runs :
       key \in Requests \X Orders /\ runs[key] \in Simulations
  /\ page \in [Desks -> Page]
  /\ \A d \in Desks :
       load[d] # None =>
         /\ load[d].left \subseteq Resource
         /\ load[d].queue \in Seq(Item) /\ load[d].history \in Seq(Item)
  /\ attempts \in [Desks -> 0..MaxAttempts]
  /\ \A m \in sent :
       m.desk \in Desks /\ m.attempt \in 1..MaxAttempts /\ m.body \in Body
  /\ \A d \in Desks, panel \in Panel :
       call[d][panel].phase \in {"none", "waiting"}
  /\ notice \in [Desks -> SUBSET Panel]

(***************************************************************************)
(* Nobody approves what they did not see: an approval on record was given  *)
(* on a page that showed the status the request then had, although pages   *)
(* are never refreshed after a decision and answers arrive late.  A        *)
(* refusal may be given on an older view.  It takes the options of the     *)
(* panel and the rules of the store together.                              *)
(***************************************************************************)
ApprovedOnSight ==
  \A e \in ledger :
    e.decision \in {"research_approved", Approved} => e.shown = e.at

(***************************************************************************)
(* Whatever the submit panel offers is approved at the backend, now and    *)
(* not only when the page was read (docs/paper-approval-workflow.md:72-80).*)
(***************************************************************************)
OfferedIsApproved ==
  \A d \in Desks : \A r \in Offered(page[d]) : status[r] = Approved

\* What a submission asked for is on record.
OnRecord(body) ==
  CASE body.panel = "request" -> created # <<>>
    [] body.panel = "decision" ->
         \E e \in ledger :
           /\ e.request = body.item.request
           /\ e.reviewer = body.reviewer
           /\ e.decision = body.decision
    [] body.panel = "submit" ->
         LET key == <<body.request, body.order>> IN
           key \in DOMAIN runs /\ runs[key] = body.simulation

(***************************************************************************)
(* A panel shows a success only for what is on record, over lost answers,  *)
(* retries and reloads: an answer to an abandoned submission is never      *)
(* taken for the answer to a later one.                                    *)
(***************************************************************************)
SuccessIsRecorded ==
  [][\A d \in Desks, panel \in Panel :
       /\ panel \in notice'[d]
       /\ panel \notin notice[d]
       => \A body \in {call[d][panel].body} : OnRecord(body)']_vars

(***************************************************************************)
(* A panel that was submitted becomes usable again: no lost answer, error  *)
(* or refusal leaves its button disabled for good.  (A desk submits        *)
(* MaxAttempts times at most, so in the end no panel waits.)               *)
(***************************************************************************)
SubmissionEnds ==
  <>[](\A d \in Desks, panel \in Panel : call[d][panel] = None)

=============================================================================
