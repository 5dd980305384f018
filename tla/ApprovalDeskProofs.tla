------------------------- MODULE ApprovalDeskProofs -------------------------
(***************************************************************************)
(* Proofs about ApprovalDesk, for any number of desks, requests, reviewers *)
(* and submissions.  Pages may be arbitrarily old, so the invariant says   *)
(* only what age cannot spoil: an approval that was read is still one, a   *)
(* decision on its way was on offer for the status its page showed, and an *)
(* attempt number tells the answers of a desk apart.                       *)
(***************************************************************************)
EXTENDS ApprovalDesk, TLAPS

\* What a page or a rendering knows of approvals is true now.
Truthful(history) ==
  \A i \in DOMAIN history :
    /\ history[i].request \in Requests
    /\ history[i].status = Approved => status[history[i].request] = Approved

Loading(l) == DOMAIN l = {"phase", "left", "failed", "queue", "history"}

BackendInv ==
  /\ status \in [Requests -> Lifecycle!Status]
  /\ created \in Seq(Requests)

PageInv ==
  /\ page = [d \in Desks |-> page[d]]
  /\ load = [d \in Desks |-> load[d]]
  /\ \A d \in Desks :
       /\ Truthful(page[d].history)
       /\ load[d] = None \/ (Loading(load[d]) /\ Truthful(load[d].history))

SentInv ==
  /\ attempts \in [Desks -> Nat]
  /\ \A m \in sent :
       /\ m.desk \in Desks
       /\ m.attempt \in Nat /\ m.attempt <= attempts[m.desk]
       /\ m.body.panel \in Panel
       /\ m.body.panel = "decision" =>
            m.body.decision \in DecisionOptions(m.body.item.status)

CallInv ==
  /\ notice = [d \in Desks |-> notice[d]]
  /\ call = [d \in Desks |-> [p \in Panel |-> call[d][p]]]
  /\ \A d \in Desks, p \in Panel :
       call[d][p] # None =>
         /\ call[d][p].attempt \in Nat
         /\ call[d][p].attempt <= attempts[d]
         /\ \A m \in sent :
              /\ m.desk = d
              /\ m.attempt = call[d][p].attempt
              => m.body = call[d][p].body

IInv == BackendInv /\ PageInv /\ SentInv /\ CallInv /\ ApprovedOnSight

-----------------------------------------------------------------------------
\* The backend

\* A step of the backend loses no approval.
Keeps ==
  \A r \in Requests : status[r] = Approved => status'[r] = Approved

\* The approval is terminal in the lifecycle.
LEMMA DecideKeeps ==
  ASSUME BackendInv, NEW r, NEW v, NEW from \in SUBSET Open,
         NEW to \in Lifecycle!Status, Lifecycle!Decide(r, v, from, to)
  PROVE  /\ Keeps
         /\ status' \in [Requests -> Lifecycle!Status]
BY DEF BackendInv, Lifecycle!Decide, Keeps, Open, Approved

LEMMA OpenKeeps ==
  ASSUME BackendInv, NEW r \in Requests, Lifecycle!Open(r)
  PROVE  /\ Keeps
         /\ status' \in [Requests -> Lifecycle!Status]
BY DEF BackendInv, Lifecycle!Open, Lifecycle!Status, Keeps, Approved

\* list_histories tells the truth about approvals when it answers.
LEMMA ListIsTruthful ==
  ASSUME BackendInv, NEW limit \in Nat
  PROVE  Truthful(ListHistories(limit))
<1>1. Len(created) \in Nat /\ Min2(limit, Len(created)) \in 0 .. Len(created)
  BY DEF BackendInv, Min2
<1>2. ASSUME NEW i \in 1 .. Min2(limit, Len(created))
      PROVE  created[Len(created) + 1 - i] \in Requests
  <2>1. Len(created) + 1 - i \in 1 .. Len(created)
    BY <1>1
  <2>2. QED
    BY <2>1 DEF BackendInv
<1>3. QED
  BY <1>2 DEF Truthful, ListHistories

-----------------------------------------------------------------------------
\* The desks

\* Pages stay truthful over steps that only start a rendering.
LEMMA PagesStay ==
  ASSUME PageInv, Keeps, page' = page,
         load' = [d \in Desks |-> load'[d]],
         \A d \in Desks : load'[d] \in {load[d], None, StartLoad}
  PROVE  PageInv'
<1>1. ASSUME NEW history, Truthful(history)
      PROVE  \A i \in DOMAIN history :
               /\ history[i].request \in Requests
               /\ history[i].status = Approved =>
                    status'[history[i].request] = Approved
  BY <1>1 DEF Truthful, Keeps
<1>2. ASSUME NEW d \in Desks
      PROVE  /\ Truthful(page[d].history)'
             /\ load'[d] = None
                  \/ (Loading(load[d]) /\ Truthful(load[d].history))'
  <2>1. Truthful(page[d].history)'
    BY <1>1 DEF PageInv, Truthful
  <2>2. CASE load'[d] = load[d]
    BY <2>1, <2>2, <1>1 DEF PageInv, Truthful, Loading
  <2>3. CASE load'[d] = StartLoad
    BY <2>1, <2>3 DEF StartLoad, Loading, Truthful
  <2>4. QED
    BY <2>1, <2>2, <2>3
<1>3. QED
  BY <1>2 DEF PageInv

\* A panel that reads an answer or an error settles its own submission, and
\* shows a success only when there is one.
LEMMA ReceiveFacts ==
  ASSUME PageInv, CallInv, NEW D \in Desks, NEW P \in Panel,
         NEW ok \in BOOLEAN, Receive(D, P, ok),
         sent' \subseteq sent, attempts' = attempts
  PROVE  /\ CallInv'
         /\ load' = [d \in Desks |-> load'[d]]
         /\ \A d \in Desks : load'[d] \in {load[d], None, StartLoad}
         /\ \A d \in Desks, p \in Panel :
              p \in notice'[d] /\ p \notin notice[d] => ok /\ d = D /\ p = P
<1>1. call' = [call EXCEPT ![D][P] = None]
  BY DEF Receive, Settled
<1>2. /\ call = [d \in Desks |-> call[d]]
      /\ \A d \in Desks : call[d] = [p \in Panel |-> call[d][p]]
  BY DEF CallInv
<1>3. call' = [d \in Desks |->
                 IF d = D THEN [call[D] EXCEPT ![P] = None] ELSE call[d]]
  BY <1>1, <1>2
<1>4. [call[D] EXCEPT ![P] = None] =
        [p \in Panel |-> IF p = P THEN None ELSE call[D][p]]
  BY <1>2
<1>5. /\ call' = [d \in Desks |-> [p \in Panel |-> call'[d][p]]]
      /\ \A d \in Desks, p \in Panel :
           call'[d][p] = IF d = D /\ p = P THEN None ELSE call[d][p]
  BY <1>2, <1>3, <1>4
<1>6. notice' = [notice EXCEPT ![D] = IF ok THEN @ \cup {P} ELSE @ \ {P}]
  BY DEF Receive, ShowsSuccess
<1>7. /\ notice' = [d \in Desks |-> notice'[d]]
      /\ \A d \in Desks :
           notice'[d] = IF d = D
                          THEN IF ok THEN notice[d] \cup {P}
                                     ELSE notice[d] \ {P}
                          ELSE notice[d]
  BY <1>6 DEF CallInv
<1>8. CallInv'
  BY <1>5, <1>7 DEF CallInv
<1>9. load' = load \/ load' = [load EXCEPT ![D] = StartLoad]
  BY DEF Receive
<1>10. /\ load' = [d \in Desks |-> load'[d]]
       /\ \A d \in Desks : load'[d] \in {load[d], None, StartLoad}
  BY <1>9 DEF PageInv
<1>11. QED
  BY <1>7, <1>8, <1>10

\* The answer to m settles no other submission, and a success shows on the
\* panel that sent m and still waits for it.
LEMMA AnswerFacts ==
  ASSUME IInv, NEW m \in sent, NEW ok \in BOOLEAN, Answer(m, ok)
  PROVE  /\ SentInv' /\ CallInv'
         /\ page' = page
         /\ load' = [d \in Desks |-> load'[d]]
         /\ \A d \in Desks : load'[d] \in {load[d], None, StartLoad}
         /\ \A d \in Desks, p \in Panel :
              p \in notice'[d] /\ p \notin notice[d] =>
                ok /\ call[d][p].body = m.body
<1>1. /\ m.desk \in Desks /\ m.body.panel \in Panel
      /\ sent' = sent \ {m}
      /\ attempts' = attempts /\ page' = page
  BY DEF IInv, SentInv, Answer
<1>2. SentInv'
  BY <1>1 DEF IInv, SentInv
<1>3. CASE ~Waits(m.desk, m.body.panel, m)
  BY <1>1, <1>2, <1>3 DEF IInv, Answer, CallInv, PageInv
<1>4. CASE Waits(m.desk, m.body.panel, m)
  <2>1. Receive(m.desk, m.body.panel, ok)
    BY <1>4 DEF Answer
  <2>2. /\ call[m.desk][m.body.panel] # None
        /\ call[m.desk][m.body.panel].attempt = m.attempt
    BY <1>4 DEF Waits, None
  <2>3. call[m.desk][m.body.panel].body = m.body
    BY <1>1, <2>2 DEF IInv, CallInv
  <2>4. sent' \subseteq sent
    BY <1>1
  <2>5. PageInv /\ CallInv
    BY DEF IInv
  <2>6. QED
    BY <1>1, <1>2, <2>1, <2>3, <2>4, <2>5, ReceiveFacts
<1>5. QED
  BY <1>3, <1>4

-----------------------------------------------------------------------------
\* The invariant

LEMMA InitIInv == Init => IInv
<1> SUFFICES ASSUME Init PROVE IInv
  OBVIOUS
<1>1. BackendInv
  BY DEF Init, Lifecycle!Init, Lifecycle!Status, BackendInv
<1>2. PageInv
  BY DEF Init, PageInv, FallbackPage, Truthful
<1>3. SentInv /\ CallInv
  BY DEF Init, SentInv, CallInv
<1>4. QED
  BY <1>1, <1>2, <1>3 DEF Init, IInv, ApprovedOnSight

\* What the browsers of others do.
LEMMA ElsewhereStep == IInv /\ Elsewhere => IInv'
<1> SUFFICES ASSUME IInv, Elsewhere PROVE IInv'
  OBVIOUS
<1>1. UNCHANGED <<ledger, page, load, attempts, sent, call, notice>>
  BY DEF Elsewhere
<1>2. Keeps /\ BackendInv'
  <2>1. ASSUME NEW r \in Requests, Lifecycle!Open(r),
               created' = Append(created, r)
        PROVE  Keeps /\ BackendInv'
    BY <2>1, OpenKeeps DEF IInv, BackendInv
  <2>2. ASSUME NEW r \in Requests, NEW v \in Reviewers, created' = created,
               \/ Lifecycle!ApproveResearch(r, v)
               \/ Lifecycle!ApproveSimulation(r, v)
               \/ Lifecycle!Stop(r, v)
        PROVE  Keeps /\ BackendInv'
    <3>1. PICK from \in SUBSET Open, to \in Lifecycle!Status :
            Lifecycle!Decide(r, v, from, to)
      BY <2>2 DEF Lifecycle!ApproveResearch, Lifecycle!ApproveSimulation,
         Lifecycle!Stop, Lifecycle!Status, Open
    <3>2. QED
      BY <2>2, <3>1, DecideKeeps DEF IInv, BackendInv
  <2>3. CASE UNCHANGED <<status, reviewers, created>>
    BY <2>3 DEF IInv, BackendInv, Keeps
  <2>4. QED
    BY <2>1, <2>2, <2>3 DEF Elsewhere
<1>3. PageInv'
  <2>1. /\ load' = [d \in Desks |-> load'[d]]
        /\ \A d \in Desks : load'[d] \in {load[d], None, StartLoad}
    BY <1>1 DEF IInv, PageInv
  <2>2. QED
    BY <1>1, <1>2, <2>1, PagesStay DEF IInv
<1>4. SentInv' /\ CallInv' /\ ApprovedOnSight'
  BY <1>1 DEF IInv, SentInv, CallInv, ApprovedOnSight
<1>5. QED
  BY <1>2, <1>3, <1>4 DEF IInv

\* The rendering of a page: only a fetched history brings news, and it is
\* true when it is fetched.
LEMMA RenderStep ==
  ASSUME IInv, NEW d \in Desks,
         \/ Refresh(d)
         \/ \E resource \in Resource :
              Fetch(d, resource) \/ FetchFails(d, resource)
         \/ Show(d)
  PROVE  IInv'
<1>1. UNCHANGED <<backend, attempts, sent, call, notice>>
  BY DEF Refresh, Fetch, FetchFails, Show
<1>2. BackendInv' /\ SentInv' /\ CallInv' /\ ApprovedOnSight'
  BY <1>1 DEF IInv, backend, BackendInv, SentInv, CallInv, ApprovedOnSight
<1>3. Keeps
  BY <1>1 DEF backend, Keeps
<1>4. ASSUME NEW l, Loading(l), Truthful(l.history),
             load' = [load EXCEPT ![d] = l], page' = page
      PROVE  PageInv'
  BY <1>1, <1>4 DEF IInv, PageInv, backend, Truthful, Loading
<1>5. load[d] # None => Loading(load[d]) /\ Truthful(load[d].history)
  BY DEF IInv, PageInv
<1>6. ASSUME Refresh(d) PROVE PageInv'
  <2>1. Loading(StartLoad) /\ Truthful(StartLoad.history)
    BY DEF StartLoad, Loading, Truthful
  <2>2. QED
    BY <1>4, <1>6, <2>1 DEF Refresh
<1>7. ASSUME NEW resource \in Resource, Fetch(d, resource)
      PROVE  PageInv'
  <2> DEFINE l == [ load[d] EXCEPT
                      !.left = @ \ {resource},
                      !.queue = IF resource = "queue"
                                  THEN ListQueue(QueueLimit) ELSE @,
                      !.history = IF resource = "history"
                                    THEN ListHistories(HistoryLimit) ELSE @ ]
  <2>1. load[d] # None /\ page' = page
    BY <1>7 DEF Fetch
  <2>2. load' = [load EXCEPT ![d] = l]
    BY <1>7 DEF Fetch, IInv, PageInv
  <2>3. Loading(l) /\ l.history = IF resource = "history"
                                   THEN ListHistories(HistoryLimit)
                                   ELSE load[d].history
    BY <1>5, <2>1 DEF Loading
  <2>4. Truthful(ListHistories(HistoryLimit))
    BY ListIsTruthful, ConstantsAssumption DEF IInv, ConstantsAssumption
  <2>5. Truthful(l.history)
    BY <1>5, <2>1, <2>3, <2>4
  <2> HIDE DEF l
  <2>6. QED
    BY <1>4, <2>1, <2>2, <2>3, <2>5
<1>8. ASSUME NEW resource \in Resource, FetchFails(d, resource)
      PROVE  PageInv'
  <2> DEFINE l == [load[d] EXCEPT !.left = @ \ {resource}, !.failed = TRUE]
  <2>1. load[d] # None /\ page' = page
    BY <1>8 DEF FetchFails
  <2>2. load' = [load EXCEPT ![d] = l]
    BY <1>8 DEF FetchFails, IInv, PageInv
  <2>3. Loading(l) /\ l.history = load[d].history
    BY <1>5, <2>1 DEF Loading
  <2>4. Truthful(l.history)
    BY <1>5, <2>1, <2>3
  <2> HIDE DEF l
  <2>5. QED
    BY <1>4, <2>1, <2>2, <2>3, <2>4
<1>9. ASSUME Show(d) PROVE PageInv'
  <2>1. load[d] # None /\ load' = [load EXCEPT ![d] = None]
    BY <1>9 DEF Show
  <2>2. PICK available :
          page' = [page EXCEPT ![d] =
                     [ available |-> available, queue |-> load[d].queue,
                       history |-> load[d].history ]]
    BY <1>9 DEF Show
  <2>3. QED
    BY <1>1, <1>5, <2>1, <2>2
       DEF IInv, PageInv, backend, Truthful, Loading
<1>10. QED
  BY <1>2, <1>6, <1>7, <1>8, <1>9 DEF IInv

LEMMA ReloadStep == ASSUME IInv, NEW d \in Desks, Reload(d) PROVE IInv'
<1>1. UNCHANGED <<backend, attempts, sent>>
  BY DEF Reload
<1>2. BackendInv' /\ SentInv' /\ ApprovedOnSight'
  BY <1>1 DEF IInv, backend, BackendInv, SentInv, ApprovedOnSight
<1>3. CallInv'
  BY <1>1 DEF IInv, CallInv, Reload
<1>4. PageInv'
  <2>1. /\ page' = [page EXCEPT ![d] = FallbackPage]
        /\ load' = [load EXCEPT ![d] = StartLoad]
        /\ status' = status
    BY <1>1 DEF Reload, backend
  <2>2. /\ Truthful(FallbackPage.history)
        /\ Loading(StartLoad) /\ Truthful(StartLoad.history)
    BY DEF FallbackPage, StartLoad, Truthful, Loading
  <2>3. QED
    BY <2>1, <2>2 DEF IInv, PageInv, Truthful
<1>5. QED
  BY <1>2, <1>3, <1>4 DEF IInv

\* Whatever a form sends was on offer on its page.
LEMMA FormFacts ==
  ASSUME NEW p, NEW body \in Form(p)
  PROVE  /\ body.panel \in Panel
         /\ body.panel = "decision" =>
              body.decision \in DecisionOptions(body.item.status)
<1>1. CASE body \in RequestForm(p)
  BY <1>1 DEF RequestForm, Panel
<1>2. CASE body \in DecisionForm(p)
  BY <1>2 DEF DecisionForm, Panel
<1>3. CASE body \in SubmitForm(p)
  BY <1>3 DEF SubmitForm, Panel
<1>4. QED
  BY <1>1, <1>2, <1>3 DEF Form

\* A submission takes a number its desk never used.
LEMMA SubmitStep ==
  ASSUME IInv, NEW d \in Desks, NEW body \in Form(page[d]), Submit(d, body)
  PROVE  IInv'
<1> DEFINE n == attempts[d] + 1
           m == [desk |-> d, attempt |-> n, body |-> body]
           c == [phase |-> "waiting", attempt |-> n, body |-> body]
           P == body.panel
<1>1. /\ attempts' = [attempts EXCEPT ![d] = n]
      /\ sent' = sent \cup {m}
      /\ call' = [call EXCEPT ![d][P] = c]
      /\ notice' = [notice EXCEPT ![d] = @ \ {P}]
      /\ UNCHANGED <<backend, page, load>>
  BY DEF Submit
<1>2. /\ P \in Panel
      /\ P = "decision" => body.decision \in DecisionOptions(body.item.status)
  BY FormFacts
<1>3. /\ attempts[d] \in Nat /\ n \in Nat /\ n > attempts[d]
      /\ m.desk = d /\ m.attempt = n /\ m.body = body
      /\ c.attempt = n /\ c.body = body
  BY DEF IInv, SentInv
<1> HIDE DEF n, m, c, P
<1>4. BackendInv' /\ PageInv' /\ ApprovedOnSight'
  BY <1>1 DEF IInv, backend, BackendInv, PageInv, ApprovedOnSight, Truthful
<1>5. /\ attempts' \in [Desks -> Nat]
      /\ \A e \in Desks :
           attempts'[e] = IF e = d THEN n ELSE attempts[e]
  BY <1>1, <1>3 DEF IInv, SentInv
<1>6. SentInv'
  BY <1>1, <1>2, <1>3, <1>5 DEF IInv, SentInv, P
<1>7. /\ call = [e \in Desks |-> call[e]]
      /\ \A e \in Desks : call[e] = [p \in Panel |-> call[e][p]]
  BY DEF IInv, CallInv
<1>8. call' = [e \in Desks |->
                 IF e = d THEN [call[d] EXCEPT ![P] = c] ELSE call[e]]
  BY <1>1, <1>7
<1>9. [call[d] EXCEPT ![P] = c] =
        [p \in Panel |-> IF p = P THEN c ELSE call[d][p]]
  BY <1>7
<1>10. /\ call' = [e \in Desks |-> [p \in Panel |-> call'[e][p]]]
       /\ \A e \in Desks, p \in Panel :
            call'[e][p] = IF e = d /\ p = P THEN c ELSE call[e][p]
  BY <1>7, <1>8, <1>9
<1>11. notice' = [e \in Desks |-> notice'[e]]
  BY <1>1 DEF IInv, CallInv
<1>12. ASSUME NEW e \in Desks, NEW p \in Panel, call'[e][p] # None
       PROVE  /\ call'[e][p].attempt \in Nat
              /\ call'[e][p].attempt <= attempts'[e]
              /\ \A x \in sent' :
                   x.desk = e /\ x.attempt = call'[e][p].attempt
                   => x.body = call'[e][p].body
  <2>1. CASE e = d /\ p = P
    BY <2>1, <1>1, <1>3, <1>5, <1>10 DEF IInv, SentInv
  <2>2. CASE ~(e = d /\ p = P)
    <3>1. /\ call'[e][p] = call[e][p]
          /\ call[e][p].attempt \in Nat
          /\ call[e][p].attempt <= attempts[e]
          /\ \A x \in sent :
               x.desk = e /\ x.attempt = call[e][p].attempt
               => x.body = call[e][p].body
      BY <2>2, <1>10, <1>12 DEF IInv, CallInv
    <3>2. QED
      BY <3>1, <1>1, <1>3, <1>5
  <2>3. QED
    BY <2>1, <2>2
<1>13. CallInv'
  BY <1>10, <1>11, <1>12 DEF CallInv
<1>14. QED
  BY <1>4, <1>6, <1>13 DEF IInv

LEMMA DisconnectStep ==
  ASSUME IInv, NEW d \in Desks, NEW panel \in Panel, Disconnect(d, panel)
  PROVE  IInv'
<1>1. /\ Receive(d, panel, FALSE)
      /\ UNCHANGED <<backend, page, attempts, sent>>
  BY DEF Disconnect
<1>2. BackendInv' /\ SentInv' /\ ApprovedOnSight' /\ Keeps
  BY <1>1 DEF IInv, backend, BackendInv, SentInv, ApprovedOnSight, Keeps
<1>3. /\ CallInv'
      /\ load' = [e \in Desks |-> load'[e]]
      /\ \A e \in Desks : load'[e] \in {load[e], None, StartLoad}
  BY <1>1, ReceiveFacts DEF IInv
<1>4. PageInv'
  BY <1>1, <1>2, <1>3, PagesStay DEF IInv
<1>5. QED
  BY <1>2, <1>3, <1>4 DEF IInv

\* The approval of a stage is on offer for one status only, and it is the
\* one the backend takes it in.
LEMMA HandleDecisionOnSight ==
  ASSUME IInv, NEW m \in sent, HandleDecision(m)
  PROVE  ApprovedOnSight'
<1> DEFINE r == m.body.item.request
           e == [ request |-> r, reviewer |-> m.body.reviewer,
                  decision |-> m.body.decision,
                  shown |-> m.body.item.status, at |-> status[r] ]
<1>1. m.body.decision \in DecisionOptions(m.body.item.status)
  BY DEF IInv, SentInv, HandleDecision
<1>2. /\ m.body.decision = "research_approved" =>
           status[r] = "pending_review"
      /\ m.body.decision = Approved => status[r] = "research_approved"
  BY DEF HandleDecision, Lifecycle!ApproveResearch,
     Lifecycle!ApproveSimulation, Lifecycle!Decide, Approved
<1>3. ledger' = ledger \cup {e}
  BY DEF HandleDecision
<1>4. e.decision \in {"research_approved", Approved} => e.shown = e.at
  BY <1>1, <1>2 DEF DecisionOptions, Approved
<1>5. QED
  BY <1>3, <1>4 DEF IInv, ApprovedOnSight

LEMMA HandleStep ==
  ASSUME IInv, NEW m \in sent,
         \/ HandleRequest(m)
         \/ HandleDecision(m)
         \/ HandleSubmit(m)
         \/ HandleFails(m)
  PROVE  IInv'
<1>1. \E ok \in BOOLEAN : Answer(m, ok)
  BY DEF HandleRequest, HandleDecision, HandleSubmit, HandleFails
<1>2. /\ SentInv' /\ CallInv'
      /\ page' = page
      /\ load' = [d \in Desks |-> load'[d]]
      /\ \A d \in Desks : load'[d] \in {load[d], None, StartLoad}
  BY <1>1, AnswerFacts
<1>3. Keeps /\ BackendInv'
  <2>1. CASE HandleRequest(m)
    BY <2>1, OpenKeeps DEF HandleRequest, IInv, BackendInv
  <2>2. CASE HandleDecision(m)
    <3>1. PICK from \in SUBSET Open, to \in Lifecycle!Status :
            Lifecycle!Decide(m.body.item.request, m.body.reviewer, from, to)
      BY <2>2 DEF HandleDecision, Lifecycle!ApproveResearch,
         Lifecycle!ApproveSimulation, Lifecycle!Status, Open
    <3>2. created' = created
      BY <2>2 DEF HandleDecision
    <3>3. QED
      BY <3>1, <3>2, DecideKeeps DEF IInv, BackendInv
  <2>3. CASE HandleSubmit(m) \/ HandleFails(m)
    BY <2>3 DEF HandleSubmit, HandleFails, backend, IInv, BackendInv, Keeps
  <2>4. QED
    BY <2>1, <2>2, <2>3
<1>4. PageInv'
  BY <1>2, <1>3, PagesStay DEF IInv
<1>5. ApprovedOnSight'
  <2>1. CASE HandleDecision(m)
    BY <2>1, HandleDecisionOnSight
  <2>2. CASE HandleRequest(m) \/ HandleSubmit(m) \/ HandleFails(m)
    BY <2>2 DEF HandleRequest, HandleSubmit, HandleFails, backend, IInv,
       ApprovedOnSight
  <2>3. QED
    BY <2>1, <2>2
<1>6. QED
  BY <1>2, <1>3, <1>4, <1>5 DEF IInv

\* The invariant the properties of the desk rest on.
THEOREM Inductive == Spec => []IInv
<1>1. IInv /\ [Next]_vars => IInv'
  <2> SUFFICES ASSUME IInv, [Next]_vars PROVE IInv'
    OBVIOUS
  <2>1. CASE Next
    BY <2>1, ElsewhereStep, RenderStep, ReloadStep, SubmitStep,
       DisconnectStep, HandleStep DEF Next
  <2>2. CASE UNCHANGED vars
    BY <2>2 DEF vars, backend, IInv, BackendInv, PageInv, SentInv, CallInv,
       ApprovedOnSight, Truthful, Loading
  <2>3. QED
    BY <2>1, <2>2
<1>2. QED
  BY InitIInv, <1>1, PTL DEF Spec

-----------------------------------------------------------------------------

\* An approval that record_decision stores was given on a page showing the
\* status the request then had, however many desks decide on however old
\* pages.
THEOREM ApprovedOnSightSafe == Spec => []ApprovedOnSight
<1>1. IInv => ApprovedOnSight
  BY DEF IInv
<1>2. QED
  BY <1>1, Inductive, PTL

\* The submit panel offers only what the backend still holds approved.
THEOREM OfferedIsApprovedSafe == Spec => []OfferedIsApproved
<1>1. IInv => OfferedIsApproved
  BY DEF IInv, PageInv, Truthful, OfferedIsApproved, Offered, Elements
<1>2. QED
  BY <1>1, Inductive, PTL

\* A panel shows a success only for what is on record: the answer it takes
\* is the one to the submission it waits for.
THEOREM SuccessIsRecordedSafe == Spec => SuccessIsRecorded
<1> DEFINE Recorded ==
             \A d \in Desks, panel \in Panel :
               /\ panel \in notice'[d]
               /\ panel \notin notice[d]
               => \A body \in {call[d][panel].body} : OnRecord(body)'
<1>1. IInv /\ [Next]_vars => [Recorded]_vars
  <2> SUFFICES ASSUME IInv, Next PROVE Recorded
    OBVIOUS
  <2>1. ASSUME NEW m \in sent, NEW ok \in BOOLEAN, Answer(m, ok),
               ok => OnRecord(m.body)'
        PROVE  Recorded
    BY <2>1, AnswerFacts
  <2>2. ASSUME NEW m \in sent, HandleRequest(m)
        PROVE  OnRecord(m.body)'
    <3>1. PICK r \in Requests : created' = Append(created, r)
      BY <2>2 DEF HandleRequest
    <3>2. created' # <<>>
      BY <3>1 DEF IInv, BackendInv
    <3>3. QED
      BY <2>2, <3>2 DEF HandleRequest, OnRecord
  <2>3. ASSUME NEW m \in sent, HandleDecision(m)
        PROVE  OnRecord(m.body)'
    <3> DEFINE e == [ request |-> m.body.item.request,
                      reviewer |-> m.body.reviewer,
                      decision |-> m.body.decision,
                      shown |-> m.body.item.status,
                      at |-> status[m.body.item.request] ]
    <3>1. m.body.panel = "decision" /\ e \in ledger'
      BY <2>3 DEF HandleDecision
    <3>2. /\ e.request = m.body.item.request
          /\ e.reviewer = m.body.reviewer
          /\ e.decision = m.body.decision
      OBVIOUS
    <3> HIDE DEF e
    <3>3. QED
      BY <3>1, <3>2 DEF OnRecord
  <2>4. ASSUME NEW m \in sent, HandleSubmit(m)
        PROVE  OnRecord(m.body)'
    BY <2>4 DEF HandleSubmit, OnRecord
  <2>5. ASSUME NEW m \in sent,
               \/ HandleRequest(m) \/ HandleDecision(m)
               \/ HandleSubmit(m) \/ HandleFails(m)
        PROVE  Recorded
    <3>1. HandleRequest(m) => Answer(m, TRUE)
      BY DEF HandleRequest
    <3>2. HandleDecision(m) \/ HandleSubmit(m) => Answer(m, TRUE)
      BY DEF HandleDecision, HandleSubmit
    <3>3. HandleFails(m) => Answer(m, FALSE)
      BY DEF HandleFails
    <3> HIDE DEF Recorded
    <3>4. QED
      BY <2>1, <2>2, <2>3, <2>4, <2>5, <3>1, <3>2, <3>3
  <2>6. ASSUME NEW d \in Desks, NEW panel \in Panel, Disconnect(d, panel)
        PROVE  Recorded
    BY <2>6, ReceiveFacts DEF Disconnect, IInv
  <2>7. CASE UNCHANGED notice
    BY <2>7
  <2>8. ASSUME NEW d \in Desks, Reload(d)
        PROVE  Recorded
    BY <2>8 DEF Reload, IInv, CallInv
  <2>9. ASSUME NEW d \in Desks, NEW body \in Form(page[d]), Submit(d, body)
        PROVE  Recorded
    BY <2>9 DEF Submit, IInv, CallInv
  <2> HIDE DEF Recorded
  <2>10. QED
    BY <2>5, <2>6, <2>7, <2>8, <2>9
       DEF Next, Elsewhere, Refresh, Fetch, FetchFails, Show
<1>2. QED
  BY <1>1, Inductive, PTL DEF Spec, SuccessIsRecorded

=============================================================================
