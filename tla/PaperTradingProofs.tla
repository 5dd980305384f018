------------------------- MODULE PaperTradingProofs -------------------------
(***************************************************************************)
(* Proofs about PaperTrading, for any sets of requests, reviewers, orders, *)
(* simulations and concurrent calls on both stores.                        *)
(*                                                                         *)
(* A record call acts on an approval it read earlier, over a connection of *)
(* its own and outside the transaction that records the run.               *)
(* That is safe because an approval is final (DecidedStep): whoever holds  *)
(* an admitted run, a record call on its way or a stored run, the approval *)
(* of its request is still there.                                          *)
(***************************************************************************)
EXTENDS PaperTrading, TLAPS

Ledger == INSTANCE PaperApprovalProofs WITH Clients <- Deciders

IsApproved(r) ==
  Approval!ApprovalStatus(decisions[r]) = "approved_for_paper_simulation"

\* The run was made under a request that is approved now.
Covered(run) == RequestOf(run) \in Requests /\ IsApproved(RequestOf(run))

StoreInv ==
  /\ calls = [c \in Recorders |-> calls[c]]
  /\ admitted = [c \in Recorders |-> admitted[c]]
  /\ \A c \in Recorders :
       /\ admitted[c] # None => Covered(admitted[c])
       /\ calls[c].op = "record" => Covered(calls[c].run)
  /\ \A run \in DOMAIN runs : Covered(run)

IInv == Ledger!IInv /\ StoreInv

-----------------------------------------------------------------------------

LEMMA RequestOfRun ==
  ASSUME NEW run \in Store!Run PROVE RequestOf(run) \in Requests
BY ApprovalOfAssumption DEF Store!Run, Store!OrderOf, RequestOf

\* The two instances of the approval store are one.
LEMMA SameStatus ==
  /\ Approval!Next <=> Ledger!Next
  /\ \A log : Approval!ApprovalStatus(log) = Ledger!ApprovalStatus(log)
BY DEF Approval!Next, Ledger!Next,
       Approval!CreateRequest, Ledger!CreateRequest,
       Approval!ReadAndBuild, Ledger!ReadAndBuild,
       Approval!Insert, Ledger!Insert,
       Approval!InsertFails, Ledger!InsertFails,
       Approval!Return, Ledger!Return,
       Approval!DecisionCreate, Ledger!DecisionCreate,
       Approval!Decision, Ledger!Decision,
       Approval!Role, Ledger!Role,
       Approval!Idle, Ledger!Idle,
       Approval!ValidDecision, Ledger!ValidDecision,
       Approval!ApprovalStatus, Ledger!ApprovalStatus,
       Approval!Has, Ledger!Has,
       Approval!TerminalStatus, Ledger!TerminalStatus,
       Approval!NewReviewer, Ledger!NewReviewer,
       Approval!RoleFits, Ledger!RoleFits,
       Approval!BuildRecord, Ledger!BuildRecord,
       Approval!LatestHash, Ledger!LatestHash,
       Approval!DecisionHash, Ledger!DecisionHash,
       Approval!RequestHash, Ledger!RequestHash,
       Approval!SequenceFree, Ledger!SequenceFree,
       Approval!StoreRow, Ledger!StoreRow

\* Approvals that are covered stay covered.
LEMMA CoveredStays ==
  ASSUME NEW run, Covered(run),
         \/ Ledger!IInv /\ [Ledger!Next]_(Ledger!vars)
         \/ decisions' = decisions
  PROVE  Covered(run)'
<1>1. RequestOf(run)' = RequestOf(run)
  BY DEF RequestOf, Store!OrderOf
<1>2. CASE decisions' = decisions
  BY <1>1, <1>2 DEF Covered, IsApproved, Approval!ApprovalStatus,
     Approval!Has
<1>3. CASE Ledger!IInv /\ [Ledger!Next]_(Ledger!vars)
  <2>1. Ledger!ApprovalStatus(decisions[RequestOf(run)])
          \in Ledger!TerminalStatus
    BY SameStatus DEF Covered, IsApproved, Ledger!TerminalStatus
  <2>2. decisions'[RequestOf(run)] = decisions[RequestOf(run)]
    BY <1>3, <2>1, Ledger!DecidedStep DEF Covered
  <2>3. QED
    BY <1>1, <2>2 DEF Covered, IsApproved, Approval!ApprovalStatus,
       Approval!Has
<1>4. QED
  BY <1>2, <1>3

\* Steps of the approval store take no approval from under a run.
LEMMA DecideStep == IInv /\ Decide => IInv'
<1> SUFFICES ASSUME IInv, Decide PROVE IInv'
  OBVIOUS
<1>1. Ledger!Next /\ UNCHANGED <<storeVars, admitted>>
  BY SameStatus DEF Decide
<1>2. Ledger!IInv'
  BY <1>1, Ledger!NextIInv DEF IInv
<1>3. \A run : Covered(run) => Covered(run)'
  BY <1>1, CoveredStays DEF IInv
<1>4. StoreInv'
  BY <1>1, <1>3 DEF IInv, StoreInv, storeVars
<1>5. QED
  BY <1>2, <1>4 DEF IInv

\* The other steps leave the approvals as they are.
LEMMA LedgerStays ==
  ASSUME IInv, UNCHANGED approvalVars
  PROVE  /\ Ledger!IInv'
         /\ \A run : Covered(run) => Covered(run)'
<1>1. UNCHANGED Ledger!vars /\ decisions' = decisions
  BY DEF approvalVars, Ledger!vars
<1>2. QED
  BY <1>1, Ledger!NextIInv, CoveredStays DEF IInv

\* A run is admitted under an approval that is there when it is read.
LEMMA AdmitStep ==
  ASSUME IInv, NEW c \in Recorders, NEW run \in Store!Run, Admit(c, run)
  PROVE  IInv'
<1>1. Covered(run)
  BY RequestOfRun DEF Admit, Admissible, Covered, IsApproved
<1>2. UNCHANGED approvalVars /\ UNCHANGED storeVars
  BY DEF Admit
<1>3. admitted' = [admitted EXCEPT ![c] = run]
  BY DEF Admit
<1>4. StoreInv'
  BY <1>1, <1>2, <1>3, LedgerStays DEF IInv, StoreInv, storeVars
<1>5. QED
  BY <1>2, <1>4, LedgerStays DEF IInv

\* Only an admitted run gets to the store.
LEMMA RecordStep ==
  ASSUME IInv, NEW c \in Recorders, Record(c)
  PROVE  IInv'
<1>1. UNCHANGED approvalVars /\ runs' = runs /\ admitted[c] # None
  BY DEF Record, Store!RecordCheck, Store!tables
<1>2. PICK path, now :
        calls' = [calls EXCEPT ![c] =
                    [op |-> "record", run |-> admitted[c], path |-> path,
                     now |-> now]]
  BY DEF Record, Store!RecordCheck
<1>3. admitted' = [admitted EXCEPT ![c] = None]
  BY DEF Record
<1>4. StoreInv'
  BY <1>1, <1>2, <1>3, LedgerStays DEF IInv, StoreInv
<1>5. QED
  BY <1>1, <1>4, LedgerStays DEF IInv

LEMMA RefuseStep ==
  ASSUME IInv, NEW c \in Recorders, Refuse(c)
  PROVE  IInv'
<1>1. UNCHANGED approvalVars /\ UNCHANGED storeVars
  BY DEF Refuse
<1>2. StoreInv'
  BY <1>1, LedgerStays DEF Refuse, IInv, StoreInv, storeVars
<1>3. QED
  BY <1>1, <1>2, LedgerStays DEF IInv

\* A commit stores the run its call was admitted with; a mark stores none.
LEMMA ExecuteStep ==
  ASSUME IInv, NEW c \in Recorders, Execute(c)
  PROVE  IInv'
<1>1. UNCHANGED approvalVars /\ admitted' = admitted
  BY DEF Execute
<1>2. CASE Store!RecordCommit(c)
  <2>1. PICK row : runs' = Store!Put(runs, calls[c].run, row)
    BY <1>2 DEF Store!RecordCommit
  <2>2. DOMAIN runs' = DOMAIN runs \cup {calls[c].run}
    BY <2>1 DEF Store!Put
  <2>3. Covered(calls[c].run)
    BY <1>2 DEF Store!RecordCommit, IInv, StoreInv
  <2>4. calls' = [calls EXCEPT ![c] = Store!Idle]
    BY <1>2 DEF Store!RecordCommit
  <2>5. StoreInv'
    BY <1>1, <2>2, <2>3, <2>4, LedgerStays DEF IInv, StoreInv, Store!Idle
  <2>6. QED
    BY <1>1, <2>5, LedgerStays DEF IInv
<1>3. CASE ~Store!RecordCommit(c)
  <2>1. DOMAIN runs' = DOMAIN runs
    BY <1>3 DEF Execute, Store!MarkReadRun, Store!MarkReadStatus,
       Store!MarkReadReport, Store!MarkCommit, Store!Abandon, Store!tables,
       Store!RunsMarked
  <2>2. PICK call : /\ calls' = [calls EXCEPT ![c] = call]
                    /\ call.op # "record"
    BY <1>3 DEF Execute, Store!MarkReadRun, Store!MarkReadStatus,
       Store!MarkReadReport, Store!MarkCommit, Store!Abandon, Store!Idle
  <2>3. StoreInv'
    BY <1>1, <2>1, <2>2, LedgerStays DEF IInv, StoreInv
  <2>4. QED
    BY <1>1, <2>3, LedgerStays DEF IInv
<1>4. QED
  BY <1>2, <1>3

LEMMA TickStep == IInv /\ Tick => IInv'
<1> SUFFICES ASSUME IInv, Tick PROVE IInv'
  OBVIOUS
<1>1. UNCHANGED approvalVars /\ UNCHANGED <<runs, calls, admitted>>
  BY DEF Tick, Store!Tick, Store!tables
<1>2. StoreInv'
  BY <1>1, LedgerStays DEF IInv, StoreInv
<1>3. QED
  BY <1>1, <1>2, LedgerStays DEF IInv

\* The invariant the property rests on.
THEOREM Inductive == Spec => []IInv
<1>1. Init => IInv
  <2> SUFFICES ASSUME Init PROVE IInv
    OBVIOUS
  <2>1. Ledger!Init
    BY DEF Init, Approval!Init, Ledger!Init, Approval!Idle, Ledger!Idle
  <2>2. StoreInv
    BY DEF Init, Store!Init, StoreInv, Store!Idle
  <2>3. QED
    BY <2>1, <2>2, Ledger!InitIInv DEF IInv
<1>2. IInv /\ [Next]_vars => IInv'
  <2> SUFFICES ASSUME IInv, [Next]_vars PROVE IInv'
    OBVIOUS
  <2>1. CASE Next
    BY <2>1, DecideStep, TickStep, AdmitStep, RecordStep, RefuseStep,
       ExecuteStep DEF Next
  <2>2. CASE UNCHANGED vars
    <3>1. UNCHANGED approvalVars /\ UNCHANGED storeVars
          /\ admitted' = admitted
      BY <2>2 DEF vars
    <3>2. StoreInv'
      BY <3>1, LedgerStays DEF IInv, StoreInv, storeVars
    <3>3. QED
      BY <3>1, <3>2, LedgerStays DEF IInv
  <2>3. QED
    BY <2>1, <2>2
<1>3. QED
  BY <1>1, <1>2, PTL DEF Spec

\* Nothing is on record that two people did not approve, across the two
\* stores (POST /workflow/record, paper_execution_routes.py).
THEOREM RecordedIsApprovedSafe == Spec => []RecordedIsApproved
<1>1. ASSUME IInv PROVE RecordedIsApproved
  <2> SUFFICES ASSUME NEW run \in DOMAIN runs,
                      NEW log, log = decisions[RequestOf(run)]
               PROVE  /\ Approval!ApprovalStatus(log)
                           = "approved_for_paper_simulation"
                      /\ \E i, j \in DOMAIN log :
                           /\ log[i].body.decision = "research_approved"
                           /\ log[j].body.decision
                                = "approved_for_paper_simulation"
                           /\ log[i].body.reviewer_id # log[j].body.reviewer_id
    BY DEF RecordedIsApproved
  <2>1. /\ RequestOf(run) \in Requests
        /\ Approval!ApprovalStatus(log) = "approved_for_paper_simulation"
    BY <1>1 DEF IInv, StoreInv, Covered, IsApproved
  <2>2. Ledger!DualReview /\ log \in Seq(Ledger!Row)
    BY <1>1, <2>1, Ledger!ApprovedByTwo DEF IInv, Ledger!IInv, Ledger!TypeOK
  <2>3. /\ Len(log) = 2
        /\ log[1].body.decision = "research_approved"
        /\ log[2].body.decision = "approved_for_paper_simulation"
        /\ log[1].body.reviewer_id # log[2].body.reviewer_id
    BY <2>1, <2>2, SameStatus DEF Ledger!DualReview
  <2>4. 1 \in DOMAIN log /\ 2 \in DOMAIN log
    BY <2>2, <2>3
  <2>5. QED
    BY <2>1, <2>3, <2>4
<1>2. QED
  BY <1>1, Inductive, PTL

=============================================================================
