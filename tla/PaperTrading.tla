---------------------------- MODULE PaperTrading ----------------------------
(***************************************************************************)
(* The paper trading path: the approval store and the execution store,     *)
(* tables of one SQLite file that are reached over separate connections    *)
(* with no transaction across them, joined by                              *)
(* POST /workflow/record of backend/app/api/paper_execution_routes.py.     *)
(* The route reads the approval history of the request once, validates it  *)
(* in memory, and records the run some time later, while other calls go on *)
(* deciding and recording.                                                 *)
(***************************************************************************)
EXTENDS Integers, Sequences

CONSTANTS
  Requests, Reviewers, Deciders,    \* of PaperApproval
  Orders, Simulations, Verdicts, QuantityOf, Timeout, Recorders, MaxClock,
  ApprovalOf    \* the approval request each order was made under

ASSUME ApprovalOfAssumption == ApprovalOf \in [Orders -> Requests]

VARIABLES
  requests, decisions, session,
  clock, keys, runs, events, audit, reports, outbox, calls,
  admitted      \* the run each recorder has validated the approval for

approvalVars == <<requests, decisions, session>>
storeVars == <<clock, keys, runs, events, audit, reports, outbox, calls>>
vars == <<approvalVars, storeVars, admitted>>

Approval == INSTANCE PaperApproval WITH Clients <- Deciders

Store == INSTANCE PaperExecutionStore WITH Clients <- Recorders

None == <<>>

RequestOf(run) == ApprovalOf[Store!OrderOf(run)]

-----------------------------------------------------------------------------

Init ==
  /\ Approval!Init
  /\ Store!Init
  /\ admitted = [c \in Recorders |-> None]

Decide ==
  /\ Approval!Next
  /\ UNCHANGED <<storeVars, admitted>>

\* Mutation: one decision, whichever, is enough.
AdmissibleOnce(log) == Len(log) >= 1

\* validate_persisted_approval_for_paper_execution: the required sequence
\* of two decisions, and the status they give.
Admissible(log) ==
  /\ Approval!ApprovalStatus(log) = "approved_for_paper_simulation"
  /\ Len(log) >= 2
  /\ log[1].body.decision = "research_approved"
  /\ log[2].body.decision = "approved_for_paper_simulation"

\* get_history, and the validation in create_approval.  A request that was
\* never created raises.
Admit(c, run) ==
  /\ calls[c] = Store!Idle
  /\ admitted[c] = None
  /\ RequestOf(run) \in requests
  /\ Admissible(decisions[RequestOf(run)])
  /\ admitted' = [admitted EXCEPT ![c] = run]
  /\ UNCHANGED <<approvalVars, storeVars>>

\* The rest of preview, and persist_workflow up to its first SELECT.
Record(c) ==
  /\ admitted[c] # None
  /\ \E approved \in Verdicts[admitted[c]] :
       Store!RecordCheck(c, admitted[c], approved)
  /\ admitted' = [admitted EXCEPT ![c] = None]
  /\ UNCHANGED approvalVars

\* The key is taken by another run, or the process dies.
Refuse(c) ==
  /\ admitted[c] # None
  /\ admitted' = [admitted EXCEPT ![c] = None]
  /\ UNCHANGED <<approvalVars, storeVars>>

\* What else happens at the execution store.
Execute(c) ==
  /\ \/ Store!RecordCommit(c)
     \/ \E run \in Store!Run : admitted[c] = None /\ Store!MarkReadRun(c, run)
     \/ Store!MarkReadStatus(c)
     \/ Store!MarkReadReport(c)
     \/ Store!MarkCommit(c)
     \/ Store!Abandon(c)
  /\ UNCHANGED <<approvalVars, admitted>>

Tick ==
  /\ Store!Tick
  /\ UNCHANGED <<approvalVars, admitted>>

Next ==
  \/ Decide
  \/ Tick
  \/ \E c \in Recorders :
       \/ \E run \in Store!Run : Admit(c, run)
       \/ Record(c)
       \/ Refuse(c)
       \/ Execute(c)

Spec == Init /\ [][Next]_vars

-----------------------------------------------------------------------------

(***************************************************************************)
(* No order is on record that two people did not approve: the request of   *)
(* every stored run is, and stays, approved for paper simulation by two    *)
(* decisions of different reviewers, although the approval was read over   *)
(* another connection, in a transaction of its own, before the run was     *)
(* written (docs/paper-approval-workflow.md:72-80).                        *)
(***************************************************************************)
RecordedIsApproved ==
  \A run \in DOMAIN runs :
    LET log == decisions[RequestOf(run)] IN
      /\ Approval!ApprovalStatus(log) = "approved_for_paper_simulation"
      /\ \E i, j \in DOMAIN log :
           /\ log[i].body.decision = "research_approved"
           /\ log[j].body.decision = "approved_for_paper_simulation"
           /\ log[i].body.reviewer_id # log[j].body.reviewer_id

=============================================================================
