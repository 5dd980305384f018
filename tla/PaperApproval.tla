---------------------------- MODULE PaperApproval ----------------------------
(***************************************************************************)
(* The paper approval store: POST /requests and POST .../decisions of      *)
(* backend/app/api/paper_approval_routes.py, down to the statements        *)
(* services/paper_approval_store.py runs on SQLite.                        *)
(*                                                                         *)
(* The routes are synchronous, so FastAPI runs each call on a thread of    *)
(* its pool: a client below is such a call.  record_decision reads the     *)
(* decisions on one connection, validates and builds the next record in    *)
(* memory, and inserts it on another connection.  Other calls run between  *)
(* the two; only UNIQUE (approval_request_id, sequence) guards the insert. *)
(*                                                                         *)
(* SHA-256 is taken to be free of collisions: the hash of a record is the  *)
(* content it covers, that is the chain of decision cores up to it.        *)
(***************************************************************************)
EXTENDS Integers, Sequences

CONSTANTS
  Requests,    \* approval_request_id values
  Reviewers,   \* reviewer_id values
  Clients      \* concurrent API calls

VARIABLES
  requests,    \* rows of paper_approval_requests
  decisions,   \* rows of paper_approval_decisions: request -> sequence -> row
  session      \* what each client's call has in memory

vars == <<requests, decisions, session>>

-----------------------------------------------------------------------------

Decision ==
  { "research_approved", "approved_for_paper_simulation", "rejected",
    "needs_data_review" }

Role == { "research_reviewer", "risk_reviewer", "compliance_reviewer" }

\* PaperApprovalDecisionCreate, without the free text.
DecisionCreate ==
  [decision : Decision, reviewer_id : Reviewers, reviewer_role : Role]

\* The part of a decision its hash covers, next to the previous hash.
Core == [sequence : Nat, body : DecisionCreate]

Hash == Seq(Core)

RequestHash == <<>>

\* PaperApprovalDecisionRecord
Row ==
  [sequence : Nat \ {0}, body : DecisionCreate,
   previous_chain_hash : Hash, decision_hash : Hash]

-----------------------------------------------------------------------------

Has(log, d) == \E i \in DOMAIN log : log[i].body.decision = d

\* derive_approval_status: a refusal anywhere wins over an approval.
ApprovalStatus(log) ==
  IF Has(log, "rejected") THEN "rejected"
  ELSE IF Has(log, "needs_data_review") THEN "needs_data_review"
  ELSE IF Has(log, "approved_for_paper_simulation")
    THEN "approved_for_paper_simulation"
  ELSE IF Has(log, "research_approved") THEN "research_approved"
  ELSE "pending_review"

TerminalStatus ==
  { "approved_for_paper_simulation", "rejected", "needs_data_review" }

RoleFits(d) ==
  /\ d.decision = "research_approved" =>
       d.reviewer_role \in { "research_reviewer", "compliance_reviewer" }
  /\ d.decision = "approved_for_paper_simulation" =>
       d.reviewer_role \in { "risk_reviewer", "compliance_reviewer" }

NewReviewer(log, d) ==
  \A i \in DOMAIN log : log[i].body.reviewer_id # d.reviewer_id

\* Mutation: the simulation approval does not wait for the research one.
ValidDecisionInAnyOrder(log, d) ==
  /\ ApprovalStatus(log) \notin TerminalStatus
  /\ NewReviewer(log, d)
  /\ RoleFits(d)
  /\ d.decision = "research_approved" => log = <<>>

\* validate_decision_transition raises unless this holds.
ValidDecision(log, d) ==
  /\ ApprovalStatus(log) \notin TerminalStatus
  /\ NewReviewer(log, d)
  /\ RoleFits(d)
  /\ d.decision = "research_approved" => log = <<>>
  /\ d.decision = "approved_for_paper_simulation" =>
       ApprovalStatus(log) = "research_approved"

\* Mutation: every decision points back to the request.
LatestHashIsRequest(log) == RequestHash

LatestHash(log) ==
  IF log = <<>> THEN RequestHash ELSE log[Len(log)].decision_hash

DecisionHash(previous, seq, d) ==
  Append(previous, [sequence |-> seq, body |-> d])

\* build_paper_approval_decision_record
BuildRecord(log, d) ==
  LET seq == Len(log) + 1 IN
    [ sequence |-> seq,
      body |-> d,
      previous_chain_hash |-> LatestHash(log),
      decision_hash |-> DecisionHash(LatestHash(log), seq, d) ]

-----------------------------------------------------------------------------

Idle == [phase |-> "idle"]

Busy == [phase : { "inserting", "recorded" }, request : Requests, row : Row]

Init ==
  /\ requests = {}
  /\ decisions = [r \in Requests |-> <<>>]
  /\ session = [c \in Clients |-> Idle]

\* create_request: one INSERT in one transaction.
CreateRequest(r) ==
  /\ r \notin requests
  /\ requests' = requests \cup {r}
  /\ UNCHANGED <<decisions, session>>

\* record_decision up to the INSERT: read the request and its decisions,
\* validate, build the record.  A refused decision answers 400 and changes
\* nothing.
ReadAndBuild(c, r, d) ==
  /\ session[c] = Idle
  /\ r \in requests
  /\ ValidDecision(decisions[r], d)
  /\ session' = [session EXCEPT ![c] =
       [phase |-> "inserting", request |-> r,
        row |-> BuildRecord(decisions[r], d)]]
  /\ UNCHANGED <<requests, decisions>>

\* Mutation: no UNIQUE constraint, the row replaces the one there.
SequenceAlwaysFree(r, row) == TRUE

\* The row is free for (approval_request_id, sequence).
SequenceFree(r, row) == row.sequence \notin DOMAIN decisions[r]

StoreRow(r, row) ==
  decisions' = [decisions EXCEPT ![r] =
    [i \in DOMAIN decisions[r] \cup {row.sequence} |->
       IF i = row.sequence THEN row ELSE decisions[r][i]]]

\* The INSERT commits.
Insert(c) ==
  /\ session[c].phase = "inserting"
  /\ SequenceFree(session[c].request, session[c].row)
  /\ StoreRow(session[c].request, session[c].row)
  /\ session' = [session EXCEPT ![c].phase = "recorded"]
  /\ UNCHANGED requests

\* The INSERT does not commit: UNIQUE raises IntegrityError, the database
\* stays locked, or the process dies first.
InsertFails(c) ==
  /\ session[c].phase = "inserting"
  /\ session' = [session EXCEPT ![c] = Idle]
  /\ UNCHANGED <<requests, decisions>>

\* get_history answers the call, or the answer is lost on its way: either
\* way the call is over and its row stays.
Return(c) ==
  /\ session[c].phase = "recorded"
  /\ session' = [session EXCEPT ![c] = Idle]
  /\ UNCHANGED <<requests, decisions>>

Next ==
  \/ \E r \in Requests : CreateRequest(r)
  \/ \E c \in Clients :
       \/ \E r \in Requests, d \in DecisionCreate : ReadAndBuild(c, r, d)
       \/ Insert(c)
       \/ InsertFails(c)
       \/ Return(c)

Spec == Init /\ [][Next]_vars

-----------------------------------------------------------------------------

\* The stored rows of a request are numbered 1, 2, ... without a gap, which
\* Seq(Row) says.
TypeOK ==
  /\ requests \subseteq Requests
  /\ session \in [Clients -> {Idle} \cup Busy]
  /\ decisions \in [Requests -> Seq(Row)]

(***************************************************************************)
(* Dual review (docs/paper-approval-workflow.md:72-78): a request is       *)
(* approved only through exactly two stored decisions, research_approved   *)
(* and then approved_for_paper_simulation, by different reviewers in the   *)
(* roles each step asks for, however the calls interleave.                 *)
(***************************************************************************)
DualReview ==
  \A r \in Requests :
    ApprovalStatus(decisions[r]) = "approved_for_paper_simulation" =>
      LET first == decisions[r][1].body
          second == decisions[r][2].body IN
        /\ Len(decisions[r]) = 2
        /\ first.decision = "research_approved"
        /\ first.reviewer_role \in {"research_reviewer", "compliance_reviewer"}
        /\ second.decision = "approved_for_paper_simulation"
        /\ second.reviewer_role \in {"risk_reviewer", "compliance_reviewer"}
        /\ first.reviewer_id # second.reviewer_id

(***************************************************************************)
(* The hash chain is unbroken and does not fork: every stored decision     *)
(* points to the hash of the one before it, the first to the request hash, *)
(* and its own hash covers what is stored.                                 *)
(***************************************************************************)
ChainLinked ==
  \A r \in Requests : \A i \in DOMAIN decisions[r] :
    LET row == decisions[r][i] IN
      /\ row.sequence = i
      /\ row.previous_chain_hash =
           IF i = 1 THEN RequestHash ELSE decisions[r][i - 1].decision_hash
      /\ row.decision_hash =
           DecisionHash(row.previous_chain_hash, row.sequence, row.body)

(***************************************************************************)
(* No reviewer is counted twice on a request, not even one who repeats a   *)
(* call whose answer was lost.                                             *)
(***************************************************************************)
ReviewerDecidesOnce ==
  \A r \in Requests : \A i, j \in DOMAIN decisions[r] :
    decisions[r][i].body.reviewer_id = decisions[r][j].body.reviewer_id
      => i = j

(***************************************************************************)
(* A call that got past its INSERT is in the ledger with the row it built. *)
(***************************************************************************)
AcknowledgedIsStored ==
  \A c \in Clients :
    session[c].phase = "recorded" =>
      LET r == session[c].request
          row == session[c].row IN
        /\ r \in requests
        /\ row.sequence \in DOMAIN decisions[r]
        /\ decisions[r][row.sequence] = row

(***************************************************************************)
(* The ledger is append-only: no step changes or removes a stored row.     *)
(***************************************************************************)
AppendOnly ==
  [][\A r \in Requests : \A i \in DOMAIN decisions[r] :
       i \in DOMAIN decisions'[r] /\ decisions'[r][i] = decisions[r][i]]_vars

(***************************************************************************)
(* Approved, rejected and needs-data-review are final: a decision read     *)
(* before the request ended never reopens or overturns it.                 *)
(***************************************************************************)
DecidedIsFinal ==
  [][\A r \in Requests :
       ApprovalStatus(decisions[r]) \in TerminalStatus =>
         decisions'[r] = decisions[r]]_vars

-----------------------------------------------------------------------------
(***************************************************************************)
(* The store implements the lifecycle: the status of a request is the one  *)
(* derived from its rows, its reviewers are the authors of those rows.     *)
(***************************************************************************)
StatusOf ==
  [r \in Requests |->
     IF r \in requests THEN ApprovalStatus(decisions[r]) ELSE "absent"]

ReviewersOf ==
  [r \in Requests |->
     {decisions[r][i].body.reviewer_id : i \in DOMAIN decisions[r]}]

Lifecycle == INSTANCE ApprovalLifecycle
               WITH status <- StatusOf, reviewers <- ReviewersOf

ImplementsLifecycle == Lifecycle!Spec

=============================================================================
