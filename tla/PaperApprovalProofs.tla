------------------------- MODULE PaperApprovalProofs -------------------------
(***************************************************************************)
(* Proofs about PaperApproval, for any sets of requests, reviewers and     *)
(* concurrent calls.                                                       *)
(*                                                                         *)
(* The invariants the runs check are not inductive: a call holds a row it  *)
(* built from rows it read earlier.  What makes the INSERT safe is that a  *)
(* row whose sequence is still free was built from exactly the rows that   *)
(* are stored (Fresh below), because sequences have no gaps and rows never *)
(* go away.                                                                *)
(***************************************************************************)
EXTENDS PaperApproval, SequenceTheorems, TLAPS

ResearchRoles == { "research_reviewer", "compliance_reviewer" }
RiskRoles == { "risk_reviewer", "compliance_reviewer" }

\* Rows are numbered by position and chained.
Chained(log) ==
  \A i \in DOMAIN log :
    /\ log[i].sequence = i
    /\ log[i].previous_chain_hash =
         IF i = 1 THEN RequestHash ELSE log[i - 1].decision_hash
    /\ log[i].decision_hash =
         DecisionHash(log[i].previous_chain_hash, log[i].sequence, log[i].body)

\* All decisions but the last are the research approval, which comes first;
\* the simulation approval comes second.
Ordered(log) ==
  \A i \in DOMAIN log :
    /\ i < Len(log) => log[i].body.decision = "research_approved"
    /\ log[i].body.decision = "research_approved" =>
         i = 1 /\ log[i].body.reviewer_role \in ResearchRoles
    /\ log[i].body.decision = "approved_for_paper_simulation" =>
         i = 2 /\ log[i].body.reviewer_role \in RiskRoles

DistinctReviewers(log) ==
  \A i, j \in DOMAIN log :
    log[i].body.reviewer_id = log[j].body.reviewer_id => i = j

LogOK(log) == Chained(log) /\ Ordered(log) /\ DistinctReviewers(log)

\* A row about to be inserted continues some past state of the log; if its
\* sequence is free, that state is the present one.
Fresh(log, row) ==
  /\ row.sequence \in 1 .. (Len(log) + 1)
  /\ row.sequence = Len(log) + 1 =>
       ValidDecision(log, row.body) /\ row = BuildRecord(log, row.body)

LogsOK == \A r \in Requests : LogOK(decisions[r])

NoOrphans == \A r \in Requests \ requests : decisions[r] = <<>>

InsertsFresh ==
  \A c \in Clients :
    session[c].phase = "inserting" =>
      /\ session[c].request \in requests
      /\ Fresh(decisions[session[c].request], session[c].row)

IInv ==
  TypeOK /\ LogsOK /\ NoOrphans /\ InsertsFresh /\ AcknowledgedIsStored

-----------------------------------------------------------------------------
(* Lemmas about logs *)

\* In an ordered log the derived status is the last decision: the
\* precedence in derive_approval_status never has two candidates to rank.
LEMMA StatusIsLast ==
  ASSUME NEW log \in Seq(Row), Ordered(log)
  PROVE  ApprovalStatus(log) =
           IF log = <<>> THEN "pending_review"
           ELSE log[Len(log)].body.decision
<1>1. CASE log = <<>>
  BY <1>1 DEF ApprovalStatus, Has
<1>2. CASE log # <<>>
  <2>1. Len(log) \in DOMAIN log
    BY <1>2
  <2>2. \A i \in DOMAIN log :
          i = Len(log) \/ log[i].body.decision = "research_approved"
    BY DEF Ordered
  <2>3. log[Len(log)] \in Row
    BY <2>1
  <2>4. log[Len(log)].body.decision \in Decision
    BY <2>3 DEF Row, DecisionCreate
  <2>5. QED
    BY <1>2, <2>1, <2>2, <2>4 DEF ApprovalStatus, Has, Decision
<1>3. QED
  BY <1>1, <1>2

\* Storing a row under the next sequence number is appending it.
LEMMA StoreIsAppend ==
  ASSUME NEW log \in Seq(Row), NEW row \in Row,
         row.sequence = Len(log) + 1
  PROVE  [i \in DOMAIN log \cup {row.sequence} |->
            IF i = row.sequence THEN row ELSE log[i]] = Append(log, row)
<1>1. DOMAIN log \cup {row.sequence} = 1 .. (Len(log) + 1)
  OBVIOUS
<1>2. DOMAIN Append(log, row) = 1 .. (Len(log) + 1)
  OBVIOUS
<1>3. \A i \in 1 .. (Len(log) + 1) :
        Append(log, row)[i] = IF i = row.sequence THEN row ELSE log[i]
  OBVIOUS
<1>4. Append(log, row) =
        [i \in 1 .. (Len(log) + 1) |-> Append(log, row)[i]]
  <2>1. Append(log, row) \in [1 .. Len(Append(log, row)) -> Row]
    BY AppendProperties, LenProperties
  <2>2. QED
    BY <1>2, <2>1
<1>5. QED
  BY <1>1, <1>3, <1>4

LEMMA BuildRecordType ==
  ASSUME NEW log \in Seq(Row), NEW d \in DecisionCreate
  PROVE  /\ BuildRecord(log, d) \in Row
         /\ BuildRecord(log, d).sequence = Len(log) + 1
         /\ BuildRecord(log, d).body = d
<1>1. LatestHash(log) \in Hash
  <2>1. CASE log = <<>>
    BY <2>1 DEF LatestHash, RequestHash, Hash
  <2>2. CASE log # <<>>
    <3>1. log[Len(log)] \in Row
      BY <2>2
    <3>2. QED
      BY <2>2, <3>1 DEF LatestHash, Row
  <2>3. QED
    BY <2>1, <2>2
<1>2. [sequence |-> Len(log) + 1, body |-> d] \in Core
  BY DEF Core
<1>3. DecisionHash(LatestHash(log), Len(log) + 1, d) \in Hash
  BY <1>1, <1>2 DEF DecisionHash, Hash
<1>4. QED
  BY <1>1, <1>3 DEF BuildRecord, Row

\* Validation and the record it leads to keep a log in order.
LEMMA AppendOK ==
  ASSUME NEW log \in Seq(Row), NEW d \in DecisionCreate,
         LogOK(log), ValidDecision(log, d)
  PROVE  LogOK(Append(log, BuildRecord(log, d)))
<1> DEFINE row == BuildRecord(log, d)
           new == Append(log, row)
           n == Len(log)
<1>1. /\ row \in Row
      /\ row.sequence = n + 1
      /\ row.body = d
      /\ row.previous_chain_hash = LatestHash(log)
      /\ row.decision_hash = DecisionHash(LatestHash(log), n + 1, d)
  BY BuildRecordType DEF BuildRecord
<1>2. /\ DOMAIN new = 1 .. (n + 1)
      /\ Len(new) = n + 1
      /\ new[n + 1] = row
      /\ \A i \in 1 .. n : new[i] = log[i]
  BY <1>1, AppendProperties
<1>3. /\ n \in Nat
      /\ DOMAIN log = 1 .. n
  OBVIOUS
<1> HIDE DEF row, new, n
<1>4. Chained(new)
  <2>1. LatestHash(log) =
          IF n + 1 = 1 THEN RequestHash ELSE log[(n + 1) - 1].decision_hash
    BY <1>3 DEF LatestHash, n
  <2>2. ASSUME NEW i \in 1 .. n
        PROVE  /\ new[i].sequence = i
               /\ new[i].previous_chain_hash =
                    IF i = 1 THEN RequestHash ELSE new[i - 1].decision_hash
               /\ new[i].decision_hash =
                    DecisionHash(new[i].previous_chain_hash,
                                 new[i].sequence, new[i].body)
    <3>1. new[i] = log[i] /\ (i # 1 => new[i - 1] = log[i - 1])
      BY <1>2, <1>3
    <3>2. QED
      BY <3>1, <1>3 DEF LogOK, Chained
  <2>3. n # 0 => new[n] = log[n]
    BY <1>2, <1>3
  <2>4. /\ new[n + 1].sequence = n + 1
        /\ new[n + 1].previous_chain_hash =
             IF n + 1 = 1 THEN RequestHash ELSE new[(n + 1) - 1].decision_hash
        /\ new[n + 1].decision_hash =
             DecisionHash(new[n + 1].previous_chain_hash,
                          new[n + 1].sequence, new[n + 1].body)
    BY <1>1, <1>2, <1>3, <2>1, <2>3
  <2>5. QED
    BY <1>2, <1>3, <2>2, <2>4 DEF Chained
<1>5. Ordered(new)
  <2>1. ApprovalStatus(log) \notin TerminalStatus
    BY DEF ValidDecision
  <2>2. /\ log = <<>> => ApprovalStatus(log) = "pending_review"
        /\ log # <<>> => ApprovalStatus(log) = log[n].body.decision
    BY StatusIsLast DEF LogOK, n
  <2>3. ASSUME log # <<>>
        PROVE  n = 1 /\ log[n].body.decision = "research_approved"
    <3>1. n \in 1 .. n
      BY <2>3, <1>3 DEF n
    <3>2. log[n] \in Row
      BY <3>1, <1>3
    <3>3. log[n].body.decision \in Decision
      BY <3>2 DEF Row, DecisionCreate
    <3>4. log[n].body.decision = "research_approved"
      BY <2>1, <2>2, <2>3, <3>3 DEF Decision, TerminalStatus
    <3>5. QED
      BY <3>1, <3>4, <1>3 DEF LogOK, Ordered
  <2>4. log = <<>> => n = 0
    BY DEF n
  <2>5. d.decision = "research_approved" =>
          n = 0 /\ d.reviewer_role \in ResearchRoles
    BY <2>4 DEF ValidDecision, RoleFits, ResearchRoles
  <2>6. d.decision = "approved_for_paper_simulation" =>
          n = 1 /\ d.reviewer_role \in RiskRoles
    BY <2>2, <2>3 DEF ValidDecision, RoleFits, RiskRoles
  <2>7. ASSUME NEW i \in 1 .. n
        PROVE  /\ new[i].body.decision = "research_approved"
               /\ i = 1 /\ new[i].body.reviewer_role \in ResearchRoles
               /\ new[i].body.decision # "approved_for_paper_simulation"
    <3>1. n = 1 /\ i = 1 /\ log[i].body.decision = "research_approved"
      BY <2>3, <2>4, <1>3
    <3>2. QED
      BY <3>1, <1>2, <1>3 DEF LogOK, Ordered
  <2>8. QED
    BY <1>1, <1>2, <1>3, <2>5, <2>6, <2>7 DEF Ordered
<1>6. DistinctReviewers(new)
  <2>1. \A i \in 1 .. n : log[i].body.reviewer_id # d.reviewer_id
    BY <1>3 DEF ValidDecision, NewReviewer
  <2>2. QED
    BY <1>1, <1>2, <1>3, <2>1 DEF LogOK, DistinctReviewers
<1>7. QED
  BY <1>4, <1>5, <1>6 DEF LogOK, new, row

-----------------------------------------------------------------------------
(* The inductive invariant *)

\* The INSERT appends a decision that is valid in the log it lands in.
LEMMA InsertAppends ==
  ASSUME IInv, NEW c \in Clients, Insert(c),
         NEW r, r = session[c].request,
         NEW row, row = session[c].row
  PROVE  /\ session[c] \in Busy
         /\ r \in requests /\ r \in Requests
         /\ row \in Row
         /\ row.sequence = Len(decisions[r]) + 1
         /\ ValidDecision(decisions[r], row.body)
         /\ row = BuildRecord(decisions[r], row.body)
         /\ decisions' = [decisions EXCEPT ![r] = Append(decisions[r], row)]
<1>1. session[c] \in Busy
  BY DEF IInv, TypeOK, Insert, Idle
<1>2. r \in Requests /\ row \in Row
  BY <1>1 DEF Busy
<1>3. r \in requests /\ Fresh(decisions[r], row)
  BY DEF IInv, InsertsFresh, Insert
<1>4. decisions[r] \in Seq(Row)
  BY <1>2 DEF IInv, TypeOK
<1>5. row.sequence = Len(decisions[r]) + 1
  <2>1. row.sequence \notin DOMAIN decisions[r]
    BY DEF Insert, SequenceFree
  <2>2. row.sequence \in 1 .. (Len(decisions[r]) + 1)
    BY <1>3 DEF Fresh
  <2>3. QED
    BY <1>4, <2>1, <2>2
<1>6. decisions' = [decisions EXCEPT ![r] = Append(decisions[r], row)]
  BY <1>2, <1>4, <1>5, StoreIsAppend DEF Insert, StoreRow
<1>7. QED
  BY <1>1, <1>2, <1>3, <1>5, <1>6 DEF Fresh

LEMMA InitIInv == Init => IInv
<1> SUFFICES ASSUME Init
             PROVE  IInv
  OBVIOUS
<1>1. TypeOK
  BY DEF Init, TypeOK
<1>2. LogsOK
  <2>1. LogOK(<<>>)
    BY DEF LogOK, Chained, Ordered, DistinctReviewers
  <2>2. QED
    BY <2>1 DEF Init, LogsOK
<1>3. NoOrphans
  BY DEF Init, NoOrphans
<1>4. InsertsFresh /\ AcknowledgedIsStored
  BY DEF Init, Idle, InsertsFresh, AcknowledgedIsStored
<1>5. QED
  BY <1>1, <1>2, <1>3, <1>4 DEF IInv

LEMMA CreateRequestIInv ==
  ASSUME IInv, NEW r \in Requests, CreateRequest(r)
  PROVE  IInv'
BY DEF IInv, TypeOK, LogsOK, NoOrphans, InsertsFresh, AcknowledgedIsStored,
       CreateRequest

LEMMA ReadAndBuildIInv ==
  ASSUME IInv, NEW c \in Clients, NEW r \in Requests,
         NEW d \in DecisionCreate, ReadAndBuild(c, r, d)
  PROVE  IInv'
<1> DEFINE row == BuildRecord(decisions[r], d)
<1>1. decisions[r] \in Seq(Row)
  BY DEF IInv, TypeOK
<1>2. /\ row \in Row
      /\ row.sequence = Len(decisions[r]) + 1
      /\ row.body = d
  BY <1>1, BuildRecordType
<1>3. Fresh(decisions[r], row)
  BY <1>1, <1>2 DEF Fresh, ReadAndBuild
<1>4. session' = [session EXCEPT ![c] =
                    [phase |-> "inserting", request |-> r, row |-> row]]
  BY DEF ReadAndBuild
<1>5. UNCHANGED <<requests, decisions>> /\ r \in requests
  BY DEF ReadAndBuild
<1> HIDE DEF row
<1>6. TypeOK'
  BY <1>2, <1>4, <1>5 DEF IInv, TypeOK, Busy
<1>7. LogsOK' /\ NoOrphans'
  BY <1>5 DEF IInv, LogsOK, NoOrphans
<1>8. InsertsFresh'
  BY <1>3, <1>4, <1>5 DEF IInv, TypeOK, InsertsFresh
<1>9. AcknowledgedIsStored'
  BY <1>4, <1>5 DEF IInv, TypeOK, AcknowledgedIsStored
<1>10. QED
  BY <1>6, <1>7, <1>8, <1>9 DEF IInv

LEMMA InsertIInv ==
  ASSUME IInv, NEW c \in Clients, Insert(c)
  PROVE  IInv'
<1> DEFINE r == session[c].request
           row == session[c].row
           log == decisions[r]
<1>1. /\ session[c] \in Busy
      /\ r \in requests /\ r \in Requests
      /\ row \in Row
      /\ row.sequence = Len(log) + 1
      /\ ValidDecision(log, row.body)
      /\ row = BuildRecord(log, row.body)
      /\ decisions' = [decisions EXCEPT ![r] = Append(log, row)]
  BY InsertAppends
<1>2. /\ session' = [session EXCEPT ![c].phase = "recorded"]
      /\ requests' = requests
  BY DEF Insert
<1>3. /\ session \in [Clients -> {Idle} \cup Busy]
      /\ decisions \in [Requests -> Seq(Row)]
      /\ log \in Seq(Row)
  BY <1>1 DEF IInv, TypeOK
<1>4. /\ session' \in [Clients -> {Idle} \cup Busy]
      /\ session'[c].phase = "recorded"
      /\ session'[c].request = r
      /\ session'[c].row = row
      /\ \A e \in Clients : e # c => session'[e] = session[e]
  BY <1>1, <1>2, <1>3 DEF Busy
<1>5. /\ Append(log, row) \in Seq(Row)
      /\ Len(Append(log, row)) = Len(log) + 1
      /\ DOMAIN Append(log, row) = 1 .. (Len(log) + 1)
      /\ Append(log, row)[Len(log) + 1] = row
      /\ \A i \in 1 .. Len(log) : Append(log, row)[i] = log[i]
      /\ Len(log) \in Nat
      /\ DOMAIN log = 1 .. Len(log)
  BY <1>1, <1>3, AppendProperties
<1>6. /\ decisions' \in [Requests -> Seq(Row)]
      /\ decisions'[r] = Append(log, row)
      /\ \A q \in Requests : q # r => decisions'[q] = decisions[q]
  BY <1>1, <1>3, <1>5
<1>7. LogOK(Append(log, row))
  <2>1. row.body \in DecisionCreate
    BY <1>1 DEF Row
  <2>2. LogOK(log)
    BY <1>1 DEF IInv, LogsOK
  <2>3. QED
    BY <1>1, <1>3, <2>1, <2>2, AppendOK
<1>8. IInv
  OBVIOUS
<1> HIDE DEF r, row, log
<1>9. TypeOK'
  BY <1>2, <1>4, <1>6, <1>8 DEF IInv, TypeOK
<1>10. LogsOK'
  BY <1>6, <1>7, <1>8 DEF IInv, LogsOK
<1>11. NoOrphans'
  BY <1>1, <1>2, <1>6, <1>8 DEF IInv, NoOrphans
<1>12. InsertsFresh'
  <2> SUFFICES ASSUME NEW e \in Clients, session'[e].phase = "inserting"
               PROVE  /\ session'[e].request \in requests'
                      /\ Fresh(decisions'[session'[e].request],
                               session'[e].row)
    BY DEF InsertsFresh
  <2>1. e # c /\ session'[e] = session[e]
    BY <1>4
  <2>2. /\ session[e].request \in requests
        /\ Fresh(decisions[session[e].request], session[e].row)
    BY <1>8, <2>1 DEF IInv, InsertsFresh
  <2>3. CASE session[e].request = r
    <3>1. Fresh(log, session[e].row)
      BY <2>2, <2>3 DEF log
    <3>2. Fresh(Append(log, row), session[e].row)
      BY <3>1, <1>5 DEF Fresh
    <3>3. QED
      BY <3>2, <2>1, <2>2, <2>3, <1>2, <1>6
  <2>4. CASE session[e].request # r
    <3>1. session[e].request \in Requests
      BY <2>2, <1>8 DEF IInv, TypeOK
    <3>2. QED
      BY <3>1, <2>1, <2>2, <2>4, <1>2, <1>6
  <2>5. QED
    BY <2>3, <2>4
<1>13. AcknowledgedIsStored'
  <2> SUFFICES ASSUME NEW e \in Clients, session'[e].phase = "recorded"
               PROVE  LET q == session'[e].request
                          x == session'[e].row IN
                        /\ q \in requests'
                        /\ x.sequence \in DOMAIN decisions'[q]
                        /\ decisions'[q][x.sequence] = x
    BY DEF AcknowledgedIsStored
  <2>1. CASE e = c
    BY <2>1, <1>1, <1>2, <1>4, <1>5, <1>6
  <2>2. CASE e # c
    <3>1. /\ session'[e] = session[e]
          /\ session[e].request \in requests
          /\ session[e].request \in Requests
          /\ session[e].row.sequence \in DOMAIN decisions[session[e].request]
          /\ decisions[session[e].request][session[e].row.sequence]
               = session[e].row
      BY <2>2, <1>4, <1>8 DEF IInv, TypeOK, AcknowledgedIsStored
    <3>2. CASE session[e].request = r
      <4>1. /\ session[e].row.sequence \in 1 .. Len(log)
            /\ log[session[e].row.sequence] = session[e].row
        BY <3>1, <3>2, <1>5 DEF log
      <4>2. QED
        BY <4>1, <3>1, <3>2, <1>2, <1>5, <1>6
    <3>3. CASE session[e].request # r
      BY <3>1, <3>3, <1>2, <1>6
    <3>4. QED
      BY <3>2, <3>3
  <2>3. QED
    BY <2>1, <2>2
<1>14. QED
  BY <1>9, <1>10, <1>11, <1>12, <1>13 DEF IInv

\* A call that ends leaves the tables alone.
LEMMA EndIInv ==
  ASSUME IInv, NEW c \in Clients, InsertFails(c) \/ Return(c)
  PROVE  IInv'
<1>1. /\ session' = [session EXCEPT ![c] = Idle]
      /\ UNCHANGED <<requests, decisions>>
  BY DEF InsertFails, Return
<1>2. TypeOK'
  BY <1>1 DEF IInv, TypeOK
<1>3. LogsOK' /\ NoOrphans'
  BY <1>1 DEF IInv, LogsOK, NoOrphans
<1>4. InsertsFresh' /\ AcknowledgedIsStored'
  BY <1>1 DEF IInv, TypeOK, Idle, InsertsFresh, AcknowledgedIsStored
<1>5. QED
  BY <1>2, <1>3, <1>4 DEF IInv

LEMMA NextIInv == IInv /\ [Next]_vars => IInv'
<1> SUFFICES ASSUME IInv, [Next]_vars
             PROVE  IInv'
  OBVIOUS
<1>1. ASSUME NEW r \in Requests, CreateRequest(r)
      PROVE  IInv'
  BY <1>1, CreateRequestIInv
<1>2. ASSUME NEW c \in Clients, NEW r \in Requests,
             NEW d \in DecisionCreate, ReadAndBuild(c, r, d)
      PROVE  IInv'
  BY <1>2, ReadAndBuildIInv
<1>3. ASSUME NEW c \in Clients, Insert(c)
      PROVE  IInv'
  BY <1>3, InsertIInv
<1>4. ASSUME NEW c \in Clients, InsertFails(c) \/ Return(c)
      PROVE  IInv'
  BY <1>4, EndIInv
<1>5. CASE UNCHANGED vars
  BY <1>5 DEF vars, IInv, TypeOK, LogsOK, NoOrphans, InsertsFresh,
              AcknowledgedIsStored
<1>6. QED
  BY <1>1, <1>2, <1>3, <1>4, <1>5 DEF Next

\* Spec keeps the inductive invariant, for any number of requests,
\* reviewers and concurrent calls.
THEOREM Inductive == Spec => []IInv
<1>1. QED
  BY InitIInv, NextIInv, PTL DEF Spec

-----------------------------------------------------------------------------
(* The invariants *)

\* The stored rows always have their shape, numbered without a gap
\* (paper_approval_store.py, UNIQUE (approval_request_id, sequence)).
THEOREM TypeSafe == Spec => []TypeOK
<1>1. IInv => TypeOK
  BY DEF IInv
<1>2. QED
  BY <1>1, Inductive, PTL

\* In the invariant, an approval rests on two decisions by two reviewers.
LEMMA ApprovedByTwo == IInv => DualReview
<1> SUFFICES ASSUME IInv PROVE DualReview
  OBVIOUS
<1> SUFFICES ASSUME NEW r \in Requests,
                    ApprovalStatus(decisions[r])
                      = "approved_for_paper_simulation"
             PROVE  LET first == decisions[r][1].body
                        second == decisions[r][2].body IN
      /\ Len(decisions[r]) = 2
      /\ first.decision = "research_approved"
      /\ first.reviewer_role \in {"research_reviewer", "compliance_reviewer"}
      /\ second.decision = "approved_for_paper_simulation"
      /\ second.reviewer_role \in {"risk_reviewer", "compliance_reviewer"}
      /\ first.reviewer_id # second.reviewer_id
  BY DEF DualReview
<1> DEFINE log == decisions[r]
<1>1. log \in Seq(Row) /\ Ordered(log) /\ DistinctReviewers(log)
  BY DEF IInv, TypeOK, LogsOK, LogOK
<1>2. /\ log # <<>>
      /\ log[Len(log)].body.decision = "approved_for_paper_simulation"
  BY <1>1, StatusIsLast
<1>3. Len(log) = 2 /\ DOMAIN log = 1 .. 2
  <2>1. Len(log) \in DOMAIN log /\ DOMAIN log = 1 .. Len(log)
    BY <1>1, <1>2
  <2>2. QED
    BY <1>1, <1>2, <2>1 DEF Ordered
<1> HIDE DEF log
<1>4. log[1].body.reviewer_id # log[2].body.reviewer_id
  BY <1>1, <1>3 DEF DistinctReviewers
<1>5. log[1].body.decision = "research_approved"
  BY <1>1, <1>3 DEF Ordered
<1>6. log[1].body.reviewer_role \in ResearchRoles
  BY <1>1, <1>3, <1>5 DEF Ordered
<1>7. log[2].body.reviewer_role \in RiskRoles
  BY <1>1, <1>2, <1>3 DEF Ordered
<1>8. QED
  BY <1>2, <1>3, <1>4, <1>5, <1>6, <1>7 DEF log, ResearchRoles, RiskRoles

\* A status of approved_for_paper_simulation always rests on two decisions
\* by two reviewers in the right roles (validate_decision_transition).
THEOREM DualReviewSafe == Spec => []DualReview
<1>1. QED
  BY ApprovedByTwo, Inductive, PTL

\* The decision hash chain never breaks and never forks (record_decision,
\* build_paper_approval_decision_record).
THEOREM ChainSafe == Spec => []ChainLinked
<1>1. IInv => ChainLinked
  BY DEF IInv, LogsOK, LogOK, Chained, ChainLinked
<1>2. QED
  BY <1>1, Inductive, PTL

\* No reviewer has two decisions on one request, however calls interleave.
THEOREM ReviewerOnceSafe == Spec => []ReviewerDecidesOnce
<1>1. IInv => ReviewerDecidesOnce
  BY DEF IInv, LogsOK, LogOK, DistinctReviewers, ReviewerDecidesOnce
<1>2. QED
  BY <1>1, Inductive, PTL

\* A decision whose INSERT committed is in the ledger as it was built.
THEOREM AcknowledgedSafe == Spec => []AcknowledgedIsStored
<1>1. IInv => AcknowledgedIsStored
  BY DEF IInv
<1>2. QED
  BY <1>1, Inductive, PTL

-----------------------------------------------------------------------------
(* What a step does to the decisions *)

\* A step either leaves the decisions alone or appends one valid decision.
LEMMA StepAppends ==
  ASSUME IInv, [Next]_vars
  PROVE  \/ decisions' = decisions
         \/ \E r \in requests \cap Requests, row \in Row :
              /\ ValidDecision(decisions[r], row.body)
              /\ requests' = requests
              /\ decisions' =
                   [decisions EXCEPT ![r] = Append(decisions[r], row)]
<1>1. ASSUME NEW c \in Clients, Insert(c)
      PROVE  \E r \in requests \cap Requests, row \in Row :
               /\ ValidDecision(decisions[r], row.body)
               /\ requests' = requests
               /\ decisions' =
                    [decisions EXCEPT ![r] = Append(decisions[r], row)]
  BY <1>1, InsertAppends DEF Insert
<1>2. QED
  BY <1>1 DEF Next, vars, CreateRequest, ReadAndBuild, InsertFails, Return

\* No step changes or removes a stored decision.
THEOREM AppendOnlySafe == Spec => AppendOnly
<1>1. ASSUME IInv, [Next]_vars, NEW r \in Requests,
             NEW i \in DOMAIN decisions[r]
      PROVE  i \in DOMAIN decisions'[r] /\ decisions'[r][i] = decisions[r][i]
  <2>1. decisions \in [Requests -> Seq(Row)]
    BY <1>1 DEF IInv, TypeOK
  <2>2. ASSUME NEW q \in requests \cap Requests, NEW row \in Row,
               decisions' =
                 [decisions EXCEPT ![q] = Append(decisions[q], row)]
        PROVE  i \in DOMAIN decisions'[r]
               /\ decisions'[r][i] = decisions[r][i]
    <3>1. CASE q = r
      <4>1. decisions'[r] = Append(decisions[r], row)
        BY <2>1, <2>2, <3>1
      <4>2. decisions[r] \in Seq(Row)
        BY <2>1
      <4>3. QED
        BY <4>1, <4>2
    <3>2. CASE q # r
      BY <2>1, <2>2, <3>2
    <3>3. QED
      BY <3>1, <3>2
  <2>3. QED
    BY <1>1, <2>2, StepAppends
<1>2. IInv /\ [Next]_vars =>
        [\A r \in Requests : \A i \in DOMAIN decisions[r] :
           i \in DOMAIN decisions'[r]
           /\ decisions'[r][i] = decisions[r][i]]_vars
  BY <1>1
<1>3. QED
  BY <1>2, Inductive, PTL DEF Spec, AppendOnly

\* A step leaves the decisions of a request that has ended alone.
LEMMA DecidedStep ==
  IInv /\ [Next]_vars =>
    \A r \in Requests :
      ApprovalStatus(decisions[r]) \in TerminalStatus =>
        decisions'[r] = decisions[r]
<1> SUFFICES ASSUME IInv, [Next]_vars, NEW r \in Requests,
                    ApprovalStatus(decisions[r]) \in TerminalStatus
             PROVE  decisions'[r] = decisions[r]
  OBVIOUS
<1>1. QED
  BY StepAppends DEF IInv, TypeOK, ValidDecision

\* No step adds a decision to a request that has ended.
THEOREM DecidedIsFinalSafe == Spec => DecidedIsFinal
<1>1. IInv /\ [Next]_vars =>
        [\A r \in Requests :
           ApprovalStatus(decisions[r]) \in TerminalStatus =>
             decisions'[r] = decisions[r]]_vars
  BY DecidedStep
<1>2. QED
  BY <1>1, Inductive, PTL DEF Spec, DecidedIsFinal

-----------------------------------------------------------------------------
(* The refinement *)

\* One appended decision is one decision of the lifecycle.
LEMMA AppendIsDecide ==
  ASSUME IInv, NEW r \in requests \cap Requests, NEW row \in Row,
         ValidDecision(decisions[r], row.body), requests' = requests,
         decisions' = [decisions EXCEPT ![r] = Append(decisions[r], row)],
         LogsOK'
  PROVE  Lifecycle!Next
<1> DEFINE log == decisions[r]
           new == Append(log, row)
           v == row.body.reviewer_id
           old == ApprovalStatus(log)
           to == row.body.decision
<1>1. decisions \in [Requests -> Seq(Row)] /\ log \in Seq(Row)
  BY DEF IInv, TypeOK
<1>2. /\ decisions'[r] = new
      /\ \A q \in Requests : q # r => decisions'[q] = decisions[q]
  BY <1>1
<1>3. /\ new \in Seq(Row)
      /\ Len(new) = Len(log) + 1
      /\ DOMAIN new = 1 .. (Len(log) + 1)
      /\ DOMAIN log = 1 .. Len(log)
      /\ Len(log) \in Nat
      /\ new # <<>>
      /\ new[Len(log) + 1] = row
      /\ \A i \in 1 .. Len(log) : new[i] = log[i]
  BY <1>1, AppendProperties
<1>4. v \in Reviewers /\ to \in Decision /\ row.body \in DecisionCreate
  BY DEF Row, DecisionCreate
<1>5. Ordered(new) /\ Ordered(log)
  BY <1>2 DEF LogsOK, LogOK, IInv
<1>6. ApprovalStatus(new) = to
  BY <1>3, <1>5, StatusIsLast
<1>7. old \in {"pending_review", "research_approved"}
  BY DEF ValidDecision, TerminalStatus, ApprovalStatus
<1>8. /\ to = "research_approved" => old = "pending_review"
      /\ to = "approved_for_paper_simulation" => old = "research_approved"
  BY DEF ValidDecision, ApprovalStatus, Has
<1>9. {new[i].body.reviewer_id : i \in DOMAIN new} =
        {log[i].body.reviewer_id : i \in DOMAIN log} \cup {v}
  BY <1>3
<1>10. v \notin {log[i].body.reviewer_id : i \in DOMAIN log}
  BY DEF ValidDecision, NewReviewer
<1> HIDE DEF log, new, v, old, to
<1>11. StatusOf' = [StatusOf EXCEPT ![r] = to]
  <2> DEFINE A(q) == IF q \in requests THEN ApprovalStatus(decisions'[q])
                     ELSE "absent"
             B(q) == IF q = r THEN to ELSE StatusOf[q]
  <2>1. StatusOf' = [q \in Requests |-> A(q)]
    BY DEF StatusOf
  <2>2. ASSUME NEW q \in Requests
        PROVE  A(q) = B(q)
    <3>1. CASE q = r
      <4>1. decisions'[q] = new /\ q \in requests
        BY <3>1, <1>2
      <4>2. ApprovalStatus(decisions'[q]) = to
        BY <4>1, <1>6
      <4>3. QED
        BY <3>1, <4>1, <4>2
    <3>2. CASE q # r
      <4>1. decisions'[q] = decisions[q]
        BY <3>2, <1>2
      <4>2. A(q) = IF q \in requests THEN ApprovalStatus(decisions[q])
                   ELSE "absent"
        BY <4>1
      <4>3. B(q) = StatusOf[q]
        BY <3>2
      <4>4. QED
        BY <4>2, <4>3 DEF StatusOf
    <3>3. QED
      BY <3>1, <3>2
  <2>3. [StatusOf EXCEPT ![r] = to] = [q \in Requests |-> B(q)]
    BY DEF StatusOf
  <2> HIDE DEF A, B
  <2>4. QED
    BY <2>1, <2>2, <2>3
<1>12. ReviewersOf' = [ReviewersOf EXCEPT ![r] = @ \cup {v}]
  <2> DEFINE A(q) == {decisions'[q][i].body.reviewer_id :
                        i \in DOMAIN decisions'[q]}
             B(q) == IF q = r THEN ReviewersOf[r] \cup {v} ELSE ReviewersOf[q]
  <2>1. ReviewersOf' = [q \in Requests |-> A(q)]
    BY DEF ReviewersOf
  <2>2. ASSUME NEW q \in Requests
        PROVE  A(q) = B(q)
    <3>1. CASE q = r
      BY <3>1, <1>2, <1>9 DEF ReviewersOf, log
    <3>2. CASE q # r
      BY <3>2, <1>2 DEF ReviewersOf
    <3>3. QED
      BY <3>1, <3>2
  <2>3. [ReviewersOf EXCEPT ![r] = @ \cup {v}] = [q \in Requests |-> B(q)]
    <3> DEFINE R == ReviewersOf
    <3>1. R = [q \in Requests |-> R[q]]
      BY DEF ReviewersOf
    <3> HIDE DEF R
    <3>2. [R EXCEPT ![r] = @ \cup {v}] =
            [q \in Requests |-> IF q = r THEN R[r] \cup {v} ELSE R[q]]
      BY <3>1
    <3>3. QED
      BY <3>2 DEF R
  <2> HIDE DEF A, B
  <2>4. QED
    BY <2>1, <2>2, <2>3
<1>13. StatusOf[r] = old /\ v \notin ReviewersOf[r]
  BY <1>10 DEF StatusOf, ReviewersOf, old, log
<1>14. CASE to = "research_approved"
  BY <1>4, <1>8, <1>11, <1>12, <1>13, <1>14
     DEF Lifecycle!Next, Lifecycle!ApproveResearch, Lifecycle!Decide
<1>15. CASE to = "approved_for_paper_simulation"
  BY <1>4, <1>8, <1>11, <1>12, <1>13, <1>15
     DEF Lifecycle!Next, Lifecycle!ApproveSimulation, Lifecycle!Decide
<1>16. CASE to \in {"rejected", "needs_data_review"}
  BY <1>4, <1>7, <1>11, <1>12, <1>13, <1>16
     DEF Lifecycle!Next, Lifecycle!Stop, Lifecycle!Decide
<1>17. QED
  BY <1>4, <1>14, <1>15, <1>16 DEF Decision

\* The store, with its reads, inserts, failures and interleavings, is an
\* implementation of the one-step-per-decision lifecycle.
THEOREM Refinement == Spec => ImplementsLifecycle
<1>1. Init => Lifecycle!Init
  BY DEF Init, Lifecycle!Init, StatusOf, ReviewersOf
<1>2. ASSUME IInv, [Next]_vars, IInv'
      PROVE  [Lifecycle!Next]_(Lifecycle!vars)
  <2>1. ASSUME NEW r \in Requests, CreateRequest(r)
        PROVE  Lifecycle!Next
    <3>1. decisions[r] = <<>> /\ ApprovalStatus(decisions[r]) = "pending_review"
      BY <1>2, <2>1
         DEF IInv, NoOrphans, CreateRequest, ApprovalStatus, Has
    <3>2. /\ requests' = requests \cup {r}
          /\ r \notin requests
          /\ decisions' = decisions
      BY <2>1 DEF CreateRequest
    <3>3. /\ StatusOf[r] = "absent"
          /\ StatusOf' = [StatusOf EXCEPT ![r] = "pending_review"]
      BY <3>1, <3>2 DEF StatusOf
    <3>4. ReviewersOf' = ReviewersOf
      BY <3>2 DEF ReviewersOf
    <3>5. QED
      BY <3>3, <3>4 DEF Lifecycle!Next, Lifecycle!Open
  <2>2. CASE requests' = requests /\ decisions' = decisions
    BY <2>2 DEF Lifecycle!vars, StatusOf, ReviewersOf
  <2>3. ASSUME NEW r \in requests \cap Requests, NEW row \in Row,
               ValidDecision(decisions[r], row.body), requests' = requests,
               decisions' =
                 [decisions EXCEPT ![r] = Append(decisions[r], row)]
        PROVE  Lifecycle!Next
    BY <1>2, <2>3, AppendIsDecide DEF IInv
  <2>4. (\E r \in Requests : CreateRequest(r))
        \/ requests' = requests
    BY <1>2 DEF Next, vars, ReadAndBuild, Insert, InsertFails, Return
  <2>5. QED
    BY <1>2, <2>1, <2>2, <2>3, <2>4, StepAppends
<1>3. QED
  BY <1>1, <1>2, Inductive, PTL DEF Spec, ImplementsLifecycle, Lifecycle!Spec

=============================================================================
