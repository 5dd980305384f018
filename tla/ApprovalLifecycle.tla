-------------------------- MODULE ApprovalLifecycle --------------------------
(***************************************************************************)
(* What the paper approval store promises: each approval request moves     *)
(* through a small one-way lifecycle, one decision at a time, and no       *)
(* reviewer decides twice on the same request.  There is no log, no read   *)
(* before the write and no concurrency here: a decision is one step.       *)
(***************************************************************************)
CONSTANTS
  Requests,    \* approval_request_id values
  Reviewers    \* reviewer_id values

VARIABLES
  status,      \* "absent" before the request is created, then its status
  reviewers    \* who has decided on the request so far

vars == <<status, reviewers>>

Status ==
  { "absent", "pending_review", "research_approved",
    "approved_for_paper_simulation", "rejected", "needs_data_review" }

TypeOK ==
  /\ status \in [Requests -> Status]
  /\ reviewers \in [Requests -> SUBSET Reviewers]

Init ==
  /\ status = [r \in Requests |-> "absent"]
  /\ reviewers = [r \in Requests |-> {}]

Open(r) ==
  /\ status[r] = "absent"
  /\ status' = [status EXCEPT ![r] = "pending_review"]
  /\ UNCHANGED reviewers

\* Reviewer v moves request r from one of the states in from to state to.
Decide(r, v, from, to) ==
  /\ status[r] \in from
  /\ v \notin reviewers[r]
  /\ status' = [status EXCEPT ![r] = to]
  /\ reviewers' = [reviewers EXCEPT ![r] = @ \cup {v}]

ApproveResearch(r, v) ==
  Decide(r, v, {"pending_review"}, "research_approved")

ApproveSimulation(r, v) ==
  Decide(r, v, {"research_approved"}, "approved_for_paper_simulation")

Stop(r, v) ==
  \E to \in {"rejected", "needs_data_review"} :
    Decide(r, v, {"pending_review", "research_approved"}, to)

Next ==
  \E r \in Requests :
    \/ Open(r)
    \/ \E v \in Reviewers :
         ApproveResearch(r, v) \/ ApproveSimulation(r, v) \/ Stop(r, v)

Spec == Init /\ [][Next]_vars

=============================================================================
