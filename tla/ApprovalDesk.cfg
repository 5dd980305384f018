SPECIFICATION Spec
CONSTANTS
  Desks = {d1}
  Requests = {r1}
  Reviewers = {v1, v2}
  Orders = {o1}
  Simulations = {fill}
  QueueLimit = 1
  HistoryLimit = 1
  MaxAttempts = 2
CHECK_DEADLOCK FALSE
INVARIANTS ApprovedOnSight OfferedIsApproved
PROPERTIES SuccessIsRecorded SubmissionEnds
