SPECIFICATION Spec
CONSTANTS
  Requests = {r1}
  Reviewers = {v1, v2, v3}
  Deciders = {d1, d2}
  Orders = {o1}
  Simulations = {"acknowledge", "fill"}
  Verdicts <- BothVerdicts
  QuantityOf <- TwoEach
  Timeout = 1
  Recorders = {c1}
  MaxClock = 1
  ApprovalOf <- OneRequestEach
SYMMETRY Symmetry
INVARIANT RecordedIsApproved
CHECK_DEADLOCK FALSE
