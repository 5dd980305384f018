CONSTANTS
  Requests = {r1}
  Reviewers = {v1, v2, v3}
  Clients = {c1, c2, c3}
SPECIFICATION Spec
SYMMETRY Symmetry
INVARIANTS DualReview ChainLinked AcknowledgedIsStored
PROPERTY ImplementsLifecycle
CHECK_DEADLOCK FALSE
