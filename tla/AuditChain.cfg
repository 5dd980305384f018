SPECIFICATION Spec
CONSTANTS
  o1 = o1
  o2 = o2
  Orders = {o1}
  Simulations = {"acknowledge"}
  Verdicts <- ApprovedOnly
  QuantityOf <- Quantities
  Timeout = 1
  Clients = {c1, c2}
  MaxClock = 2
INVARIANT AuditChainIntact
