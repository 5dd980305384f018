SPECIFICATION Spec
CONSTANTS
  o1 = o1
  o2 = o2
  Orders = {o1}
  Simulations = {"acknowledge", "partial_fill", "fill", "cancel"}
  Verdicts <- MixedWhenAcknowledged
  QuantityOf <- Quantities
  Timeout = 1
  Clients = {c1, c2}
  MaxClock = 3
INVARIANTS
  HeaderMatchesLatestEvent ExpiresOnce EventsReplay ReportsConserveQuantity
   AuditChainUnforked CandidatesMarkable
PROPERTIES KeyNeverMoves NoLateDuplicate
