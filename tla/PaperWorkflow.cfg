SPECIFICATION Spec
CONSTANTS
  Requests <- AllRequests
  Policies <- AllPolicies
INVARIANTS NeverRaises FillIsSound MoreLiquidityNeverHurts LooserPolicyNeverRefuses
CHECK_DEADLOCK FALSE
