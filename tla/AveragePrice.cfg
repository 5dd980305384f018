SPECIFICATION Spec
CONSTANTS
  Quantities = {1, 5, 6}
  MaxTick = 9
  MaxOrders = 2
INVARIANT AverageIsAmongPrices
CHECK_DEADLOCK FALSE
