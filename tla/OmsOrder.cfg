CONSTANT MaxEvents = 8
SPECIFICATION Spec
INVARIANTS RiskBeforeBroker NoLateFill
CHECK_DEADLOCK FALSE
