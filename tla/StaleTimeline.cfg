SPECIFICATION Spec
CONSTANTS
  Runs = {run1, run2, run3}
  NoRun = NoRun
  RunLimit = 3
  MaxClicks = 2
INVARIANT TimelineIsSelected
CHECK_DEADLOCK FALSE
