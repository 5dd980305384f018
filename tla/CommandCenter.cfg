SPECIFICATION Spec
CONSTANTS
  Nothing = Nothing
  Deployments <- PaperAndLive
  Watched <- WatchedTogether
  PageRuns = {run1, run2}
  MaxChanges = 1
  Runs = {run1, run2, run3}
  RunLimit = 2
  MaxTimelines = 2
  Orders = {order1, order2}
  MaxActions = 3
  Forms = {form1, form2, form3}
  Accepted = {form1, form2}
  MaxPreviews = 3
  MaxPicks = 2
  Symbols = {"TMF"}
  OtherTicks = {2}
  MaxMockTick = 2
  Quantities = {0, 5}
  MaxTick = 5
  MaxOrders = 2
CHECK_DEADLOCK FALSE
INVARIANTS
  TypeOK
  NothingIsSilent
  LiveIsAlarming
  TimelinesBelongTogether
  CalmTimelineIsChosen
  MarkedIsGone
  PreviewedBeforeMarked
  ResultIsOfLastSubmission
  StatusTellsEvidence
  ListsAgree
  SessionIsCoherent
  OutcomeIsExplained
  FillsAreConservative
  TimelineIsLegal
  ComesBack
PROPERTY
  BusyEnds
