CONSTANTS
  w1 = w1
  w2 = w2
  Page = {p1}
  Visitor = {v1}
  Writer = {w1, w2}
  Scenarios <- EveryScenario
  MaxRev = 4
  MaxRestarts = 1
SPECIFICATION Spec
INVARIANTS
  FreshnessTypeOK
  ReachableListsAreCurrent
  ListenersAreStreams
PROPERTIES
  StaleEntriesExpire
  PagesCatchUp
CHECK_DEADLOCK FALSE
