CONSTANTS
  w1 = w1
  w2 = w2
  Page = {p1}
  Visitor = {}
  Writer = {w1, w2}
  Scenarios <- PostedRequest
  MaxRev = 2
  MaxRestarts = 0
SPECIFICATION Spec
PROPERTIES
  EveryWriteReachesPages
CHECK_DEADLOCK FALSE
