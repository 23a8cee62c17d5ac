CONSTANTS
  b1 = b1
  d1 = d1
  d2 = d2
  p1 = p1
  Booking = {b1}
  Dispute = {d1, d2}
  Provider = {p1}
  Session = {s1}
  NoTime = NoTime
  providerOf <- MCProviderOf
  bookingOf <- MCBookingOf
  Time <- LongTime
  Routes <- AllRoutes
  Caller <- Everybody
  MaxMoves = 7
SPECIFICATION Spec
INVARIANTS
  CancellationStands
PROPERTIES
  StatusFollowsEdges
  MovingKeepsLength
CHECK_DEADLOCK FALSE
