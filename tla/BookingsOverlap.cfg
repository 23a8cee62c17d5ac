CONSTANTS
  b1 = b1
  d1 = d1
  d2 = d2
  p1 = p1
  Booking = {b1}
  Dispute = {d1, d2}
  Provider = {p1}
  Session = {s1, s2}
  NoTime = NoTime
  providerOf <- MCProviderOf
  bookingOf <- MCBookingOf
  Time <- OneTime
  Routes <- ChangeStatus
  Caller <- Everybody
  MaxMoves = 6
SPECIFICATION Spec
SYMMETRY SessionSymmetry
INVARIANTS
  TypeOK
  TrailIsFaithful
  ContactFollowsConfirmation
  WorkHasContact
  JobsAreCounted
  CounterpartyTold
  DisputedHasOpenDispute
CHECK_DEADLOCK FALSE
