CONSTANTS
  r1 = r1
  q1 = q1
  q2 = q2
  q3 = q3
  p1 = p1
  p2 = p2
  Request = {r1}
  Quote = {q1, q2, q3}
  Provider = {p1, p2}
  NoAmount = NoAmount
  Anyone = Anyone
  Session = {s1, s2, s3}
  requestOf <- MCRequestOf
  quoterOf <- MCQuoterOf
  Amount <- OneAmount
  Changes <- NoPrice
  Routes <- Deal
  Caller <- Parties
SPECIFICATION Spec
SYMMETRY Symmetry
INVARIANTS
  OneBookingPerRequest
CHECK_DEADLOCK FALSE
