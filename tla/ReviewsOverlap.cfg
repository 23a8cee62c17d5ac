CONSTANTS
  p1 = p1
  b1 = b1
  s1 = s1
  s2 = s2
  Booking = {b1, b2}
  Provider = {p1}
  Session = {s1, s2}
  Nothing = Nothing
  Busy = {b1}
  providerOf <- MCProviderOf
  Rating <- Ratings
  Text = {t1, t2}
  Editor <- Author
  RoutesOf <- OneRecomputes
  MaxEdits = 2
  MaxRulings = 2
SPECIFICATION Spec
SYMMETRY Symmetry
INVARIANTS
  ReviewsTypeOK
PROPERTIES
  RatingKeepsUp
  HistoryKeepsEveryVersion
  VisibilityIsRuled
CHECK_DEADLOCK FALSE
