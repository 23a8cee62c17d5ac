CONSTANTS
  s1 = s1
  s2 = s2
  v1 = v1
  c1 = c1
  c2 = c2
  c3 = c3
  c4 = c4
  Session = {s1, s2}
  Listing = {v1}
  Category = {c1, c2, c3, c4}
  NoCategory = NoCategory
  PortfolioLimit = 1
  MaxDocuments = 1
  MaxLimit = 2
  ForeignKey = ForeignKey
  Depth = 3
  Scenarios <- Admins
SPECIFICATION Spec
PROPERTIES
  OnlyReinstated
CHECK_DEADLOCK FALSE
