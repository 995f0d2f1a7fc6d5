SPECIFICATION Spec
CONSTANTS
  c1 = c1
  c2 = c2
  p1 = p1
  p2 = p2
  Changes = {c1, c2}
  Polls = {p1, p2}
  Listings <- MCListings
  PageSize = 1
  MaxUpdates = 2
SYMMETRY MCSymmetry
INVARIANT OwedIsInWindow
