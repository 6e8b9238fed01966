SPECIFICATION Spec
CONSTANTS
  Procs = {p1, p2}
  Inquiries = {i1}
  Itineraries = {k1, k2}
  Tours = {t1, t2}
  Facts = {f1, f2}
  Plans = {d1, d2}
  MaxVersion = 4
  MaxRevision = 2
  MaxConfirms = 2
  NoOne = NoOne
SYMMETRY RowSymmetry
INVARIANT TourFromLatestQuote
INVARIANT ConfirmedAsSeen
INVARIANT StatusesAgree
PROPERTY KeepsOffers
CHECK_DEADLOCK FALSE
