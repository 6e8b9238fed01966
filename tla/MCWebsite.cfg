SPECIFICATION Spec
CONSTANTS
  Procs = {p1, p2}
  Inquiries = {i1}
  Itineraries = {k1, k2}
  city = city
  sight = sight
  resource = resource
  Records = {city, sight}
  Resources = {resource}
  CityOf <- MCCityOf
  ResourceOf <- MCResourceOf
  Plans <- MCPlans
  Drafts <- MCDrafts
  MaxRequests = 3
  NoOne = NoOne
SYMMETRY RowSymmetry
PROPERTY KeepsOffers
CHECK_DEADLOCK FALSE
PROPERTY ConfigRespected
