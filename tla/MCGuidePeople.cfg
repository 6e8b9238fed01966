SPECIFICATION Spec
ACTION_CONSTRAINT OneSubject
CONSTANTS
  Procs = {p1, p2}
  Tours = {t1}
  Guides = {1, 2}
  Leaves = {}
  Languages = {en}
  MaxServices = 1
  MaxVersion = 2
  NoOne = NoOne
  NoService = NoService
  ServiceTimes <- OneTime
  LeaveDays <- NoDays
  Instants <- LastMinuteAndAfter
  Ops <- PeopleAndRatingOps
SYMMETRY RowSymmetry
INVARIANT TypeOK
INVARIANT UpcomingGuideAvailable
PROPERTY AssignedGuideQualified
PROPERTY ScoresSurviveUpdates
CHECK_DEADLOCK FALSE
