SPECIFICATION Spec
CONSTANTS
  Procs = {p1, p2}
  Tours = {t1}
  Guides = {1, 2}
  Leaves = {}
  Languages = {en}
  MaxServices = 1
  MaxVersion = 4
  NoOne = NoOne
  NoService = NoService
  ServiceTimes <- OneTime
  LeaveDays <- NoDays
  Instants <- Midnight
  Ops <- RatingOps
PROPERTY RatingSeenBeforeSaved
CHECK_DEADLOCK FALSE
