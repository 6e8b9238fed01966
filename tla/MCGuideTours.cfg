SPECIFICATION Spec
CONSTANTS
  Procs = {p1, p2}
  Tours = {t1, t2}
  Guides = {1, 2}
  Leaves = {}
  Languages = {en}
  MaxServices = 1
  MaxVersion = 2
  NoOne = NoOne
  NoService = NoService
  ServiceTimes <- SharedMinute
  LeaveDays <- NoDays
  Instants <- Midnight
  Ops <- TourOps
SYMMETRY RowSymmetry
INVARIANT NoDoubleBooking
INVARIANT NoDeadlock
PROPERTY NoLostUpdate
CHECK_DEADLOCK FALSE
