SPECIFICATION LiveSpec
ACTION_CONSTRAINT LeavesOrServices
CONSTANTS
  Procs = {p1, p2}
  Tours = {t1}
  Guides = {1}
  Leaves = {l1, l2}
  FirstLeave = l1
  Languages = {en}
  MaxServices = 2
  MaxVersion = 2
  NoOne = NoOne
  NoService = NoService
  ServiceTimes <- MorningAndMidnight
  LeaveDays <- OneDay
  Instants <- Midnight
  Ops <- LeaveOps
INVARIANT NoServiceDuringLeave
INVARIANT SchedulingInv
PROPERTY EveryRequestEnds
CHECK_DEADLOCK FALSE
