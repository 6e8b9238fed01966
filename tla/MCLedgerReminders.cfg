SPECIFICATION LiveSpec
CONSTANTS
  Writers = {p1}
  Workers = {w1, w2}
  Ledgers = {l1}
  Users = {ann, bob}
  Managers = {ann}
  Coordinators = {ann, bob}
  MaxVersion = 2
  MaxCrashes = 1
  NoOne = NoOne
  ann = ann
  bob = bob
  MaxAttempts = 2
  Ops <- AllOps
  Fields <- Urgent
PROPERTY NoStaleReminder
PROPERTY EveryJobSettles
INVARIANT DeliveredOnce
