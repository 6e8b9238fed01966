SPECIFICATION Spec
CONSTANTS
  Writers = {p1, p2}
  Workers = {}
  Ledgers = {l1}
  Users = {ann, bob}
  Managers = {ann}
  Coordinators = {ann, bob}
  MaxVersion = 3
  MaxCrashes = 0
  NoOne = NoOne
  ann = ann
  bob = bob
  MaxAttempts = 2
  Ops <- AllOps
  Fields <- Entries
SYMMETRY WriterSymmetry
INVARIANT OperatedInOrder
INVARIANT ActiveTourConverted
INVARIANT PendingJobsNeeded
