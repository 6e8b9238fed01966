------------------------- MODULE DirectLedgersProofs -------------------------
(****************************************************************************)
(* LedgerInv is inductive: ledgers are operated in order, their tours keep  *)
(* them converted, and reminders are neither stale, doubled nor lost, for   *)
(* any number of writers, workers, ledgers, users, versions, attempts and   *)
(* crashes.                                                                 *)
(****************************************************************************)
EXTENDS DirectLedgers, TLAPS

\* A ledger asks for nothing, a review or the operation.
LEMMA KindOfRow ==
  ASSUME NEW row
  PROVE  ReminderKind(row) \in {"none", "review", "operate"}
BY DEF ReminderKind

\* What an operation writes is a ledger row, and never an older version.
LEMMA SavedRow ==
  ASSUME NEW r \in Asked, NEW row \in LedgerRow
  PROVE  /\ Saved(r, row) \in LedgerRow
         /\ r.op # "create" => Saved(r, row).version \in {row.version, row.version + 1}
         /\ r.op \in OnLedger => Saved(r, row).state \in {"deleted", row.state}
<1> USE DEF OnLedger
<1>1. row.version \in Nat /\ row.version + 1 \in Nat
  BY DEF LedgerRow
<1>2. r.op \in OnLedger \cup {"create", "none"}
  BY DEF Asked
<1>3. /\ r.converted \in BOOLEAN /\ r.proposalSent \in BOOLEAN /\ r.loss \in BOOLEAN
      /\ r.operator \in Coordinators \cup {NoOne}
  BY DEF Asked
<1>4. CASE r.op = "create"
  BY <1>3, <1>4 DEF Saved, NoRow, LedgerRow
<1>5. CASE r.op = "update"
  <2>1. Saved(r, row) = [row EXCEPT !.converted = r.converted, !.loss = r.loss,
                                    !.proposalSent = r.proposalSent,
                                    !.operator = r.operator, !.version = row.version + 1]
    BY <1>5 DEF Saved, LedgerRow
  <2>2. Saved(r, row) \in LedgerRow
    BY <1>1, <1>3, <2>1, Zenon DEF LedgerRow
  <2> QED BY <1>5, <2>1, <2>2 DEF LedgerRow
<1>6. CASE r.op = "convert"
  <2>1. Saved(r, row) = [row EXCEPT !.converted = TRUE, !.version = row.version + 1]
    BY <1>6 DEF Saved
  <2>2. Saved(r, row) \in LedgerRow
    BY <1>1, <2>1, Zenon DEF LedgerRow
  <2> QED BY <1>6, <2>1, <2>2 DEF LedgerRow
<1>7. CASE r.op = "review"
  <2>1. Saved(r, row) = [row EXCEPT !.reviewed = TRUE, !.version = row.version + 1]
    BY <1>7 DEF Saved
  <2>2. Saved(r, row) \in LedgerRow
    BY <1>1, <2>1, Zenon DEF LedgerRow
  <2> QED BY <1>7, <2>1, <2>2 DEF LedgerRow
<1>8. CASE r.op = "operate"
  <2>1. Saved(r, row) = [row EXCEPT !.operated = TRUE, !.version = row.version + 1]
    BY <1>8 DEF Saved
  <2>2. Saved(r, row) \in LedgerRow
    BY <1>1, <2>1, Zenon DEF LedgerRow
  <2> QED BY <1>8, <2>1, <2>2 DEF LedgerRow
<1>9. CASE r.op \in {"delete", "none"}
  BY <1>9 DEF Saved, LedgerRow
<1> QED BY <1>2, <1>4, <1>5, <1>6, <1>7, <1>8, <1>9

\* The record of a request with nothing in it.
LEMMA BlankAsked == Blank \in Asked
BY DEF Blank, Asked

-----------------------------------------------------------------------------
(* Types *)

\* The end of a transaction leaves everything typed.
LEMMA EndTypes ==
  ASSUME LedgerTypes, NEW p \in Writers, End(p)
  PROVE  /\ pc' \in [Writers -> {"idle", "lock", "jobs", "commit"}]
         /\ req' \in [Writers -> Asked]
         /\ chosen' \in [Writers -> SUBSET Users]
         /\ ledgerLock' \in [Ledgers -> Writers \cup {NoOne}]
         /\ jobLock' \in [JobKey -> Writers \cup Workers \cup {NoOne}]
BY BlankAsked DEF LedgerTypes, End

\* The end of a worker's transaction as well.
LEMMA ReleaseTypes ==
  ASSUME LedgerTypes, NEW w \in Workers, Release(w)
  PROVE  /\ stage' \in [Workers -> {"idle", "read", "send", "sent", "failed"}]
         /\ claim' \in [Workers -> JobKey \cup {NoOne}]
         /\ jobLock' \in [JobKey -> Writers \cup Workers \cup {NoOne}]
BY DEF LedgerTypes, Release

\* The states the system starts in are typed.
LEMMA InitTypes == Init => LedgerTypes
<1> SUFFICES ASSUME Init PROVE LedgerTypes
  OBVIOUS
<1>1. NoRow \in LedgerRow
  BY DEF NoRow, LedgerRow
<1>2. ASSUME NEW u \in Coordinators PROVE LegacyRow(u) \in LedgerRow
  BY DEF LegacyRow, NoRow, LedgerRow
<1>3. ledgers \in [Ledgers -> LedgerRow]
  BY <1>1, <1>2 DEF Init
<1>4. NoJob \in Job
  BY DEF NoJob, Job
<1> QED BY <1>3, <1>4, BlankAsked DEF Init, LedgerTypes

\* A request of a client keeps the types.
LEMMA RequestTypes ==
  ASSUME LedgerTypes, NEW p \in Writers, Request(p)
  PROVE  LedgerTypes'
<1>1. ASSUME NEW request \in Asked, NEW first \in {"lock", "jobs"},
             Begin(p, request, first)
      PROVE  LedgerTypes'
  BY <1>1 DEF LedgerTypes, Begin, workerVars
<1>2. CASE BeginCreate(p)
  <2>1. PICK l \in Ledgers, f \in Fields :
          Begin(p, [Blank EXCEPT !.op = "create", !.ledger = l, !.converted = f.converted,
                                 !.proposalSent = f.proposalSent, !.loss = f.loss,
                                 !.operator = f.operator], "jobs")
    BY <1>2 DEF BeginCreate
  <2>2. f \in FieldValues
    BY FieldsAssumption
  <2>3. [Blank EXCEPT !.op = "create", !.ledger = l, !.converted = f.converted,
                      !.proposalSent = f.proposalSent, !.loss = f.loss,
                      !.operator = f.operator] \in Asked
    BY <2>2 DEF Blank, Asked, FieldValues
  <2> QED BY <1>1, <2>1, <2>3
<1>3. ASSUME NEW op \in OnLedger, BeginOnLedger(p, op) PROVE LedgerTypes'
  <2> DEFINE Empty == [converted |-> FALSE, proposalSent |-> FALSE, loss |-> FALSE,
                        operator |-> NoOne]
  <2>1. PICK l \in Ledgers, f \in Fields \cup {Empty} :
          Begin(p, [op |-> op, ledger |-> l, version |-> ledgers[l].version,
                    tour |-> tours[l], converted |-> f.converted,
                    proposalSent |-> f.proposalSent, loss |-> f.loss,
                    operator |-> f.operator], "lock")
    BY <1>3 DEF BeginOnLedger
  <2>2. /\ f.converted \in BOOLEAN /\ f.proposalSent \in BOOLEAN /\ f.loss \in BOOLEAN
        /\ f.operator \in Coordinators \cup {NoOne}
    <3>1. CASE f \in Fields
      BY <3>1, FieldsAssumption DEF FieldValues
    <3>2. CASE f = Empty
      BY <3>2, Zenon
    <3> QED BY <3>1, <3>2
  <2>3. ledgers[l].version \in Nat /\ tours[l] \in {"none", "active", "cancelled"}
    BY DEF LedgerTypes, LedgerRow
  <2>4. [op |-> op, ledger |-> l, version |-> ledgers[l].version,
         tour |-> tours[l], converted |-> f.converted, proposalSent |-> f.proposalSent,
         loss |-> f.loss, operator |-> f.operator] \in Asked
    BY <2>2, <2>3 DEF Asked
  <2> QED BY <1>1, <2>1, <2>4
<1> QED BY <1>2, <1>3 DEF Request, OnLedger

\* A commit keeps the types.
LEMMA CommitTypes ==
  ASSUME LedgerTypes, NEW p \in Writers, req[p].ledger \in Ledgers, Commit(p)
  PROVE  LedgerTypes'
<1> DEFINE l == req[p].ledger
<1>1. req[p] \in Asked /\ ledgers[l] \in LedgerRow
  BY DEF LedgerTypes
<1>2. ledgers' \in [Ledgers -> LedgerRow]
  BY <1>1, SavedRow DEF Commit, LedgerTypes
<1>3. tours' \in [Ledgers -> {"none", "active", "cancelled"}]
  BY DEF Commit, LedgerTypes
<1>4. jobs' \in [JobKey -> Job]
  <2>1. NoJob \in Job /\ [NoJob EXCEPT !.status = "pending"] \in Job
    BY DEF NoJob, Job
  <2>2. \A j \in JobKey : jobs[j] \in Job /\ [jobs[j] EXCEPT !.status = "skipped"] \in Job
    BY DEF Job, LedgerTypes
  <2> QED BY <2>1, <2>2 DEF Commit, JobsSaved
<1>5. wanted' \in [Ledgers -> SUBSET JobKey]
  BY DEF Commit, LedgerTypes, NewJobs
<1> QED BY <1>2, <1>3, <1>4, <1>5, EndTypes DEF Commit, LedgerTypes, workerVars

\* The other steps of a writer keep the types.
LEMMA WriteTypes ==
  ASSUME LedgerTypes, NEW p \in Writers,
         LockLedger(p) \/ LockJob(p) \/ ChooseRecipients(p) \/ Rollback(p)
  PROVE  LedgerTypes'
<1>1. CASE Rollback(p)
  BY <1>1, EndTypes DEF Rollback, LedgerTypes, workerVars
<1>2. CASE LockLedger(p) /\ ~Rollback(p)
  BY <1>2 DEF LockLedger, LedgerTypes, workerVars
<1>3. CASE LockJob(p)
  BY <1>3 DEF LockJob, JobsToChange, JobsOf, LedgerTypes, workerVars, writerVars
<1>4. CASE ChooseRecipients(p)
  BY <1>4 DEF ChooseRecipients, Recipients, LedgerTypes, workerVars
<1> QED BY <1>1, <1>2, <1>3, <1>4

\* So do the steps of a worker.
LEMMA DrainTypes ==
  ASSUME LedgerTypes, NEW w \in Workers, WorkerSound(w), Drain(w) \/ Crash(w)
  PROVE  LedgerTypes'
<1> USE DEF writerVars, workerVars
<1>1. CASE Claim(w)
  BY <1>1 DEF Claim, LedgerTypes
<1>2. CASE ReadLedger(w)
  <2>1. \A j \in JobKey : [jobs[j] EXCEPT !.status = "skipped"] \in Job
    BY DEF Job, LedgerTypes
  <2>2. jobs' \in [JobKey -> Job]
    BY <1>2, <2>1 DEF ReadLedger, LedgerTypes, WorkerSound
  <2> QED BY <1>2, <2>2, ReleaseTypes DEF ReadLedger, LedgerTypes
<1>3. CASE Send(w)
  BY <1>3 DEF Send, LedgerTypes, Uuid, WorkerSound
<1>4. CASE Record(w)
  <2>1. \A j \in JobKey : /\ Retried(jobs[j]) \in Job
                          /\ [jobs[j] EXCEPT !.status = "sent", !.attempts = jobs[j].attempts + 1]
                               \in Job
    <3> SUFFICES ASSUME NEW j \in JobKey
                 PROVE  /\ Retried(jobs[j]) \in Job
                        /\ [jobs[j] EXCEPT !.status = "sent", !.attempts = jobs[j].attempts + 1]
                             \in Job
      OBVIOUS
    <3>1. jobs[j] \in Job
      BY DEF LedgerTypes
    <3>2. jobs[j].attempts + 1 \in Nat
      BY <3>1 DEF Job
    <3>3. Retried(jobs[j]) \in Job
      BY <3>2 DEF Retried, Job
    <3> QED BY <3>1, <3>2, <3>3, Zenon DEF Job
  <2>2. jobs' \in [JobKey -> Job]
    BY <1>4, <2>1 DEF Record, LedgerTypes, WorkerSound
  <2> QED BY <1>4, <2>2, ReleaseTypes DEF Record, LedgerTypes
<1>5. CASE Crash(w)
  BY <1>5, ReleaseTypes DEF Crash, LedgerTypes
<1> QED BY <1>1, <1>2, <1>3, <1>4, <1>5 DEF Drain

\* And the steps of everybody else.
LEMMA OutsideTypes ==
  ASSUME LedgerTypes,
         \/ \E j \in JobKey : BackoffOver(j)
         \/ \E l \in Ledgers : CancelTour(l)
         \/ \E u \in Users : ToggleUser(u)
  PROVE  LedgerTypes'
<1> USE DEF writerVars, workerVars
<1>1. ASSUME NEW j \in JobKey, BackoffOver(j) PROVE LedgerTypes'
  <2>0. jobs[j] \in Job
    BY DEF LedgerTypes
  <2>1. [jobs[j] EXCEPT !.due = TRUE] \in Job
    BY <2>0, Zenon DEF Job
  <2> QED BY <1>1, <2>1 DEF BackoffOver, LedgerTypes
<1>2. ASSUME NEW l \in Ledgers, CancelTour(l) PROVE LedgerTypes'
  BY <1>2 DEF CancelTour, LedgerTypes
<1>3. ASSUME NEW u \in Users, ToggleUser(u) PROVE LedgerTypes'
  BY <1>3 DEF ToggleUser, LedgerTypes
<1> QED BY <1>1, <1>2, <1>3

-----------------------------------------------------------------------------
(* What a step leaves alone *)

\* No job appears or disappears, and none starts to wait.
JobsCalm ==
  \A j \in JobKey : /\ jobs'[j].status = "none" <=> jobs[j].status = "none"
                    /\ jobs'[j].status = "pending" => jobs[j].status = "pending"

\* A writer's step leaves every other writer and its locks alone.
LEMMA OthersUntouched ==
  ASSUME LedgerTypes, NEW p \in Writers, NEW q \in Writers, p # q,
         Request(p) \/ Write(p) \/ Rollback(p)
  PROVE  /\ pc'[q] = pc[q] /\ req'[q] = req[q] /\ chosen'[q] = chosen[q]
         /\ \A l \in Ledgers : ledgerLock[l] = q => ledgerLock'[l] = q
         /\ \A j \in JobKey : jobLock[j] = q => jobLock'[j] = q
<1> USE NoOneAssumption DEF LedgerTypes, writerVars, workerVars
<1> DEFINE Same == /\ pc'[q] = pc[q] /\ req'[q] = req[q] /\ chosen'[q] = chosen[q]
                   /\ \A l \in Ledgers : ledgerLock[l] = q => ledgerLock'[l] = q
                   /\ \A j \in JobKey : jobLock[j] = q => jobLock'[j] = q
<1>1. ASSUME NEW request, NEW first, Begin(p, request, first) PROVE Same
  BY <1>1 DEF Begin
<1>2. CASE Request(p)
  BY <1>1, <1>2 DEF Request, BeginCreate, BeginOnLedger
<1>3. ASSUME End(p) PROVE Same
  BY <1>3 DEF End
<1>4. CASE Rollback(p) \/ Commit(p)
  BY <1>3, <1>4 DEF Rollback, Commit
<1>5. CASE LockLedger(p) /\ ~Rollback(p)
  BY <1>5 DEF LockLedger
<1>6. CASE LockJob(p)
  BY <1>6 DEF LockJob
<1>7. CASE ChooseRecipients(p)
  BY <1>7 DEF ChooseRecipients
<1> QED BY <1>2, <1>4, <1>5, <1>6, <1>7 DEF Write

\* It leaves the workers and their locks alone as well.
LEMMA WorkersUntouched ==
  ASSUME LedgerTypes, NEW p \in Writers, NEW w \in Workers,
         Request(p) \/ Write(p) \/ Rollback(p)
  PROVE  /\ stage' = stage /\ claim' = claim
         /\ \A j \in JobKey : jobLock[j] = w => jobLock'[j] = w
<1> USE NoOneAssumption, ProcessesAssumption DEF LedgerTypes, writerVars, workerVars
<1> DEFINE Same == /\ stage' = stage /\ claim' = claim
                   /\ \A j \in JobKey : jobLock[j] = w => jobLock'[j] = w
<1>1. CASE Request(p)
  BY ZenonT(40), <1>1 DEF Request, BeginCreate, BeginOnLedger, Begin
<1>2. CASE Rollback(p) \/ Commit(p)
  BY <1>2 DEF Rollback, Commit, End
<1>3. CASE LockLedger(p) /\ ~Rollback(p)
  BY <1>3 DEF LockLedger
<1>4. CASE LockJob(p)
  BY <1>4 DEF LockJob
<1>5. CASE ChooseRecipients(p)
  BY <1>5 DEF ChooseRecipients
<1> QED BY <1>1, <1>2, <1>3, <1>4, <1>5 DEF Write

\* A worker's step leaves the writers alone, and every lock that is not its own.
LEMMA DrainLocks ==
  ASSUME LedgerTypes, NEW w \in Workers, Drain(w) \/ Crash(w),
         NEW x \in Writers \cup Workers, x # w
  PROVE  /\ UNCHANGED <<ledgers, tours, reachable, writerVars, wanted>>
         /\ \A j \in JobKey : jobLock[j] = x => jobLock'[j] = x
         /\ x \in Workers => stage'[x] = stage[x] /\ claim'[x] = claim[x]
BY NoOneAssumption DEF LedgerTypes, Drain, Claim, ReadLedger, Send, Record, Crash, Release

\* A worker changes no job but its own, and that one it neither makes nor revives.
LEMMA DrainJobs ==
  ASSUME LedgerTypes, NEW w \in Workers, WorkerSound(w), Drain(w) \/ Crash(w)
  PROVE  /\ JobsCalm
         /\ \A j \in JobKey : jobLock[j] # w => jobs'[j] = jobs[j]
<1> USE DEF LedgerTypes, JobsCalm, WorkerSound, Pending
<1>1. CASE Claim(w) \/ Send(w) \/ Crash(w)
  BY <1>1 DEF Claim, Send, Crash
<1>2. CASE ReadLedger(w)
  BY <1>2 DEF ReadLedger, Job
<1>3. CASE Record(w)
  BY <1>3 DEF Record, Retried, Job
<1> QED BY <1>1, <1>2, <1>3 DEF Drain

\* A writer whose ledger, locks and request are left alone stays sound.
LEMMA WriterKept ==
  ASSUME LedgerTypes, NEW q \in Writers, WriterSound(q),
         ledgers' = ledgers, JobsCalm,
         \A l \in Ledgers : tours'[l] = "none" <=> tours[l] = "none",
         pc'[q] = pc[q], req'[q] = req[q], chosen'[q] = chosen[q],
         \A l \in Ledgers : ledgerLock[l] = q => ledgerLock'[l] = q,
         \A j \in JobKey : jobLock[j] = q => jobLock'[j] = q,
         \A x \in Writers \ {q} : req[q].op = "create" /\ req'[x].ledger = req[q].ledger
                                    => req[x].ledger = req[q].ledger
  PROVE  WriterSound(q)'
<1> USE DEF WriterSound
<1>1. RequestSound(q)'
  <2>1. req[q].op \in OnLedger \cup {"create"} => req[q].ledger \in Ledgers
    BY DEF RequestSound, LedgerTypes, Blank, OnLedger
  <2>2. req[q].op \in OnLedger =>
          (tours'[req[q].ledger] = "none" <=> tours[req[q].ledger] = "none")
    BY <2>1
  <2>3. req[q].op = "create" =>
          /\ tours'[req[q].ledger] = "none"
          /\ \A x \in Writers \ {q} : req'[x].ledger # req[q].ledger
    BY <2>1 DEF RequestSound
  <2> QED BY <2>2, <2>3 DEF RequestSound
<1>2. HoldsLedger(q)'
  BY DEF HoldsLedger, RequestSound, LedgerTypes
<1>3. JobsToChange(q)' \subseteq JobsToChange(q)
  BY DEF JobsToChange, JobsOf, Pending, JobsCalm
<1>4. ReadyToCommit(q)'
  BY <1>3 DEF ReadyToCommit, JobsToChange, JobsOf
<1> QED BY <1>1, <1>2, <1>4

-----------------------------------------------------------------------------
(* The commit *)

\* A transaction about to commit has a ledger, and a request for it.
LEMMA CommitHas ==
  ASSUME LedgerInv, NEW p \in Writers, pc[p] = "commit"
  PROVE  /\ req[p].ledger \in Ledgers /\ req[p] \in Asked
         /\ ledgers[req[p].ledger] \in LedgerRow
         /\ req[p].op \in OnLedger \cup {"create"}
BY DEF LedgerInv, LedgerTypes, WriterSound, RequestSound, Asked

\* The saved row is sound: an operation is checked on the row it changes, and a
\* conversion is undone only by an update that saw no tour, when there is still none.
LEMMA CommitLedgerSound ==
  ASSUME LedgerInv, NEW p \in Writers, Commit(p)
  PROVE  \A k \in Ledgers : LedgerSound(k)'
<1>0. pc[p] = "commit"
  BY DEF Commit
<1> PICK l \in Ledgers : l = req[p].ledger
  BY <1>0, CommitHas
<1> DEFINE r == req[p]
           row == ledgers[l]
<1>1. /\ pc[p] = "commit" /\ ledgers' = [ledgers EXCEPT ![l] = Saved(r, row)]
      /\ tours' = IF r.op = "convert" \/ (r.op = "create" /\ r.converted)
                  THEN [tours EXCEPT ![l] = "active"] ELSE tours
  BY DEF Commit
<1>2. /\ l \in Ledgers /\ row \in LedgerRow /\ r \in Asked
      /\ r.op \in OnLedger \cup {"create"}
  BY <1>0, CommitHas
<1>3. ledgers'[l] = Saved(r, row)
  BY <1>1, <1>2 DEF LedgerInv, LedgerTypes
<1>4. ASSUME NEW k \in Ledgers, k # l PROVE LedgerSound(k)'
  BY <1>1, <1>2, <1>4 DEF LedgerInv, LedgerSound, LedgerTypes
<1>5. CASE r.op = "create"
  <2>1. /\ ledgers'[l].state = "live" /\ ~ledgers'[l].operated
        /\ ledgers'[l].converted = r.converted
    BY <1>3, <1>5 DEF Saved, NoRow
  <2>2. tours'[l] = "none" \/ r.converted
    BY <1>1, <1>2, <1>5 DEF LedgerInv, LedgerTypes, WriterSound, RequestSound
  <2>3. LedgerSound(l)'
    BY <2>1, <2>2 DEF LedgerSound
  <2> QED BY <1>4, <2>3
<1>6. CASE r.op \in OnLedger
  <2>1. /\ row.state = "live" /\ VersionSeen(r, row) /\ Allowed(r, row)
        /\ r.tour = "none" => tours[l] = "none"
    BY <1>1, <1>2, <1>6 DEF LedgerInv, WriterSound, RequestSound, HoldsLedger, OnLedger, VersionSeen
  <2>2. LedgerSound(l)
    BY <1>2 DEF LedgerInv
  <2>3. CASE r.op = "update"
    <3>0. Saved(r, row) = [row EXCEPT !.converted = r.converted, !.loss = r.loss,
                                      !.proposalSent = r.proposalSent,
                                      !.operator = r.operator, !.version = row.version + 1]
      BY <1>2, <2>3 DEF Saved, LedgerRow
    <3>1. /\ tours'[l] = tours[l] /\ ledgers'[l].state = "live" /\ ~ledgers'[l].operated
          /\ ledgers'[l].converted = r.converted
      <4>1. ~row.operated
        BY <2>1, <2>3 DEF Allowed
      <4>2. tours'[l] = tours[l]
        BY <1>1, <2>3
      <4> QED BY <1>2, <1>3, <2>1, <3>0, <4>1, <4>2 DEF LedgerRow
    <3>2. tours[l] # "none" => r.converted
      BY <1>2, <2>1, <2>2, <2>3 DEF Allowed, LedgerSound, LedgerRow, Asked
    <3> QED BY <1>4, <3>1, <3>2 DEF LedgerSound
  <2>4. CASE r.op = "convert"
    <3>1. /\ ledgers'[l].state = "live" /\ ledgers'[l].converted
          /\ ledgers'[l].operated = row.operated /\ ledgers'[l].loss = row.loss
          /\ ledgers'[l].reviewed = row.reviewed
          /\ ledgers'[l].proposalSent = row.proposalSent
      BY <1>2, <1>3, <2>1, <2>4 DEF Saved, LedgerRow
    <3> QED BY <1>4, <2>2, <3>1 DEF LedgerSound
  <2>5. CASE r.op = "review"
    <3>1. /\ ledgers'[l].state = "live" /\ ~ledgers'[l].operated
          /\ ledgers'[l].converted = row.converted /\ tours'[l] = tours[l]
      BY <1>1, <1>2, <1>3, <2>1, <2>5 DEF Saved, Allowed, LedgerRow
    <3> QED BY <1>4, <2>2, <3>1 DEF LedgerSound
  <2>6. CASE r.op = "operate"
    <3>1. /\ ledgers'[l].state = "live" /\ ledgers'[l].converted /\ ledgers'[l].proposalSent
          /\ ledgers'[l].loss => ledgers'[l].reviewed
      BY ZenonT(40), <1>2, <1>3, <2>1, <2>6 DEF Saved, Allowed, LedgerRow
    <3> QED BY <1>4, <3>1 DEF LedgerSound
  <2>7. CASE r.op = "delete"
    <3>1. /\ ledgers'[l].state = "deleted" /\ ~ledgers'[l].operated /\ ~row.converted
          /\ tours'[l] = tours[l]
      BY <1>1, <1>2, <1>3, <2>1, <2>7 DEF Saved, Allowed, LedgerRow
    <3> QED BY <1>4, <2>2, <3>1 DEF LedgerSound
  <2> QED BY <1>6, <2>3, <2>4, <2>5, <2>6, <2>7 DEF OnLedger
<1> QED BY <1>2, <1>5, <1>6

\* Where enqueue is not called, or does nothing, the ledger asks for the same as before.
LEMMA NeedKept ==
  ASSUME LedgerInv, NEW p \in Writers, pc[p] = "commit", req[p].op # "delete",
         ~Enqueues(req[p], ledgers[req[p].ledger])
  PROVE  SameNeed(Saved(req[p], ledgers[req[p].ledger]), ledgers[req[p].ledger])
<1> DEFINE r == req[p]
           l == req[p].ledger
           row == ledgers[l]
<1>1. l \in Ledgers /\ row \in LedgerRow /\ r \in Asked /\ r.op \in OnLedger \cup {"create"}
  BY CommitHas
<1>2. CASE r.op # "convert"
  BY <1>2 DEF Enqueues
<1>3. CASE r.op = "convert" /\ ~row.operated
  <2>1. r.tour # "none" => tours[l] # "none"
    BY <1>1, <1>3 DEF LedgerInv, WriterSound, RequestSound, OnLedger
  <2>2. row.converted \/ SameNeed(Saved(r, row), row)
    BY <1>1, <1>3, <2>1 DEF Enqueues, LedgerInv, LedgerSound
  <2>3. ASSUME row.converted PROVE SameNeed(Saved(r, row), row)
    <3>1. /\ Saved(r, row).state = row.state /\ Saved(r, row).operated = row.operated
          /\ Saved(r, row).loss = row.loss /\ Saved(r, row).reviewed = row.reviewed
          /\ Saved(r, row).proposalSent = row.proposalSent
          /\ Saved(r, row).converted = TRUE /\ Saved(r, row).operator = row.operator
      BY <1>1, <1>3 DEF Saved, LedgerRow
    <3> QED BY <2>3, <3>1 DEF SameNeed, ReminderKind
  <2> QED BY <2>2, <2>3
<1>4. CASE r.op = "convert" /\ row.operated
  <2>1. Saved(r, row).operated
    BY <1>1, <1>4 DEF Saved, LedgerRow
  <2>2. ReminderKind(Saved(r, row)) = "none" /\ ReminderKind(row) = "none"
    BY <1>4, <2>1 DEF ReminderKind
  <2> QED BY <2>2 DEF SameNeed
<1> QED BY <1>2, <1>3, <1>4

\* What a commit does to the jobs of its ledger: all go with a deleted ledger; all that
\* wait give way to those of a new need; else nothing changes.
LEMMA CommitJobs ==
  ASSUME LedgerInv, NEW p \in Writers, Commit(p)
  PROVE  LET r == req[p]  l == req[p].ledger
         IN /\ \A j \in JobKey : j.ledger # l => jobs'[j] = jobs[j]
            /\ r.op = "delete" => \A j \in JobsOf(l) : jobs'[j] = NoJob
            /\ Enqueues(r, ledgers[l]) => \A j \in JobsOf(l) :
                 /\ jobs'[j].status = "pending" => j \in NewJobs(p)
                 /\ jobs'[j].status = "none" => jobs[j].status = "none"
                 /\ jobs'[j].status # "none" => jobs[j].status # "none" \/ j \in NewJobs(p)
            /\ ~Enqueues(r, ledgers[l]) /\ r.op # "delete" =>
                 \A j \in JobsOf(l) : jobs'[j] = jobs[j]
            /\ ~Enqueues(r, ledgers[l]) => NewJobs(p) = {}
<1> DEFINE r == req[p]
           l == req[p].ledger
<1>1. pc[p] = "commit" /\ jobs' = JobsSaved(p) /\ l \in Ledgers
  BY CommitHas DEF Commit
<1>2. \A j \in JobKey : jobs'[j] =
        IF r.op = "delete" /\ j.ledger = l THEN NoJob
        ELSE IF j \in JobsToChange(p) THEN [jobs[j] EXCEPT !.status = "skipped"]
        ELSE IF j \in NewJobs(p) /\ jobs[j].status = "none"
             THEN [NoJob EXCEPT !.status = "pending"]
             ELSE jobs[j]
  BY <1>1 DEF JobsSaved
<1>3. \A j \in JobsToChange(p) \cup NewJobs(p) : j.ledger = l
  BY DEF JobsToChange, JobsOf, NewJobs
<1>4. \A j \in JobKey : j.ledger # l => jobs'[j] = jobs[j]
  BY <1>2, <1>3
<1>5. r.op = "delete" => \A j \in JobsOf(l) : jobs'[j] = NoJob
  BY <1>2 DEF JobsOf
<1>6. \A j \in JobKey : [jobs[j] EXCEPT !.status = "skipped"].status = "skipped"
  BY DEF LedgerInv, LedgerTypes, Job
<1>7. ASSUME Enqueues(r, ledgers[l]), NEW j \in JobsOf(l)
      PROVE  /\ jobs'[j].status = "pending" => j \in NewJobs(p)
             /\ jobs'[j].status = "none" => jobs[j].status = "none"
             /\ jobs'[j].status # "none" => jobs[j].status # "none" \/ j \in NewJobs(p)
  <2>1. j \in JobKey /\ j.ledger = l /\ r.op # "delete"
    BY <1>7 DEF JobsOf, Enqueues
  <2>2. j \in JobsToChange(p) <=> Pending(j)
    BY <1>7, <2>1 DEF JobsToChange
  <2>3. [NoJob EXCEPT !.status = "pending"].status = "pending"
    BY DEF NoJob
  <2> QED BY <1>2, <1>6, <2>1, <2>2, <2>3 DEF Pending
<1>8. ~Enqueues(r, ledgers[l]) => NewJobs(p) = {}
  BY <1>1 DEF LedgerInv, WriterSound, ReadyToCommit, NewJobs
<1>9. ASSUME ~Enqueues(r, ledgers[l]), r.op # "delete", NEW j \in JobsOf(l)
      PROVE  jobs'[j] = jobs[j]
  <2>1. JobsToChange(p) = {}
    BY <1>9 DEF JobsToChange
  <2> QED BY <1>2, <1>8, <1>9, <2>1 DEF JobsOf
<1> QED BY <1>4, <1>5, <1>7, <1>8, <1>9

\* Every commit but a deletion is a version of its own.
LEMMA CommitVersion ==
  ASSUME LedgerInv, NEW p \in Writers, pc[p] = "commit", req[p].op # "delete"
  PROVE  /\ ledgers[req[p].ledger].version \in Nat
         /\ Saved(req[p], ledgers[req[p].ledger]).version
              = ledgers[req[p].ledger].version + 1
<1> DEFINE r == req[p]
           row == ledgers[req[p].ledger]
<1>1. row \in LedgerRow /\ r.op \in OnLedger \cup {"create"}
  BY CommitHas
<1>2. row.version \in Nat
  BY <1>1 DEF LedgerRow
<1>3. CASE r.op = "create"
  <2>1. row = NoRow
    BY <1>3 DEF LedgerInv, WriterSound, RequestSound
  <2>2. row.version = 0
    BY <2>1 DEF NoRow
  <2>3. Saved(r, row).version = 1
    BY <1>3 DEF Saved, NoRow
  <2> QED BY <2>2, <2>3
<1>4. CASE r.op = "update"
  BY <1>1, <1>2, <1>4 DEF Saved, LedgerRow
<1>5. CASE r.op = "convert"
  BY <1>1, <1>2, <1>5 DEF Saved, LedgerRow
<1>6. CASE r.op = "review"
  BY <1>1, <1>2, <1>6 DEF Saved, LedgerRow
<1>7. CASE r.op = "operate"
  BY <1>1, <1>2, <1>7 DEF Saved, LedgerRow
<1> QED BY <1>1, <1>3, <1>4, <1>5, <1>6, <1>7 DEF OnLedger

\* The jobs that wait after a commit are of what the ledger asks for now.
LEMMA CommitJobSound ==
  ASSUME LedgerInv, NEW p \in Writers, Commit(p)
  PROVE  \A j \in JobKey : JobSound(j)'
<1>0. pc[p] = "commit"
  BY DEF Commit
<1> PICK l \in Ledgers : l = req[p].ledger
  BY <1>0, CommitHas
<1> DEFINE r == req[p]
           row == ledgers[l]
           saved == Saved(r, row)
<1>1. /\ \A k \in Ledgers : ledgers'[k] = IF k = l THEN saved ELSE ledgers[k]
      /\ r.op \in OnLedger \cup {"create"}
  BY <1>0, CommitHas DEF Commit, LedgerInv, LedgerTypes
<1> SUFFICES ASSUME NEW j \in JobKey PROVE JobSound(j)'
  OBVIOUS
<1>2. j.ledger \in Ledgers /\ j.version \in Nat /\ JobSound(j)
  BY DEF JobKey, LedgerInv
<1>3. CASE j.ledger # l
  <2>1. \A k \in JobKey : k.ledger = j.ledger => jobs'[k] = jobs[k]
    BY <1>3, CommitJobs
  <2>2. ledgers'[j.ledger] = ledgers[j.ledger]
    BY <1>1, <1>2, <1>3
  <2> QED BY <1>2, <2>1, <2>2 DEF JobSound, Pending
<1>4. CASE j.ledger = l /\ r.op = "delete"
  <2>1. jobs'[j].status = "none"
    BY <1>4, CommitJobs DEF JobsOf, NoJob
  <2> QED BY <2>1 DEF JobSound, Pending
<1>5. CASE j.ledger = l /\ r.op # "delete" /\ ~Enqueues(r, row)
  <2>1. \A k \in JobKey : k.ledger = l => jobs'[k] = jobs[k]
    BY <1>5, CommitJobs DEF JobsOf
  <2>2. SameNeed(saved, row)
    BY <1>0, <1>5, NeedKept
  <2>3. row.version \in Nat /\ saved.version = row.version + 1
    BY <1>0, <1>5, CommitVersion
  <2>4. ledgers'[j.ledger] = saved
    BY <1>1, <1>5
  <2>5. jobs'[j].status # "none" => j.version <= saved.version
    BY <1>2, <1>5, <2>1, <2>3 DEF JobSound
  <2>6. Pending(j) => /\ ReminderKind(saved) = j.kind
                      /\ j.kind = "operate" => saved.operator = j.user
    BY <1>2, <1>5, <2>2 DEF JobSound, SameNeed
  <2> QED BY <1>2, <1>5, <2>1, <2>4, <2>5, <2>6 DEF JobSound, Pending
<1>6. CASE j.ledger = l /\ Enqueues(r, row)
  <2>1. \A k \in JobKey : k.ledger = l =>
          /\ jobs'[k].status = "pending" => k \in NewJobs(p)
          /\ jobs'[k].status # "none" => jobs[k].status # "none" \/ k \in NewJobs(p)
    BY <1>6, CommitJobs DEF JobsOf
  <2>2. \A k \in NewJobs(p) : /\ k.version = saved.version /\ k.kind = ReminderKind(saved)
                              /\ k.user \in chosen[p]
    BY DEF NewJobs
  <2>3. \A u \in chosen[p] :
          IF ReminderKind(saved) = "review" THEN u \in Managers ELSE u = saved.operator
    BY <1>0 DEF LedgerInv, WriterSound, ReadyToCommit
  <2>4. row.version \in Nat /\ saved.version = row.version + 1
    BY <1>0, <1>6, CommitVersion DEF Enqueues
  <2>5. ledgers'[j.ledger] = saved
    BY <1>1, <1>6
  <2>6. jobs'[j].status # "none" => j.version <= saved.version
    BY <1>2, <1>6, <2>1, <2>2, <2>4 DEF JobSound
  <2>7. jobs'[j].status = "pending" =>
          /\ ReminderKind(saved) = j.kind
          /\ j.kind = "operate" => saved.operator = j.user
          /\ j.kind = "review" => j.user \in Managers
          /\ \A k \in JobKey : jobs'[k].status = "pending" /\ k.ledger = j.ledger
                                 => k.version = j.version
    BY <1>6, <2>1, <2>2, <2>3
  <2> QED BY <2>5, <2>6, <2>7 DEF JobSound, Pending
<1> QED BY <1>3, <1>4, <1>5, <1>6

\* Whoever a new need is asked of gets a job, and it is a fresh one.
LEMMA CommitWantedSound ==
  ASSUME LedgerInv, NEW p \in Writers, Commit(p)
  PROVE  \A k \in Ledgers : WantedSound(k)'
<1>0. pc[p] = "commit"
  BY DEF Commit
<1> PICK l \in Ledgers : l = req[p].ledger
  BY <1>0, CommitHas
<1> DEFINE r == req[p]
           row == ledgers[l]
<1> SUFFICES ASSUME NEW k \in Ledgers, NEW j \in wanted'[k]
             PROVE  /\ j.ledger = k /\ j.user \in reachable'
                    /\ jobs'[j].status \in {"pending", "sent", "failed"}
  BY DEF WantedSound
<1>1. reachable' = reachable
  BY DEF Commit
<1>2. wanted' = IF Enqueues(r, row) \/ r.op = "delete"
                THEN [wanted EXCEPT ![l] = {i \in NewJobs(p) : i.user \in reachable}]
                ELSE wanted
  BY DEF Commit
<1>3. WantedSound(k) /\ wanted \in [Ledgers -> SUBSET JobKey]
  BY DEF LedgerInv, LedgerTypes
<1>4. CASE k # l
  <2>1. j \in wanted[k]
    BY <1>2, <1>3, <1>4
  <2>2. j \in JobKey /\ j.ledger = k
    BY <1>3, <2>1 DEF WantedSound
  <2> QED BY <1>1, <1>3, <1>4, <2>1, <2>2, CommitJobs DEF WantedSound
<1>5. CASE k = l /\ r.op = "delete"
  <2>1. j \in NewJobs(p)
    BY <1>2, <1>3, <1>5
  <2>2. ~Enqueues(r, row)
    BY <1>5 DEF Enqueues
  <2> QED BY <2>1, <2>2, CommitJobs
<1>6. CASE k = l /\ Enqueues(r, row)
  <2>1. j \in NewJobs(p) /\ j.user \in reachable
    BY <1>2, <1>3, <1>6
  <2>2. j \in JobKey /\ j.ledger = l /\ j.version = Saved(r, row).version
    BY <2>1 DEF NewJobs
  <2>3. row.version \in Nat /\ Saved(r, row).version = row.version + 1
    BY <1>0, <1>6, CommitVersion DEF Enqueues
  <2>4. jobs[j].status = "none"
    BY <2>2, <2>3 DEF LedgerInv, JobSound
  <2>5. j \notin JobsToChange(p) /\ r.op # "delete"
    BY <1>6, <2>4 DEF JobsToChange, Pending, Enqueues
  <2>6. jobs'[j] = [NoJob EXCEPT !.status = "pending"]
    BY <2>1, <2>2, <2>4, <2>5 DEF Commit, JobsSaved
  <2> QED BY <1>1, <1>6, <2>1, <2>2, <2>6 DEF NoJob
<1>7. CASE k = l /\ r.op # "delete" /\ ~Enqueues(r, row)
  <2>1. j \in wanted[k]
    BY <1>2, <1>7
  <2>2. j \in JobKey /\ j.ledger = k
    BY <1>3, <2>1 DEF WantedSound
  <2>3. jobs'[j] = jobs[j]
    BY <1>7, <2>2, CommitJobs DEF JobsOf
  <2> QED BY <1>1, <1>3, <2>1, <2>2, <2>3 DEF WantedSound
<1> QED BY <1>4, <1>5, <1>6, <1>7

\* A worker that delivers a job holds it, so no commit can skip or delete it.
LEMMA CommitWorkers ==
  ASSUME LedgerInv, NEW p \in Writers, Commit(p), NEW w \in Workers
  PROVE  WorkerSound(w)'
<1>0. pc[p] = "commit"
  BY DEF Commit
<1> PICK l \in Ledgers : l = req[p].ledger
  BY <1>0, CommitHas
<1>1. /\ stage' = stage /\ claim' = claim
      /\ \A j \in JobKey : jobLock[j] = w => jobLock'[j] = w
  BY WorkersUntouched DEF LedgerInv, Write
<1> SUFFICES ASSUME stage[w] # "idle"
             PROVE  jobs'[claim[w]].status = "pending"
  BY <1>1 DEF LedgerInv, WorkerSound, Pending
<1>2. /\ claim[w] \in JobKey /\ jobLock[claim[w]] = w /\ Pending(claim[w])
  BY DEF LedgerInv, WorkerSound
<1>3. claim[w] \notin JobsToChange(p)
  BY <1>0, <1>2, ProcessesAssumption DEF LedgerInv, WriterSound, ReadyToCommit
<1>4. jobs'[claim[w]] = jobs[claim[w]]
  BY <1>2, <1>3, CommitJobs DEF JobsToChange, JobsOf, Pending
<1> QED BY <1>2, <1>4 DEF Pending

\* Two transactions past their checks are on different ledgers, and a request on the
\* ledger of the commit has an older version than the one saved, or saw no tour.
LEMMA CommitOthers ==
  ASSUME LedgerInv, NEW p \in Writers, Commit(p), NEW q \in Writers, p # q
  PROVE  WriterSound(q)'
<1>0. pc[p] = "commit"
  BY DEF Commit
<1> PICK l \in Ledgers : l = req[p].ledger
  BY <1>0, CommitHas
<1> DEFINE r == req[p]
           row == ledgers[l]
           saved == Saved(r, row)
           m == req[q].ledger
<1>1. /\ \A k \in Ledgers : ledgers'[k] = IF k = l THEN saved ELSE ledgers[k]
      /\ \A k \in Ledgers : k # l => tours'[k] = tours[k]
      /\ tours[l] # "none" => tours'[l] # "none"
      /\ row \in LedgerRow /\ r \in Asked /\ r.op \in OnLedger \cup {"create"}
  BY <1>0, CommitHas DEF Commit, LedgerInv, LedgerTypes
<1>2. WriterSound(q) /\ WriterSound(p)
  BY DEF LedgerInv
<1>3. /\ pc'[q] = pc[q] /\ req'[q] = req[q] /\ chosen'[q] = chosen[q]
      /\ \A k \in Ledgers : ledgerLock[k] = q => ledgerLock'[k] = q
      /\ \A j \in JobKey : jobLock[j] = q => jobLock'[j] = q
      /\ \A x \in Writers : req'[x] \in {req[x], Blank}
  BY OthersUntouched DEF LedgerInv, Write, Commit, End, LedgerTypes
<1>4. /\ pc[q] # "idle" => m \in Ledgers
      /\ req[q].op \in OnLedger \cup {"create"} => pc[q] # "idle"
  BY <1>2 DEF WriterSound, RequestSound, Blank, OnLedger
<1>5. req[q].op = "create" => m # l
  BY <1>1, <1>2 DEF WriterSound, RequestSound, NoRow
<1>6. ASSUME m = l PROVE r.op \in OnLedger
  BY <1>1, <1>2, <1>6 DEF WriterSound, RequestSound
<1>7. pc[q] \in {"jobs", "commit"} => m # l
  BY <1>0, <1>1, <1>2, <1>5, <1>6 DEF WriterSound, HoldsLedger, OnLedger
<1>8. RequestSound(q)'
  <2>1. CASE req[q].op = "create"
    <3>1. m \in Ledgers /\ m # l /\ m # NoOne
      BY <1>4, <1>5, <2>1, NoOneAssumption
    <3>2. \A x \in Writers \ {q} : req'[x].ledger # m
      BY <1>2, <1>3, <2>1, <3>1 DEF WriterSound, RequestSound, Blank
    <3> QED BY <1>1, <1>2, <1>3, <2>1, <3>1, <3>2
            DEF WriterSound, RequestSound, OnLedger
  <2>2. CASE req[q].op \in OnLedger /\ m # l
    <3>1. m \in Ledgers
      BY <1>4, <2>2
    <3> QED BY <1>1, <1>2, <1>3, <2>2, <3>1 DEF WriterSound, RequestSound, OnLedger
  <2>3. CASE req[q].op \in OnLedger /\ m = l
    <3>1. /\ row.state # "new" /\ req[q].version <= row.version
          /\ req[q].tour # "none" => tours[l] # "none"
          /\ req[q].version = row.version /\ req[q].tour = "none" => tours[l] = "none"
          /\ req[q].version \in Nat /\ row.version \in Nat
      BY <1>1, <1>2, <2>3 DEF WriterSound, RequestSound, LedgerInv, LedgerTypes, Asked, LedgerRow
    <3>2. saved.state # "new"
      BY <1>1, <1>6, <2>3, <3>1, SavedRow
    <3>3. CASE r.op = "delete"
      <4>1. saved.version = row.version /\ tours' = tours
        BY <1>1, <3>3 DEF Saved, LedgerRow, Commit
      <4> QED BY <1>1, <1>3, <1>4, <2>3, <3>1, <3>2, <4>1 DEF RequestSound, OnLedger
    <3>4. CASE r.op # "delete"
      <4>1. saved.version = row.version + 1
        BY <1>0, <3>4, CommitVersion
      <4> QED BY <1>1, <1>3, <1>4, <2>3, <3>1, <3>2, <4>1 DEF RequestSound, OnLedger
    <3> QED BY <3>3, <3>4
  <2>4. CASE req[q].op \notin OnLedger \cup {"create"}
    BY <1>2, <1>3, <2>4 DEF WriterSound, RequestSound
  <2> QED BY <2>1, <2>2, <2>3, <2>4
<1>9. HoldsLedger(q)'
  <2> SUFFICES ASSUME pc[q] \in {"jobs", "commit"}, req[q].op # "create"
               PROVE  /\ ledgerLock'[m] = q /\ ledgers'[m].state = "live"
                      /\ VersionSeen(req[q], ledgers'[m]) /\ Allowed(req[q], ledgers'[m])
    BY <1>3 DEF HoldsLedger
  <2>1. m \in Ledgers /\ ledgers'[m] = ledgers[m]
    BY <1>1, <1>4, <1>7
  <2> QED BY <1>2, <1>3, <2>1 DEF WriterSound, HoldsLedger
<1>10. ReadyToCommit(q)'
  <2> SUFFICES ASSUME pc[q] = "commit" PROVE ReadyToCommit(q)'
    BY <1>3 DEF ReadyToCommit
  <2>1. m \in Ledgers /\ ledgers'[m] = ledgers[m]
    BY <1>1, <1>4, <1>7
  <2>2. \A j \in JobKey : j.ledger = m => jobs'[j] = jobs[j]
    BY <1>7, CommitJobs
  <2>3. JobsToChange(q)' \subseteq JobsToChange(q) /\ JobsToChange(q) \subseteq JobKey
    BY <1>3, <2>1, <2>2 DEF JobsToChange, JobsOf, Pending
  <2> QED BY <1>2, <1>3, <2>1, <2>3 DEF WriterSound, ReadyToCommit
<1> QED BY <1>8, <1>9, <1>10 DEF WriterSound

\* A writer at rest is sound.
LEMMA EndSound ==
  ASSUME LedgerTypes, NEW p \in Writers, End(p)
  PROVE  WriterSound(p)'
<1>1. pc'[p] = "idle" /\ req'[p] = Blank
  BY DEF End, LedgerTypes
<1> QED BY <1>1 DEF WriterSound, RequestSound, HoldsLedger, ReadyToCommit, Blank, OnLedger

-----------------------------------------------------------------------------
(* The other steps *)

\* Where ledgers stay, and no job appears or starts to wait, ledgers and jobs are sound.
LEMMA CalmSound ==
  ASSUME LedgerInv, ledgers' = ledgers, JobsCalm,
         \A l \in Ledgers : tours'[l] = "none" <=> tours[l] = "none"
  PROVE  /\ \A l \in Ledgers : LedgerSound(l)'
         /\ \A j \in JobKey : JobSound(j)'
<1>1. \A l \in Ledgers : LedgerSound(l)'
  BY DEF LedgerInv, LedgerSound
<1>2. \A j \in JobKey : JobSound(j)'
  BY DEF LedgerInv, JobSound, JobsCalm, Pending, JobKey
<1> QED BY <1>1, <1>2

\* A new request is sound: what it saw is what is there.
LEMMA RequestOwn ==
  ASSUME LedgerInv, NEW p \in Writers, Request(p)
  PROVE  WriterSound(p)'
<1> USE DEF LedgerTypes, WriterSound
<1>1. CASE BeginCreate(p)
  <2>1. PICK l \in Ledgers, f \in Fields :
          /\ ledgers[l].state = "new"
          /\ \A q \in Writers : req[q].ledger # l
          /\ Begin(p, [Blank EXCEPT !.op = "create", !.ledger = l, !.converted = f.converted,
                                    !.proposalSent = f.proposalSent, !.loss = f.loss,
                                    !.operator = f.operator], "jobs")
    BY <1>1 DEF BeginCreate
  <2>2. /\ pc'[p] = "jobs" /\ req'[p].op = "create" /\ req'[p].ledger = l
        /\ \A q \in Writers \ {p} : req'[q].ledger # l
        /\ ledgers' = ledgers /\ tours' = tours
    BY <2>1 DEF Begin, LedgerInv, Blank
  <2>3. ledgers[l] = NoRow /\ tours[l] = "none"
    BY <2>1 DEF LedgerInv, LedgerSound
  <2>4. RequestSound(p)'
    BY <2>2, <2>3 DEF RequestSound, OnLedger
  <2> QED BY <2>2, <2>4 DEF HoldsLedger, ReadyToCommit
<1>2. ASSUME NEW op \in OnLedger, BeginOnLedger(p, op) PROVE WriterSound(p)'
  <2>1. PICK l, f :
          /\ l \in Ledgers /\ ledgers[l].state # "new"
          /\ Begin(p, [op |-> op, ledger |-> l, version |-> ledgers[l].version,
                       tour |-> tours[l], converted |-> f.converted,
                       proposalSent |-> f.proposalSent, loss |-> f.loss,
                       operator |-> f.operator], "lock")
    BY <1>2 DEF BeginOnLedger
  <2>2. /\ pc'[p] = "lock" /\ req'[p].op = op /\ req'[p].ledger = l
        /\ req'[p].version = ledgers[l].version /\ req'[p].tour = tours[l]
        /\ ledgers' = ledgers /\ tours' = tours
    BY <2>1 DEF Begin, LedgerInv
  <2>3. ledgers[l].version \in Nat
    BY <2>1 DEF LedgerInv, LedgerTypes, LedgerRow
  <2>4. RequestSound(p)'
    BY <2>1, <2>2, <2>3 DEF RequestSound, OnLedger
  <2> QED BY <2>2, <2>4 DEF HoldsLedger, ReadyToCommit
<1> QED BY <1>1, <1>2 DEF Request, OnLedger

\* A writer that goes on has what its next stage relies on.
LEMMA WriteOwn ==
  ASSUME LedgerInv, NEW p \in Writers,
         LockLedger(p) \/ LockJob(p) \/ ChooseRecipients(p) \/ Rollback(p)
  PROVE  WriterSound(p)'
<1> USE DEF workerVars
<1>0. WriterSound(p) /\ LedgerTypes
  BY DEF LedgerInv
<1>1. CASE Rollback(p)
  BY <1>0, <1>1, EndSound DEF Rollback
<1>2. CASE LockLedger(p) /\ ~Rollback(p)
  <2>1. PICK l \in Ledgers :
          /\ l = req[p].ledger /\ pc[p] = "lock" /\ ledgers[l].state = "live"
          /\ VersionSeen(req[p], ledgers[l]) /\ Allowed(req[p], ledgers[l])
          /\ ledgerLock' = [ledgerLock EXCEPT ![l] = p]
          /\ pc' = [pc EXCEPT ![p] = "jobs"]
          /\ ledgers' = ledgers /\ tours' = tours /\ req' = req
    BY <1>2 DEF LockLedger
  <2>2. pc'[p] = "jobs" /\ ledgerLock'[l] = p
    BY <1>0, <2>1 DEF LedgerTypes
  <2>3. RequestSound(p)'
    BY <1>0, <2>1, <2>2 DEF WriterSound, RequestSound, OnLedger
  <2> QED BY <2>1, <2>2, <2>3 DEF WriterSound, HoldsLedger, ReadyToCommit
<1>3. CASE LockJob(p)
  BY <1>0, <1>3 DEF LockJob, writerVars, WriterSound, RequestSound, HoldsLedger, ReadyToCommit
<1>4. CASE ChooseRecipients(p)
  <2> DEFINE row == ledgers[req[p].ledger]
             saved == Saved(req[p], row)
  <2>1. /\ pc[p] = "jobs" /\ pc'[p] = "commit" /\ req' = req
        /\ ledgers' = ledgers /\ tours' = tours /\ jobs' = jobs
        /\ ledgerLock' = ledgerLock /\ jobLock' = jobLock
        /\ \A j \in JobsToChange(p) : jobLock[j] = p
        /\ chosen'[p] = IF Enqueues(req[p], row) /\ ReminderKind(saved) # "none"
                        THEN Recipients(saved, ReminderKind(saved)) ELSE {}
    BY <1>0, <1>4 DEF ChooseRecipients, LedgerTypes
  <2>2. RequestSound(p)' /\ HoldsLedger(p)'
    BY <1>0, <2>1 DEF WriterSound, RequestSound, HoldsLedger
  <2>3. JobsToChange(p)' = JobsToChange(p)
    BY <2>1 DEF JobsToChange, JobsOf, Pending
  <2>4. \A u \in chosen'[p] :
          IF ReminderKind(saved) = "review" THEN u \in Managers ELSE u = saved.operator
    BY <2>1 DEF Recipients
  <2>5. ReadyToCommit(p)'
    BY <2>1, <2>3, <2>4 DEF ReadyToCommit
  <2> QED BY <2>2, <2>5 DEF WriterSound
<1> QED BY <1>1, <1>2, <1>3, <1>4

\* Every step of a writer keeps the invariant.
LEMMA WriterStep ==
  ASSUME LedgerInv, NEW p \in Writers, Request(p) \/ Write(p) \/ Rollback(p)
  PROVE  LedgerInv'
<1>0. LedgerTypes
  BY DEF LedgerInv
<1>1. CASE Commit(p)
  <2>1. LedgerTypes'
    BY <1>0, <1>1, CommitTypes, CommitHas DEF Commit
  <2>2. \A q \in Writers : WriterSound(q)'
    BY <1>0, <1>1, EndSound, CommitOthers DEF Commit
  <2> QED BY <1>1, <2>1, <2>2, CommitLedgerSound, CommitWantedSound, CommitJobSound,
             CommitWorkers DEF LedgerInv
<1>2. CASE ~Commit(p)
  <2>0. \/ Request(p)
        \/ LockLedger(p) \/ LockJob(p) \/ ChooseRecipients(p) \/ Rollback(p)
    BY <1>2 DEF Write
  <2>1. LedgerTypes'
    BY <1>0, <2>0, RequestTypes, WriteTypes
  <2>2. UNCHANGED <<ledgers, tours, jobs, reachable, wanted>>
    BY <2>0 DEF Request, BeginCreate, BeginOnLedger, Begin, LockLedger, LockJob,
                ChooseRecipients, Rollback
  <2>3. JobsCalm
    BY <2>2 DEF JobsCalm
  <2>4. \A l \in Ledgers : LedgerSound(l)' /\ WantedSound(l)'
    BY <2>2, <2>3, CalmSound DEF LedgerInv, WantedSound
  <2>5. \A j \in JobKey : JobSound(j)'
    BY <2>2, <2>3, CalmSound
  <2>6. ASSUME NEW q \in Writers, q # p, NEW x \in Writers \ {q}, req[q].op = "create",
               req'[x].ledger = req[q].ledger
        PROVE  req[x].ledger = req[q].ledger
    <3>1. /\ req[q].ledger \in Ledgers /\ req[q].ledger # NoOne
          /\ ledgers[req[q].ledger].state = "new"
      BY <2>6, NoOneAssumption
      DEF LedgerInv, WriterSound, RequestSound, Blank, NoRow
    <3>2. CASE x # p
      BY <1>0, <2>6, <3>2, OthersUntouched
    <3>3. CASE x = p /\ ~Request(p)
      <4>1. req'[p] \in {req[p], Blank}
        BY <1>0, <2>0, <3>3 DEF LockLedger, LockJob, ChooseRecipients, Rollback, End,
                                writerVars, LedgerTypes
      <4> QED BY <2>6, <3>1, <3>3, <4>1 DEF Blank
    <3>4. CASE x = p /\ BeginCreate(p)
      <4>1. PICK l \in Ledgers, f \in Fields :
              /\ \A y \in Writers : req[y].ledger # l
              /\ Begin(p, [Blank EXCEPT !.op = "create", !.ledger = l,
                                        !.converted = f.converted,
                                        !.proposalSent = f.proposalSent, !.loss = f.loss,
                                        !.operator = f.operator], "jobs")
        BY <3>4 DEF BeginCreate
      <4>2. req'[p].ledger = l
        BY <1>0, <4>1 DEF Begin, LedgerTypes, Blank
      <4> QED BY <2>6, <3>4, <4>1, <4>2
    <3>5. ASSUME x = p, NEW op, BeginOnLedger(p, op) PROVE FALSE
      <4>1. PICK l, f :
              /\ l \in Ledgers /\ ledgers[l].state # "new"
              /\ Begin(p, [op |-> op, ledger |-> l, version |-> ledgers[l].version,
                           tour |-> tours[l], converted |-> f.converted,
                           proposalSent |-> f.proposalSent, loss |-> f.loss,
                           operator |-> f.operator], "lock")
        BY <3>5 DEF BeginOnLedger
      <4>2. req'[p].ledger = l
        BY <1>0, <4>1 DEF Begin, LedgerTypes
      <4> QED BY <2>6, <3>1, <3>5, <4>1, <4>2
    <3> QED BY <3>2, <3>3, <3>4, <3>5 DEF Request
  <2>7. ASSUME NEW q \in Writers, q # p PROVE WriterSound(q)'
    BY <1>0, <2>2, <2>3, <2>6, <2>7, OthersUntouched, WriterKept DEF LedgerInv
  <2>8. WriterSound(p)'
    BY <2>0, RequestOwn, WriteOwn
  <2>9. \A w \in Workers : WorkerSound(w)'
    BY <1>0, <2>2, WorkersUntouched DEF LedgerInv, WorkerSound, Pending
  <2> QED BY <2>1, <2>4, <2>5, <2>7, <2>8, <2>9 DEF LedgerInv
<1> QED BY <1>1, <1>2

\* A worker skips no job somebody has needed, and been reachable for, all along.
LEMMA DrainWanted ==
  ASSUME LedgerInv, NEW w \in Workers, Drain(w) \/ Crash(w)
  PROVE  \A l \in Ledgers : WantedSound(l)'
<1>0. LedgerTypes /\ WorkerSound(w)
  BY DEF LedgerInv
<1>1. wanted' = wanted /\ reachable' = reachable
  BY <1>0 DEF Drain, Claim, ReadLedger, Send, Record, Crash
<1> SUFFICES ASSUME NEW l \in Ledgers, NEW j \in wanted[l],
                    jobs[j].status \in {"pending", "sent", "failed"}
             PROVE  jobs'[j].status \in {"pending", "sent", "failed"}
  BY <1>1 DEF LedgerInv, WantedSound
<1>2. j \in JobKey /\ j.ledger = l /\ j.user \in reachable
  BY <1>0 DEF LedgerInv, LedgerTypes, WantedSound
<1>3. CASE jobs'[j] = jobs[j]
  BY <1>3
<1>4. CASE ReadLedger(w) /\ jobs'[j] # jobs[j]
  <2>1. claim[w] = j /\ ~StillNeeded(j) /\ Pending(j)
    BY <1>0, <1>2, <1>4 DEF ReadLedger, LedgerTypes, WorkerSound
  <2>2. j.kind \in Kind /\ JobSound(j)
    BY <1>2 DEF JobKey, LedgerInv
  <2> QED BY <1>2, <2>1, <2>2 DEF JobSound, StillNeeded, Recipients, Kind
<1>5. CASE Record(w)
  BY <1>0, <1>2, <1>5 DEF Record, Retried, WorkerSound, LedgerTypes, Job
<1> QED BY <1>3, <1>4, <1>5 DEF Drain, Claim, Send, Crash

\* Every step of a worker keeps the invariant.
LEMMA WorkerStep ==
  ASSUME LedgerInv, NEW w \in Workers, Drain(w) \/ Crash(w)
  PROVE  LedgerInv'
<1>0. LedgerTypes /\ WorkerSound(w)
  BY DEF LedgerInv
<1>1. LedgerTypes'
  BY <1>0, DrainTypes
<1>2. JobsCalm /\ \A j \in JobKey : jobLock[j] # w => jobs'[j] = jobs[j]
  BY <1>0, DrainJobs
<1>3. UNCHANGED <<ledgers, tours, writerVars>>
  BY <1>0 DEF writerVars, Drain, Claim, ReadLedger, Send, Record, Crash
<1>4. \A l \in Ledgers : LedgerSound(l)' /\ WantedSound(l)'
  BY <1>2, <1>3, CalmSound, DrainWanted
<1>5. \A j \in JobKey : JobSound(j)'
  BY <1>2, <1>3, CalmSound
<1>6. ASSUME NEW q \in Writers PROVE WriterSound(q)'
  <2>1. \A j \in JobKey : jobLock[j] = q => jobLock'[j] = q
    BY <1>0, DrainLocks, ProcessesAssumption
  <2> QED BY <1>0, <1>2, <1>3, <2>1, WriterKept DEF LedgerInv, writerVars
<1>7. ASSUME NEW x \in Workers, x # w PROVE WorkerSound(x)'
  BY <1>0, <1>2, <1>7, DrainLocks DEF LedgerInv, WorkerSound, Pending
<1>8. WorkerSound(w)'
  <2>1. CASE Claim(w)
    BY <1>0, <2>1 DEF Claim, LedgerTypes, WorkerSound, Pending
  <2>2. CASE ReadLedger(w) /\ StillNeeded(claim[w])
    BY <1>0, <2>2 DEF ReadLedger, LedgerTypes, WorkerSound, Pending
  <2>3. CASE Send(w)
    BY <1>0, <2>3 DEF Send, LedgerTypes, WorkerSound, Pending
  <2>4. CASE Release(w)
    BY <1>0, <2>4 DEF Release, LedgerTypes, WorkerSound
  <2> QED BY <2>1, <2>2, <2>3, <2>4 DEF Drain, Crash, Record, ReadLedger
<1> QED BY <1>1, <1>4, <1>5, <1>6, <1>7, <1>8 DEF LedgerInv

\* So do the end of a backoff, the cancellation of a tour and a change of a user.
LEMMA OutsideStep ==
  ASSUME LedgerInv,
         \/ \E j \in JobKey : BackoffOver(j)
         \/ \E l \in Ledgers : CancelTour(l)
         \/ \E u \in Users : ToggleUser(u)
  PROVE  LedgerInv'
<1> USE DEF writerVars, workerVars
<1>0. LedgerTypes /\ LedgerTypes'
  BY OutsideTypes DEF LedgerInv
<1>1. /\ UNCHANGED <<ledgers, writerVars, jobLock, workerVars>>
      /\ \A j \in JobKey : jobs'[j].status = jobs[j].status
      /\ \A l \in Ledgers : tours'[l] = "none" <=> tours[l] = "none"
  BY <1>0 DEF BackoffOver, CancelTour, ToggleUser, LedgerTypes, Job
<1>2. JobsCalm
  BY <1>1 DEF JobsCalm
<1>3. \A l \in Ledgers : LedgerSound(l)'
  BY <1>1, <1>2, CalmSound
<1>4. \A j \in JobKey : JobSound(j)'
  BY <1>1, <1>2, CalmSound
<1>5. \A l \in Ledgers : WantedSound(l)'
  <2>1. \A l \in Ledgers : \A j \in wanted'[l] : j \in wanted[l] /\ j.user \in reachable'
    BY <1>0 DEF BackoffOver, CancelTour, ToggleUser, LedgerInv, WantedSound
  <2> QED BY <1>0, <1>1, <2>1 DEF LedgerInv, WantedSound, LedgerTypes
<1>6. \A q \in Writers : WriterSound(q)'
  BY <1>0, <1>1, <1>2, WriterKept DEF LedgerInv
<1>7. \A w \in Workers : WorkerSound(w)'
  BY <1>0, <1>1 DEF LedgerInv, WorkerSound, Pending
<1> QED BY <1>0, <1>3, <1>4, <1>5, <1>6, <1>7 DEF LedgerInv

-----------------------------------------------------------------------------
(* The theorems *)

\* The system starts with sound ledgers, and no job or request.
LEMMA InitInv == Init => LedgerInv
<1> SUFFICES ASSUME Init PROVE LedgerInv
  OBVIOUS
<1>1. LedgerTypes
  BY InitTypes
<1>2. \A l \in Ledgers : ledgers[l] = NoRow \/ \E u \in Coordinators : ledgers[l] = LegacyRow(u)
  BY DEF Init
<1>3. ASSUME NEW l \in Ledgers PROVE LedgerSound(l) /\ WantedSound(l)
  <2>1. /\ ledgers[l].state = "new" => ledgers[l] = NoRow
        /\ ~ledgers[l].operated
    <3>1. CASE ledgers[l] = NoRow
      BY <3>1 DEF NoRow
    <3>2. ASSUME NEW u \in Coordinators, ledgers[l] = LegacyRow(u)
          PROVE  ledgers[l].state = "live" /\ ~ledgers[l].operated
      BY <3>2 DEF LegacyRow, NoRow
    <3> QED BY <1>2, <3>1, <3>2
  <2>2. tours[l] = "none" /\ wanted[l] = {}
    BY DEF Init
  <2> QED BY <2>1, <2>2 DEF LedgerSound, WantedSound
<1>4. \A j \in JobKey : JobSound(j)
  BY DEF Init, JobSound, Pending, NoJob
<1>5. \A p \in Writers : WriterSound(p)
  BY DEF Init, WriterSound, RequestSound, HoldsLedger, ReadyToCommit, Blank, OnLedger
<1>6. \A w \in Workers : WorkerSound(w)
  BY DEF Init, WorkerSound
<1> QED BY <1>1, <1>3, <1>4, <1>5, <1>6 DEF LedgerInv

\* No step breaks the invariant.
LEMMA NextInv == LedgerInv /\ [Next]_vars => LedgerInv'
<1> SUFFICES ASSUME LedgerInv, [Next]_vars PROVE LedgerInv'
  OBVIOUS
<1>1. CASE Next
  BY <1>1, WriterStep, WorkerStep, OutsideStep DEF Next
<1>2. CASE UNCHANGED vars
  BY <1>2 DEF vars, LedgerInv, LedgerTypes, LedgerSound, WantedSound, JobSound, WriterSound,
              RequestSound, HoldsLedger, ReadyToCommit, WorkerSound, Pending,
              JobsToChange, JobsOf
<1> QED BY <1>1, <1>2

\* LedgerInv holds in every state: what transactions and workers rely on while they
\* are interleaved, crash and lose answers.
THEOREM LedgersSafe == Spec => []LedgerInv
BY InitInv, NextInv, PTL DEF Spec

\* A loss is reviewed before the ledger is operated, and an operated ledger had its
\* proposal sent and was converted, whatever was edited in between.
THEOREM LedgersOperatedInOrder == Spec => []OperatedInOrder
<1>1. LedgerInv => OperatedInOrder
  BY DEF LedgerInv, LedgerSound, OperatedInOrder
<1> QED BY <1>1, LedgersSafe, PTL

\* A ledger with an active tour stays converted, and is not deleted, whichever
\* request read the tours before the tour was there.
THEOREM ToursStayConverted == Spec => []ActiveTourConverted
<1>1. LedgerInv => ActiveTourConverted
  BY DEF LedgerInv, LedgerSound, ActiveTourConverted
<1> QED BY <1>1, LedgersSafe, PTL

\* A job waits only while its ledger asks for that very thing of that very user, and
\* no user waits for two messages about one ledger.
THEOREM PendingJobsAreNeeded == Spec => []PendingJobsNeeded
<1>1. ASSUME LedgerInv, NEW j \in JobKey, Pending(j),
             NEW k \in JobKey, Pending(k), k.ledger = j.ledger, k.user = j.user
      PROVE  k = j
  <2>1. k.version = j.version /\ k.kind = j.kind
    BY <1>1 DEF LedgerInv, JobSound
  <2> QED BY <1>1, <2>1 DEF JobKey
<1>2. LedgerInv => PendingJobsNeeded
  BY <1>1 DEF LedgerInv, JobSound, PendingJobsNeeded
<1> QED BY <1>2, LedgersSafe, PTL

\* However deliveries crash, fail and repeat, a job shows at most one message, and no
\* job that is still wanted is dropped.
THEOREM JobsDeliveredOnce == Spec => []DeliveredOnce
<1>1. LedgerInv => OneMessagePerJob
  BY DEF LedgerInv, LedgerTypes, OneMessagePerJob
<1>2. LedgerInv => NoReminderLost
  BY DEF LedgerInv, WantedSound, NoReminderLost
<1> QED BY <1>1, <1>2, LedgersSafe, PTL DEF DeliveredOnce

\* Nobody gets a message about something the ledger no longer asks for at that moment.
THEOREM NobodyRemindedInVain == Spec => NoStaleReminder
<1> DEFINE Needed == \A j \in JobKey :
             (\E i \in 0..MaxAttempts : <<j, i>> \in inbox' \ inbox) =>
               /\ ReminderKind(ledgers[j.ledger]) = j.kind
               /\ j.kind = "operate" => ledgers[j.ledger].operator = j.user
<1>1. ASSUME LedgerInv, Next PROVE Needed
  <2>1. CASE \E w \in Workers : Send(w)
    <3>1. PICK w \in Workers : Send(w)
      BY <2>1
    <3>2. claim[w] \in JobKey /\ Pending(claim[w])
      BY <1>1, <3>1 DEF LedgerInv, WorkerSound, Send
    <3>3. \A j \in JobKey, i \in 0..MaxAttempts : <<j, i>> \in inbox' \ inbox => j = claim[w]
      BY <3>1 DEF Send, Uuid
    <3>4. /\ ReminderKind(ledgers[claim[w].ledger]) = claim[w].kind
          /\ claim[w].kind = "operate" => ledgers[claim[w].ledger].operator = claim[w].user
      BY <1>1, <3>2 DEF LedgerInv, JobSound
    <3> QED BY <3>3, <3>4
  <2>2. CASE ~ \E w \in Workers : Send(w)
    <3> USE DEF workerVars
    <3>1. ASSUME NEW p \in Writers, Request(p) \/ Write(p) \/ Rollback(p)
          PROVE  inbox' = inbox
      BY <3>1 DEF Request, BeginCreate, BeginOnLedger, Begin, Write, LockLedger, LockJob,
                  ChooseRecipients, Commit, Rollback
    <3>2. ASSUME NEW w \in Workers, Drain(w) \/ Crash(w), ~Send(w) PROVE inbox' = inbox
      BY <3>2 DEF Drain, Claim, ReadLedger, Record, Crash
    <3>3. ASSUME \/ \E j \in JobKey : BackoffOver(j)
                 \/ \E l \in Ledgers : CancelTour(l)
                 \/ \E u \in Users : ToggleUser(u)
          PROVE  inbox' = inbox
      BY <3>3 DEF BackoffOver, CancelTour, ToggleUser
    <3>4. inbox' = inbox
      BY <1>1, <2>2, <3>1, <3>2, <3>3 DEF Next
    <3> QED BY <3>4
  <2> QED BY <2>1, <2>2
<1>2. LedgerInv /\ [Next]_vars => [Needed]_vars
  BY <1>1
<1>3. Spec => [][Needed]_vars
  BY <1>2, LedgersSafe, PTL DEF Spec
<1> QED BY <1>3 DEF NoStaleReminder

=============================================================================
