---------------------------- MODULE DirectLedgers ----------------------------
(****************************************************************************)
(* Direct ledgers and their Feishu reminders: the transactions of           *)
(* DirectLedgersService, the reminder jobs LedgerNotificationsService.      *)
(* enqueue writes with them, and the workers (drain, one per API process)   *)
(* that claim a job, re-read its ledger, send the message and record what   *)
(* became of it.  Workers crash, requests to Feishu fail, and answers get   *)
(* lost after the message was accepted.                                     *)
(*                                                                          *)
(* Dates, notes and names are left out; a tour created from a ledger is its *)
(* status, and operated stands for operated_at, which is set with it.       *)
(* Feishu is taken as configured, and as showing one message for all        *)
(* requests that carry the same uuid.                                       *)
(*                                                                          *)
(* X_Change, just before a definition X, is a mutant of X: what X would be  *)
(* after a plausible slip in the code.  No specification uses it.           *)
(****************************************************************************)
EXTENDS Naturals

CONSTANTS
  Writers,      \* transactions of DirectLedgersService open at the same time
  Workers,      \* API processes, each with one drain at a time
  Ledgers,
  Users,
  Managers,     \* the users with the review permission
  Coordinators, \* the users who can be the operator of a ledger
  Ops,          \* the operations clients use
  Fields,       \* what clients enter in a ledger, of FieldValues
  MaxAttempts,  \* deliveries tried before a job is given up: 4 in the code
  MaxVersion,   \* bound: versions of a ledger
  MaxCrashes,   \* bound: crashes of workers
  NoOne

ASSUME UsersAssumption == Managers \subseteq Users /\ Coordinators \subseteq Users
ASSUME NoOneAssumption == NoOne \notin Writers \cup Workers \cup Ledgers
ASSUME ProcessesAssumption == Writers \cap Workers = {}
ASSUME BoundsAssumption == /\ MaxVersion \in Nat /\ MaxCrashes \in Nat
                           /\ MaxAttempts \in Nat \ {0}

\* The fields of a ledger that its reminders depend on.
FieldValues == [converted : BOOLEAN, proposalSent : BOOLEAN, loss : BOOLEAN,
                operator : Coordinators]

ASSUME FieldsAssumption == Fields \subseteq FieldValues

VARIABLES
  ledgers,     \* direct_ledgers
  tours,       \* status of the latest tour created from each ledger
  jobs,        \* feishu_ledger_notifications, by its unique key
  reachable,   \* users who are enabled, still have their roles and a Feishu account
  pc, req,     \* what each writer does next, and the request it serves
  chosen,      \* the recipients a writer has selected
  ledgerLock, jobLock,   \* owner of each row's FOR UPDATE lock
  stage, claim,          \* what each worker does next, and the job it claimed
  inbox,       \* the uuids Feishu accepted
  crashes,
  wanted       \* history: jobs whose need and whose user have persisted so far

writerVars == <<pc, req, chosen, ledgerLock>>
workerVars == <<stage, claim, inbox, crashes>>
vars == <<ledgers, tours, jobs, reachable, pc, req, chosen, ledgerLock, jobLock,
          stage, claim, inbox, crashes, wanted>>

-----------------------------------------------------------------------------
Kind == {"review", "operate"}
JobKey == [ledger : Ledgers, version : 1..MaxVersion, kind : Kind, user : Users]
NoRow == [state |-> "new", converted |-> FALSE, proposalSent |-> FALSE,
          loss |-> FALSE, reviewed |-> FALSE, operated |-> FALSE,
          operator |-> NoOne, version |-> 0]

NoJob == [status |-> "none", attempts |-> 0, due |-> TRUE]

\* A ledger converted before tours could be created from ledgers.
LegacyRow(u) == [NoRow EXCEPT !.state = "live", !.converted = TRUE,
                              !.operator = u, !.version = 1]

Blank == [op |-> "none", ledger |-> NoOne, version |-> 0, tour |-> "none",
          converted |-> FALSE, proposalSent |-> FALSE, loss |-> FALSE,
          operator |-> NoOne]

\* What a ledger asks of whom: a loss of the managers, first; else the operation.
ReminderKind(row) ==
  IF row.state # "live" \/ row.operated THEN "none"
  ELSE IF row.loss /\ ~row.reviewed THEN "review"
  ELSE IF row.proposalSent /\ row.converted THEN "operate"
  ELSE "none"

Recipients(row, kind) ==
  {u \in reachable : IF kind = "review" THEN u \in Managers ELSE u = row.operator}

Pending(j) == jobs[j].status = "pending"

JobsOf(l) == {j \in JobKey : j.ledger = l}

-----------------------------------------------------------------------------
Init ==
  /\ ledgers \in [Ledgers -> {NoRow} \cup {LegacyRow(u) : u \in Coordinators}]
  /\ tours = [l \in Ledgers |-> "none"]
  /\ jobs = [j \in JobKey |-> NoJob]
  /\ reachable = Users
  /\ pc = [p \in Writers |-> "idle"]
  /\ req = [p \in Writers |-> Blank]
  /\ chosen = [p \in Writers |-> {}]
  /\ ledgerLock = [l \in Ledgers |-> NoOne]
  /\ jobLock = [j \in JobKey |-> NoOne]
  /\ stage = [w \in Workers |-> "idle"]
  /\ claim = [w \in Workers |-> NoOne]
  /\ inbox = {}
  /\ crashes = 0
  /\ wanted = [l \in Ledgers |-> {}]

-----------------------------------------------------------------------------
(* Transactions of DirectLedgersService *)

Begin(p, request, first) ==
  /\ pc[p] = "idle"
  /\ request.op \in Ops
  /\ pc' = [pc EXCEPT ![p] = first]
  /\ req' = [req EXCEPT ![p] = request]
  /\ UNCHANGED <<ledgers, tours, jobs, reachable, chosen, ledgerLock, jobLock,
                 workerVars, wanted>>

\* A converted ledger is created together with its tour.
BeginCreate(p) ==
  \E l \in Ledgers, f \in Fields :
    /\ ledgers[l].state = "new"
    /\ \A q \in Writers : req[q].ledger # l
    /\ Begin(p, [Blank EXCEPT !.op = "create", !.ledger = l, !.converted = f.converted,
                              !.proposalSent = f.proposalSent, !.loss = f.loss,
                              !.operator = f.operator],
             "jobs")

\* The request carries the version its client saw.  SELECT ... FOR UPDATE lists the
\* ledger's tours as they are when the statement starts, before it gets the lock.
BeginOnLedger(p, op) ==
  \E l \in Ledgers :
    /\ ledgers[l].state # "new"
    /\ ledgers[l].version < MaxVersion
    /\ \E f \in IF op = "update" THEN Fields
                ELSE {[converted |-> FALSE, proposalSent |-> FALSE, loss |-> FALSE,
                       operator |-> NoOne]} :
         Begin(p, [op |-> op, ledger |-> l, version |-> ledgers[l].version,
                   tour |-> tours[l], converted |-> f.converted,
                   proposalSent |-> f.proposalSent, loss |-> f.loss,
                   operator |-> f.operator],
               "lock")

\* The checks of update, convert, review, operate and delete on the locked row.
Allowed_ReviewSkipped(r, row) ==
  CASE r.op = "update"  -> /\ ~row.reviewed /\ ~row.operated
                           /\ r.converted # row.converted => ~r.converted /\ r.tour = "none"
    [] r.op = "convert" -> r.tour # "active"
    [] r.op = "review"  -> row.loss /\ ~row.reviewed /\ ~row.operated
    [] r.op = "operate" -> ~row.operated /\ row.proposalSent /\ row.converted
    [] r.op = "delete"  -> ~row.reviewed /\ ~row.operated /\ ~row.converted
    [] OTHER -> FALSE

Allowed(r, row) ==
  CASE r.op = "update"  -> /\ ~row.reviewed /\ ~row.operated
                           /\ r.converted # row.converted => ~r.converted /\ r.tour = "none"
    [] r.op = "convert" -> r.tour # "active"
    [] r.op = "review"  -> row.loss /\ ~row.reviewed /\ ~row.operated
    [] r.op = "operate" -> /\ ~row.operated /\ ~(row.loss /\ ~row.reviewed)
                           /\ row.proposalSent /\ row.converted
    [] r.op = "delete"  -> ~row.reviewed /\ ~row.operated /\ ~row.converted
    [] OTHER -> FALSE

\* The row the operation writes.
Saved(r, row) ==
  CASE r.op = "create" ->
         [NoRow EXCEPT !.state = "live", !.converted = r.converted,
                       !.proposalSent = r.proposalSent, !.loss = r.loss,
                       !.operator = r.operator, !.version = 1]
    [] r.op = "update" ->
         [row EXCEPT !.converted = r.converted, !.proposalSent = r.proposalSent,
                     !.loss = r.loss, !.operator = r.operator,
                     !.version = row.version + 1]
    [] r.op = "convert" -> [row EXCEPT !.converted = TRUE, !.version = row.version + 1]
    [] r.op = "review"  -> [row EXCEPT !.reviewed = TRUE, !.version = row.version + 1]
    [] r.op = "operate" -> [row EXCEPT !.operated = TRUE, !.version = row.version + 1]
    [] r.op = "delete"  -> [row EXCEPT !.state = "deleted"]
    [] OTHER -> row

\* enqueue does nothing while the same people are asked for the same thing.
SameNeed(saved, row) ==
  /\ ReminderKind(saved) = ReminderKind(row)
  /\ ReminderKind(saved) = "operate" => saved.operator = row.operator

\* convert calls enqueue only for the first tour of an unconverted ledger.
Enqueues(r, row) ==
  /\ r.op # "delete"
  /\ r.op = "convert" => ~row.converted /\ ~row.operated /\ r.tour = "none"
  /\ ~SameNeed(Saved(r, row), row)

End(p) ==
  /\ pc' = [pc EXCEPT ![p] = "idle"]
  /\ req' = [req EXCEPT ![p] = Blank]
  /\ chosen' = [chosen EXCEPT ![p] = {}]
  /\ ledgerLock' = [l \in Ledgers |-> IF ledgerLock[l] = p THEN NoOne ELSE ledgerLock[l]]
  /\ jobLock' = [j \in JobKey |-> IF jobLock[j] = p THEN NoOne ELSE jobLock[j]]

Rollback(p) ==
  End(p) /\ UNCHANGED <<ledgers, tours, jobs, reachable, workerVars, wanted>>

VersionSeen_Ignored(r, row) == TRUE
VersionSeen(r, row) == r.version = row.version

LockLedger(p) ==
  /\ pc[p] = "lock"
  /\ \E l \in Ledgers :
       /\ l = req[p].ledger
       /\ ledgerLock[l] = NoOne
       /\ IF /\ ledgers[l].state = "live"
             /\ VersionSeen(req[p], ledgers[l])
             /\ Allowed(req[p], ledgers[l])
          THEN /\ ledgerLock' = [ledgerLock EXCEPT ![l] = p]
               /\ pc' = [pc EXCEPT ![p] = "jobs"]
               /\ UNCHANGED <<ledgers, tours, jobs, reachable, req, chosen, jobLock,
                              workerVars, wanted>>
          ELSE Rollback(p)

\* Rows enqueue's UPDATE skips, or a DELETE of the ledger cascades to.
JobsToChange(p) ==
  LET l == req[p].ledger
  IN CASE req[p].op = "delete" -> {j \in JobsOf(l) : jobs[j].status # "none"}
       [] Enqueues(req[p], ledgers[l]) -> {j \in JobsOf(l) : Pending(j)}
       [] OTHER -> {}

\* An UPDATE waits for the row locks of the workers.
LockJob(p) ==
  /\ pc[p] = "jobs"
  /\ \E j \in JobsToChange(p) :
       /\ jobLock[j] = NoOne
       /\ jobLock' = [jobLock EXCEPT ![j] = p]
  /\ UNCHANGED <<ledgers, tours, jobs, reachable, writerVars, workerVars, wanted>>

ChooseRecipients(p) ==
  /\ pc[p] = "jobs"
  /\ \A j \in JobsToChange(p) : jobLock[j] = p
  /\ LET row == ledgers[req[p].ledger]
         saved == Saved(req[p], row)
     IN chosen' = [chosen EXCEPT ![p] =
                     IF Enqueues(req[p], row) /\ ReminderKind(saved) # "none"
                     THEN Recipients(saved, ReminderKind(saved)) ELSE {}]
  /\ pc' = [pc EXCEPT ![p] = "commit"]
  /\ UNCHANGED <<ledgers, tours, jobs, reachable, req, ledgerLock, jobLock, workerVars,
                 wanted>>

NewJobs(p) ==
  LET saved == Saved(req[p], ledgers[req[p].ledger])
  IN {j \in JobKey : /\ j.ledger = req[p].ledger /\ j.version = saved.version
                     /\ j.kind = ReminderKind(saved) /\ j.user \in chosen[p]}

\* The job rows after the commit; the insert leaves an existing row alone.
JobsSaved_NoneSkipped(p) ==
  [j \in JobKey |->
     IF req[p].op = "delete" /\ j.ledger = req[p].ledger THEN NoJob
     ELSE IF j \in NewJobs(p) /\ jobs[j].status = "none"
          THEN [NoJob EXCEPT !.status = "pending"]
          ELSE jobs[j]]

JobsSaved_SkippedLast(p) ==
  [j \in JobKey |->
     IF req[p].op = "delete" /\ j.ledger = req[p].ledger THEN NoJob
     ELSE IF j \in NewJobs(p) /\ jobs[j].status = "none" THEN [NoJob EXCEPT !.status = "skipped"]
     ELSE IF j \in JobsToChange(p) THEN [jobs[j] EXCEPT !.status = "skipped"]
     ELSE jobs[j]]

JobsSaved(p) ==
  [j \in JobKey |->
     IF req[p].op = "delete" /\ j.ledger = req[p].ledger THEN NoJob
     ELSE IF j \in JobsToChange(p) THEN [jobs[j] EXCEPT !.status = "skipped"]
     ELSE IF j \in NewJobs(p) /\ jobs[j].status = "none"
          THEN [NoJob EXCEPT !.status = "pending"]
          ELSE jobs[j]]

Commit(p) ==
  LET l == req[p].ledger
      r == req[p]
  IN /\ pc[p] = "commit"
     /\ ledgers' = [ledgers EXCEPT ![l] = Saved(r, ledgers[l])]
     /\ tours' = IF r.op = "convert" \/ (r.op = "create" /\ r.converted)
                 THEN [tours EXCEPT ![l] = "active"] ELSE tours
     /\ jobs' = JobsSaved(p)
     /\ wanted' = IF Enqueues(r, ledgers[l]) \/ r.op = "delete"
                  THEN [wanted EXCEPT ![l] = {j \in NewJobs(p) : j.user \in reachable}]
                  ELSE wanted
     /\ End(p)
     /\ UNCHANGED <<reachable, workerVars>>

\* ToursService.cancel takes the tour's row, never the ledger's.
CancelTour(l) ==
  /\ tours[l] = "active"
  /\ tours' = [tours EXCEPT ![l] = "cancelled"]
  /\ UNCHANGED <<ledgers, jobs, reachable, writerVars, jobLock, workerVars, wanted>>

\* A user is disabled, unbound or stripped of the role, or comes back.
ToggleUser(u) ==
  /\ reachable' = IF u \in reachable THEN reachable \ {u} ELSE reachable \cup {u}
  /\ wanted' = [l \in Ledgers |-> {j \in wanted[l] : j.user \in reachable'}]
  /\ UNCHANGED <<ledgers, tours, jobs, writerVars, jobLock, workerVars>>

-----------------------------------------------------------------------------
(* drain: the worker of one API process *)

\* FOR UPDATE SKIP LOCKED: a due job nobody has locked.
Claim_NoLock(w) ==
  /\ stage[w] = "idle"
  /\ \E j \in JobKey : /\ Pending(j) /\ jobs[j].due
                       /\ claim' = [claim EXCEPT ![w] = j]
  /\ stage' = [stage EXCEPT ![w] = "read"]
  /\ UNCHANGED <<ledgers, tours, jobs, reachable, writerVars, jobLock, inbox, crashes, wanted>>

Claim(w) ==
  /\ stage[w] = "idle"
  /\ \E j \in JobKey : /\ Pending(j) /\ jobs[j].due /\ jobLock[j] = NoOne
                       /\ jobLock' = [jobLock EXCEPT ![j] = w]
                       /\ claim' = [claim EXCEPT ![w] = j]
  /\ stage' = [stage EXCEPT ![w] = "read"]
  /\ UNCHANGED <<ledgers, tours, jobs, reachable, writerVars, inbox, crashes, wanted>>

\* COMMIT of a job, or the end of its transaction in a crash.
Release(w) ==
  /\ stage' = [stage EXCEPT ![w] = "idle"]
  /\ claim' = [claim EXCEPT ![w] = NoOne]
  /\ jobLock' = [j \in JobKey |-> IF jobLock[j] = w THEN NoOne ELSE jobLock[j]]

\* The ledger still asks for this, and its recipient may still be asked.
StillNeeded(j) ==
  /\ ReminderKind(ledgers[j.ledger]) = j.kind
  /\ j.user \in Recipients(ledgers[j.ledger], j.kind)

ReadLedger(w) ==
  /\ stage[w] = "read"
  /\ IF StillNeeded(claim[w])
     THEN /\ stage' = [stage EXCEPT ![w] = "send"]
          /\ UNCHANGED <<jobs, claim, jobLock>>
     ELSE /\ jobs' = [jobs EXCEPT ![claim[w]].status = "skipped"]
          /\ Release(w)
  /\ UNCHANGED <<ledgers, tours, reachable, writerVars, inbox, crashes, wanted>>

\* The uuid of a message: the job's id.
Uuid_PerAttempt(j) == <<j, jobs[j].attempts>>
Uuid(j) == <<j, 0>>

\* sendText: accepted and answered, accepted with the answer lost, or not accepted.
Send(w) ==
  /\ stage[w] = "send"
  /\ \E answer \in {"sent", "failed"}, accepted \in BOOLEAN :
       /\ answer = "sent" => accepted
       /\ stage' = [stage EXCEPT ![w] = answer]
       /\ inbox' = IF accepted THEN inbox \cup {Uuid(claim[w])} ELSE inbox
  /\ UNCHANGED <<ledgers, tours, jobs, reachable, writerVars, jobLock, claim, crashes,
                 wanted>>

\* A failed job is retried later, four times in all.
Retried_Always(job) ==
  [status |-> "pending", attempts |-> job.attempts, due |-> FALSE]

Retried(job) ==
  [status |-> IF job.attempts + 1 >= MaxAttempts THEN "failed" ELSE "pending",
   attempts |-> job.attempts + 1, due |-> FALSE]

Record(w) ==
  /\ stage[w] \in {"sent", "failed"}
  /\ LET job == jobs[claim[w]]
     IN jobs' = [jobs EXCEPT ![claim[w]] =
                   IF stage[w] = "sent"
                   THEN [job EXCEPT !.status = "sent", !.attempts = job.attempts + 1]
                   ELSE Retried(job)]
  /\ Release(w)
  /\ UNCHANGED <<ledgers, tours, reachable, writerVars, inbox, crashes, wanted>>

\* The backoff of a job is over.
BackoffOver(j) ==
  /\ Pending(j) /\ ~jobs[j].due
  /\ jobs' = [jobs EXCEPT ![j].due = TRUE]
  /\ UNCHANGED <<ledgers, tours, reachable, writerVars, jobLock, workerVars, wanted>>

\* The process dies at any point of a delivery and starts again.
Crash(w) ==
  /\ stage[w] # "idle"
  /\ crashes < MaxCrashes
  /\ crashes' = crashes + 1
  /\ Release(w)
  /\ UNCHANGED <<ledgers, tours, jobs, reachable, writerVars, inbox, wanted>>

-----------------------------------------------------------------------------
Request(p) ==
  \/ BeginCreate(p)
  \/ \E op \in {"update", "convert", "review", "operate", "delete"} : BeginOnLedger(p, op)

Write(p) == LockLedger(p) \/ LockJob(p) \/ ChooseRecipients(p) \/ Commit(p)

Drain(w) == Claim(w) \/ ReadLedger(w) \/ Send(w) \/ Record(w)

Next == \/ \E p \in Writers : Request(p) \/ Write(p) \/ (pc[p] # "idle" /\ Rollback(p))
        \/ \E w \in Workers : Drain(w) \/ Crash(w)
        \/ \E j \in JobKey : BackoffOver(j)
        \/ \E l \in Ledgers : CancelTour(l)
        \/ \E u \in Users : ToggleUser(u)

Spec == Init /\ [][Next]_vars

\* The timer calls drain every five seconds, so a job that is free again and again is
\* free at one of the polls; time passes; a transaction that can go on does so.
\* Nothing makes a client send a request or Feishu accept a message.
Fairness == /\ \A w \in Workers : SF_vars(Drain(w))
            /\ WF_vars(\E j \in JobKey : BackoffOver(j))
            /\ \A p \in Writers : WF_vars(Write(p))

LiveSpec == Spec /\ Fairness

-----------------------------------------------------------------------------
(* Properties *)

\* A job waits only while its ledger asks for that very thing of that very user:
\* every change of what a ledger asks for skips the jobs of the earlier need.
PendingJobsNeeded ==
  \A j \in JobKey : Pending(j) =>
    /\ ReminderKind(ledgers[j.ledger]) = j.kind
    /\ j.kind = "operate" => ledgers[j.ledger].operator = j.user
    /\ \A k \in JobKey : Pending(k) /\ k.ledger = j.ledger /\ k.user = j.user => k = j

\* Nobody gets a message about something the ledger, as committed at that moment,
\* no longer asks for: a writer waits for the delivery it would make stale.
NoStaleReminder ==
  [][\A j \in JobKey : (\E i \in 0..MaxAttempts : <<j, i>> \in inbox' \ inbox) =>
       /\ ReminderKind(ledgers[j.ledger]) = j.kind
       /\ j.kind = "operate" => ledgers[j.ledger].operator = j.user]_vars

\* However often a delivery crashes, fails or loses its answer, the recipient of a
\* job sees at most one message for it.
OneMessagePerJob ==
  \A j \in JobKey : \A i, k \in 0..MaxAttempts :
    <<j, i>> \in inbox /\ <<j, k>> \in inbox => i = k

\* A user asked when the need arose, and reachable ever since, has a job that waits,
\* was delivered or used up its attempts: no need is dropped on the way.
NoReminderLost ==
  \A l \in Ledgers : \A j \in wanted[l] :
    jobs[j].status \in {"pending", "sent", "failed"}

\* A job is delivered at most once, and no job is dropped.
DeliveredOnce == OneMessagePerJob /\ NoReminderLost

\* A loss is reviewed before the ledger is operated, whoever changed it in between,
\* and an operated ledger had its proposal sent and was converted.
OperatedInOrder ==
  \A l \in Ledgers : LET row == ledgers[l] IN
    row.operated => /\ row.proposalSent /\ row.converted
                    /\ row.loss => row.reviewed

\* A ledger with an active tour is converted, and stays: no update or deletion
\* that read the tours before another request created one undoes it.
ActiveTourConverted ==
  \A l \in Ledgers : tours[l] = "active" => ledgers[l].state = "live" /\ ledgers[l].converted

\* Every reminder job is delivered, skipped, given up or deleted with its ledger.
EveryJobSettles == \A j \in JobKey : Pending(j) ~> ~Pending(j)

-----------------------------------------------------------------------------
(* The invariant behind the safety properties, for any sets and bounds.     *)

LedgerRow == [state : {"new", "live", "deleted"}, converted : BOOLEAN,
              proposalSent : BOOLEAN, loss : BOOLEAN, reviewed : BOOLEAN,
              operated : BOOLEAN, operator : Coordinators \cup {NoOne}, version : Nat]

OnLedger == {"update", "convert", "review", "operate", "delete"}

Asked == [op : OnLedger \cup {"create", "none"}, ledger : Ledgers \cup {NoOne},
          version : Nat, tour : {"none", "active", "cancelled"}, converted : BOOLEAN,
          proposalSent : BOOLEAN, loss : BOOLEAN, operator : Coordinators \cup {NoOne}]

Job == [status : {"none", "pending", "sent", "failed", "skipped"}, attempts : Nat,
        due : BOOLEAN]

LedgerTypes ==
  /\ ledgers \in [Ledgers -> LedgerRow]
  /\ tours \in [Ledgers -> {"none", "active", "cancelled"}]
  /\ jobs \in [JobKey -> Job]
  /\ reachable \subseteq Users
  /\ pc \in [Writers -> {"idle", "lock", "jobs", "commit"}]
  /\ req \in [Writers -> Asked]
  /\ chosen \in [Writers -> SUBSET Users]
  /\ ledgerLock \in [Ledgers -> Writers \cup {NoOne}]
  /\ jobLock \in [JobKey -> Writers \cup Workers \cup {NoOne}]
  /\ stage \in [Workers -> {"idle", "read", "send", "sent", "failed"}]
  /\ claim \in [Workers -> JobKey \cup {NoOne}]
  /\ inbox \subseteq JobKey \X {0}
  /\ crashes \in Nat
  /\ wanted \in [Ledgers -> SUBSET JobKey]

\* A ledger on its own: a new one is empty, and one that ever had a tour stays
\* converted, since only an update that saw no tour may undo the conversion.
LedgerSound(l) ==
  /\ ledgers[l].state = "new" => ledgers[l] = NoRow
  /\ tours[l] # "none" => ledgers[l].state = "live" /\ ledgers[l].converted
  /\ ledgers[l].operated =>
       /\ ledgers[l].proposalSent /\ ledgers[l].converted
       /\ ledgers[l].loss => ledgers[l].reviewed

\* A job is no newer than its ledger; one that waits is of the ledger's last need, as
\* all that wait are.
JobSound(j) ==
  /\ jobs[j].status # "none" => j.version <= ledgers[j.ledger].version
  /\ Pending(j) =>
       /\ ReminderKind(ledgers[j.ledger]) = j.kind
       /\ j.kind = "operate" => ledgers[j.ledger].operator = j.user
       /\ j.kind = "review" => j.user \in Managers
       /\ \A k \in JobKey : Pending(k) /\ k.ledger = j.ledger => k.version = j.version

\* What the jobs of wanted[l] are wanted for still holds.
WantedSound(l) ==
  \A j \in wanted[l] :
    /\ j.ledger = l /\ j.user \in reachable
    /\ jobs[j].status \in {"pending", "sent", "failed"}

\* A writer's request fits its stage.  The list of tours is stale only together with
\* the version, so that a request that passes the comparison has seen the tours.
RequestSound(p) ==
  LET r == req[p]  l == req[p].ledger
  IN /\ pc[p] = "idle" => r = Blank
     /\ pc[p] # "idle" => l \in Ledgers /\ r.op # "none"
     /\ r.op = "create" =>
          /\ pc[p] \in {"jobs", "commit"}
          /\ ledgers[l] = NoRow /\ tours[l] = "none"
          /\ \A q \in Writers \ {p} : req[q].ledger # l
     /\ r.op \in OnLedger =>
          /\ ledgers[l].state # "new"
          /\ r.version <= ledgers[l].version
          /\ r.tour # "none" => tours[l] # "none"
          /\ r.version = ledgers[l].version /\ r.tour = "none" => tours[l] = "none"

\* Past its checks a writer holds the ledger, which is as it was checked; past its
\* choice of recipients it holds every job it changes.
HoldsLedger(p) ==
  pc[p] \in {"jobs", "commit"} /\ req[p].op # "create" =>
    LET row == ledgers[req[p].ledger]
    IN /\ ledgerLock[req[p].ledger] = p
       /\ row.state = "live" /\ VersionSeen(req[p], row) /\ Allowed(req[p], row)

ReadyToCommit(p) ==
  pc[p] = "commit" =>
    LET row == ledgers[req[p].ledger]
        saved == Saved(req[p], row)
    IN /\ \A j \in JobsToChange(p) : jobLock[j] = p
       /\ chosen[p] # {} => Enqueues(req[p], row)
       /\ \A u \in chosen[p] :
            IF ReminderKind(saved) = "review" THEN u \in Managers ELSE u = saved.operator

WriterSound(p) == RequestSound(p) /\ HoldsLedger(p) /\ ReadyToCommit(p)

\* A worker holds the job it delivers, which waits until the worker records otherwise.
WorkerSound(w) ==
  stage[w] # "idle" => /\ claim[w] \in JobKey
                       /\ jobLock[claim[w]] = w /\ Pending(claim[w])

LedgerInv ==
  /\ LedgerTypes
  /\ \A l \in Ledgers : LedgerSound(l) /\ WantedSound(l)
  /\ \A j \in JobKey : JobSound(j)
  /\ \A p \in Writers : WriterSound(p)
  /\ \A w \in Workers : WorkerSound(w)

=============================================================================
