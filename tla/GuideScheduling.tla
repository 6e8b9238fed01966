--------------------------- MODULE GuideScheduling ---------------------------
(****************************************************************************)
(* Scheduling of tour guides: the transactions of ToursService (create,     *)
(* update, cancel, saveRating), GuideLeavesService (create, update, delete) *)
(* and GuidePeopleService (update, delete) that touch the same guides.      *)
(*                                                                          *)
(* Every request is one PostgreSQL transaction at READ COMMITTED.  Its row  *)
(* locks are taken one at a time, its checks are separate steps that read   *)
(* whatever is committed at that moment, and its writes become visible in   *)
(* the one step that commits and releases the locks.  A failed check rolls  *)
(* back.  Tour numbers, flights, names and the source of a tour are left    *)
(* out: no step here reads them.  So are the services a migration made of   *)
(* older tours, which alone may start and end in the same minute.           *)
(*                                                                          *)
(* X_Change, just before a definition X, is a mutant of X: what X would be  *)
(* after a plausible slip in the code.  No specification uses it.           *)
(****************************************************************************)
EXTENDS Integers

CONSTANTS
  Procs,          \* transactions that may be open at the same time
  Tours,          \* tour row ids
  Guides,         \* guide row ids; FOR UPDATE takes them in id order
  Leaves,         \* leave row ids
  Languages,
  ServiceTimes,   \* <<from, to>> in minutes, the service times clients submit
  LeaveDays,      \* <<first, last>> in days, the leaves clients submit
  Instants,       \* the minutes the clock shows
  Ops,            \* the operations clients use
  MaxServices,    \* bound: services in one request
  MaxVersion,     \* bound: no request on a row that reached this version
  NoOne,          \* no process, no row, a guide's missing language
  NoService       \* a request's service without an id

ASSUME GuidesAssumption == Guides \subseteq Nat
ASSUME NoOneAssumption == NoOne \notin Procs /\ NoOne \notin Tours
                          /\ NoOne \notin Leaves
ASSUME TimesAssumption == /\ \A w \in ServiceTimes : w[1] \in Nat /\ w[2] \in Nat
                          /\ \A d \in LeaveDays : d[1] \in Nat /\ d[2] \in Nat
                          /\ Instants \subseteq Nat
ASSUME BoundsAssumption == MaxVersion \in Nat /\ MaxServices \in Nat

VARIABLES
  tours,      \* tours and their tour_guide_services
  ratings,    \* tour_ratings; version 0 when there is no row
  guides,     \* resource_guide_people
  leaves,     \* resource_guide_leaves
  now,        \* the database clock
  pc,         \* what each transaction does next
  req,        \* the request it serves
  need,       \* guide rows it still has to lock
  todo,       \* services of the request it still has to check
  tourLock, guideLock, leaveLock   \* owner of each row's FOR UPDATE lock

rows  == <<tours, ratings, guides, leaves, now>>
locks == <<tourLock, guideLock, leaveLock>>
vars  == <<tours, ratings, guides, leaves, now, pc, req, need, todo,
           tourLock, guideLock, leaveLock>>

-----------------------------------------------------------------------------
DayMinutes == 1440
DayOf(minute) == minute \div DayMinutes

\* A service is known by its content: two services of one guide in one tour
\* with the same times would overlap, and are refused.
Service == [guide : Guides, lang : Languages, from : Nat, to : Nat]

\* old is the stored service whose id the client sent, new what it becomes.
Input == [old : Service \cup {NoService}, new : Service]

ASSUME NoServiceAssumption == NoService \notin Service

Submitted == {[guide |-> g, lang |-> l, from |-> w[1], to |-> w[2]] :
                g \in Guides, l \in Languages, w \in ServiceTimes}

Operation == {"none", "createTour", "updateTour", "cancelTour", "saveRating",
              "createLeave", "updateLeave", "deleteLeaves",
              "updateGuide", "deleteGuides"}

\* The fields of every request; an operation fills in those it has.
\* seen is what the client had on its screen when it sent the request.
Blank == [op |-> "none", tour |-> NoOne, version |-> 0, inputs |-> {},
          seen |-> {}, guides |-> {}, leaves |-> {}, from |-> 0, to |-> 0,
          enabled |-> TRUE, lang |-> NoOne, score |-> "keep",
          rated |-> FALSE, start |-> 0]

GuidesOf(services) == {s.guide : s \in services}
NewServices(inputs) == {i.new : i \in inputs}

\* Service times are inclusive: one minute shared is a conflict.
TimesMeet(s, r) == s.from <= r.to /\ s.to >= r.from

Active(t) == tours[t].status = "active"
Live(l) == leaves[l].status = "live"

\* A leave and a service, as prepareGuideServices compares them: in days.
LeaveCovers(lv, s) == /\ lv.from < DayOf(s.to) + 1
                      /\ lv.to >= DayOf(s.from)

\* A leave and a service, as GuideLeavesService.check compares them: in minutes.
ServiceInDays_LastDayLost(s, first, last) == /\ s.from < last * DayMinutes
                                             /\ s.to >= first * DayMinutes
ServiceInDays(s, first, last) == /\ s.from < (last + 1) * DayMinutes
                                 /\ s.to >= first * DayMinutes

\* assertNoUpcomingTours: now() is the time the transaction started.
HasUpcoming_Strict(g, start) ==
  \E t \in Tours : Active(t) /\ \E s \in tours[t].services :
                                   s.guide = g /\ s.to > start
HasUpcoming(g, start) ==
  \E t \in Tours : Active(t) /\ \E s \in tours[t].services :
                                   s.guide = g /\ s.to >= start

-----------------------------------------------------------------------------
Init ==
  /\ tours = [t \in Tours |-> [status |-> "none", version |-> 0, services |-> {}]]
  /\ ratings = [t \in Tours |-> [g \in Guides |-> [version |-> 0, valued |-> FALSE]]]
  /\ guides \in [Guides -> {[enabled |-> TRUE, deleted |-> FALSE, version |-> 1,
                             lang |-> l] : l \in Languages}]
  /\ leaves = [l \in Leaves |-> [status |-> "none", guide |-> NoOne, from |-> 0,
                                 to |-> 0, version |-> 0]]
  /\ now \in {i \in Instants : \A j \in Instants : i <= j}
  /\ pc = [p \in Procs |-> "idle"]
  /\ req = [p \in Procs |-> Blank]
  /\ need = [p \in Procs |-> {}]
  /\ todo = [p \in Procs |-> {}]
  /\ tourLock = [t \in Tours |-> NoOne]
  /\ guideLock = [g \in Guides |-> NoOne]
  /\ leaveLock = [l \in Leaves |-> NoOne]

-----------------------------------------------------------------------------
(* Transactions *)

Begin(p, request, first, guideRows) ==
  /\ pc[p] = "idle"
  /\ request.op \in Ops
  /\ pc' = [pc EXCEPT ![p] = first]
  /\ req' = [req EXCEPT ![p] = request]
  /\ need' = [need EXCEPT ![p] = guideRows]
  /\ todo' = [todo EXCEPT ![p] = request.inputs]
  /\ UNCHANGED <<rows, locks>>

Goto(p, next) == pc' = [pc EXCEPT ![p] = next]

Unlocked_Never(lock, p) == lock
Unlocked(lock, p) == [r \in DOMAIN lock |-> IF lock[r] = p THEN NoOne ELSE lock[r]]

\* COMMIT or ROLLBACK: either way the row locks go.
Finish(p) ==
  /\ Goto(p, "idle")
  /\ req' = [req EXCEPT ![p] = Blank]
  /\ need' = [need EXCEPT ![p] = {}]
  /\ todo' = [todo EXCEPT ![p] = {}]
  /\ tourLock' = Unlocked(tourLock, p)
  /\ guideLock' = Unlocked(guideLock, p)
  /\ leaveLock' = Unlocked(leaveLock, p)

\* A BusinessException, a lost connection, a crash of the server.
Rollback(p) == Finish(p) /\ UNCHANGED rows

TakeGuide_AnyOrder(p, g) ==
  /\ g \in need[p]
  /\ guideLock[g] = NoOne
  /\ guideLock' = [guideLock EXCEPT ![g] = p]
  /\ UNCHANGED <<rows, req, todo, tourLock, leaveLock>>

TakeGuide_NoLock(p, g) ==
  /\ g \in need[p]
  /\ \A h \in need[p] : g <= h
  /\ UNCHANGED <<rows, req, todo, locks>>

\* Lock the next guide row, in id order.
TakeGuide(p, g) ==
  /\ g \in need[p]
  /\ \A h \in need[p] : g <= h
  /\ guideLock[g] = NoOne
  /\ guideLock' = [guideLock EXCEPT ![g] = p]
  /\ UNCHANGED <<rows, req, todo, tourLock, leaveLock>>

-----------------------------------------------------------------------------
(* ToursService.create, update and cancel *)

\* What a client can ask a tour with these stored services to become.
Requests(stored) ==
  UNION {{{list[k] : k \in 1..n} :
            list \in [1..n -> [old : stored \cup {NoService}, new : Submitted]]} :
         n \in 0..MaxServices}

\* The id is the one the INSERT will draw.
BeginCreateTour(p) ==
  \E t \in Tours, in \in Requests({}) :
    /\ tours[t].status = "none"
    /\ \A q \in Procs : req[q].op = "createTour" => req[q].tour # t
    /\ Begin(p, [Blank EXCEPT !.op = "createTour", !.tour = t, !.inputs = in],
             "guides", GuidesOf(NewServices(in)))

BeginUpdateTour(p) ==
  \E t \in Tours :
    /\ tours[t].status # "none"
    /\ tours[t].version < MaxVersion
    /\ \E in \in Requests(tours[t].services) :
         Begin(p, [Blank EXCEPT !.op = "updateTour", !.tour = t, !.inputs = in,
                                !.version = tours[t].version,
                                !.seen = tours[t].services],
               "tour", {})

BeginCancelTour(p) ==
  \E t \in Tours :
    /\ tours[t].status # "none"
    /\ tours[t].version < MaxVersion
    /\ Begin(p, [Blank EXCEPT !.op = "cancelTour", !.tour = t,
                              !.version = tours[t].version,
                              !.seen = tours[t].services],
             "tour", {})

\* lockTour refuses a tour that is not active; all but saveRating compare versions.
Editable_AnyVersion(p, t) == Active(t)
Editable(p, t) ==
  /\ Active(t)
  /\ req[p].op # "saveRating" => req[p].version = tours[t].version

\* lockTour and the checks on the locked row; then the stored services tell
\* which guide rows are needed.
LockTour(p) ==
  /\ pc[p] = "tour"
  /\ \E t \in Tours :
       /\ t = req[p].tour
       /\ tourLock[t] = NoOne
       /\ IF Editable(p, t)
          THEN /\ tourLock' = [tourLock EXCEPT ![t] = p]
               /\ IF req[p].op = "saveRating"
                  THEN Goto(p, "rating") /\ UNCHANGED need
                  ELSE /\ Goto(p, "guides")
                       /\ need' = [need EXCEPT ![p] =
                                     GuidesOf(tours[t].services)
                                       \cup GuidesOf(NewServices(req[p].inputs))]
               /\ UNCHANGED <<rows, req, todo, guideLock, leaveLock>>
          ELSE Rollback(p)

\* lockServiceGuides locks deleted guides like the others.
LockServiceGuide(p) ==
  /\ pc[p] = "guides"
  /\ \E g \in Guides : /\ TakeGuide(p, g)
                       /\ need' = [need EXCEPT ![p] = need[p] \ {g}]
  /\ UNCHANGED pc

\* A guide whose rating in the tour holds a score must keep a service.
DropsNoScore_Unchecked(p) == TRUE
DropsNoScore(p) ==
  req[p].op = "updateTour" =>
    \A g \in Guides \ GuidesOf(NewServices(req[p].inputs)) :
      ~ratings[req[p].tour][g].valued

\* Once every guide is locked.
CheckRated(p) ==
  /\ pc[p] = "guides"
  /\ need[p] = {}
  /\ req[p].op \in {"createTour", "updateTour"}
  /\ IF DropsNoScore(p)
     THEN /\ Goto(p, "services")
          /\ UNCHANGED <<rows, req, need, todo, locks>>
     ELSE Rollback(p)

\* Same guide, language and times as the stored service it replaces.
Retained(i) == i.old = i.new

Qualified_AnyLanguage(s) == guides[s.guide].enabled /\ ~guides[s.guide].deleted
Qualified(s) == /\ guides[s.guide].enabled /\ ~guides[s.guide].deleted
                /\ guides[s.guide].lang = s.lang

NotOnLeave(s) ==
  \A l \in Leaves :
    ~(Live(l) /\ leaves[l].guide = s.guide /\ LeaveCovers(leaves[l], s))

NotBusy_Exclusive(t, s) ==
  \A u \in Tours \ {t} : Active(u) =>
    \A r \in tours[u].services : ~(r.guide = s.guide /\ r.from < s.to /\ r.to > s.from)

NotBusy(t, s) ==
  \A u \in Tours \ {t} : Active(u) =>
    \A r \in tours[u].services : ~(r.guide = s.guide /\ TimesMeet(r, s))

\* The services of one request must not meet each other either.
ApartFrom(before, s) ==
  \A j \in before : ~(j.new.guide = s.guide /\ TimesMeet(j.new, s))

\* prepareGuideServices, one service: its id, its times, the services before it
\* and, unless it is retained, its guide.
AcceptService(p, i) ==
  LET t == req[p].tour
      before == req[p].inputs \ todo[p]
      stored == IF req[p].op = "updateTour" THEN tours[t].services ELSE {}
  IN /\ i.old # NoService => i.old \in stored /\ \A j \in before : j.old # i.old
     /\ i.new.from < i.new.to
     /\ ApartFrom(before, i.new)
     /\ Retained(i) \/ (Qualified(i.new) /\ NotOnLeave(i.new) /\ NotBusy(t, i.new))

CheckService(p) ==
  /\ pc[p] = "services"
  /\ \E i \in todo[p] :
       IF AcceptService(p, i)
       THEN /\ todo' = [todo EXCEPT ![p] = todo[p] \ {i}]
            /\ UNCHANGED <<rows, pc, req, need, locks>>
       ELSE Rollback(p)

CommitCreateTour(p) ==
  /\ pc[p] = "services"
  /\ todo[p] = {}
  /\ req[p].op = "createTour"
  /\ tours' = [tours EXCEPT ![req[p].tour] =
                 [status |-> "active", version |-> 1,
                  services |-> NewServices(req[p].inputs)]]
  /\ Finish(p)
  /\ UNCHANGED <<ratings, guides, leaves, now>>

\* saveGuideServices also drops the ratings of guides with no service left.
RatingsLeft(t, services) ==
  [g \in Guides |-> IF g \in GuidesOf(services) THEN ratings[t][g]
                    ELSE [version |-> 0, valued |-> FALSE]]

CommitUpdateTour(p) ==
  LET t == req[p].tour
      services == NewServices(req[p].inputs)
  IN /\ pc[p] = "services"
     /\ todo[p] = {}
     /\ req[p].op = "updateTour"
     /\ tours' = [tours EXCEPT ![t] =
                    [tours[t] EXCEPT !.services = services,
                                     !.version = tours[t].version + 1]]
     /\ ratings' = [ratings EXCEPT ![t] = RatingsLeft(t, services)]
     /\ Finish(p)
     /\ UNCHANGED <<guides, leaves, now>>

Cancelled_Misspelt(t) ==
  [tours[t] EXCEPT !.status = "canceled", !.version = tours[t].version + 1]
Cancelled(t) ==
  [tours[t] EXCEPT !.status = "cancelled", !.version = tours[t].version + 1]

CommitCancelTour(p) ==
  /\ pc[p] = "guides"
  /\ need[p] = {}
  /\ req[p].op = "cancelTour"
  /\ tours' = [tours EXCEPT ![req[p].tour] = Cancelled(req[p].tour)]
  /\ Finish(p)
  /\ UNCHANGED <<ratings, guides, leaves, now>>

-----------------------------------------------------------------------------
(* ToursService.saveRating: a patch may keep, clear or set the scores *)

BeginSaveRating(p) ==
  \E t \in Tours, g \in Guides, score \in {"keep", "clear", "set"} :
    /\ tours[t].status # "none"
    /\ ratings[t][g].version < MaxVersion
    /\ Begin(p, [Blank EXCEPT !.op = "saveRating", !.tour = t, !.guides = {g},
                              !.version = ratings[t][g].version,
                              !.rated = ratings[t][g].valued, !.score = score],
             "tour", {})

CheckRating(p) ==
  /\ pc[p] = "rating"
  /\ \E g \in req[p].guides :
       IF /\ g \in GuidesOf(tours[req[p].tour].services)
          /\ req[p].version = ratings[req[p].tour][g].version
       THEN /\ Goto(p, "saveRating")
            /\ UNCHANGED <<rows, req, need, todo, locks>>
       ELSE Rollback(p)

RatingSaved(p, g) ==
  LET row == ratings[req[p].tour][g]
  IN [version |-> row.version + 1,
      valued |-> IF req[p].score = "keep" THEN row.valued ELSE req[p].score = "set"]

CommitRating(p) ==
  /\ pc[p] = "saveRating"
  /\ \E g \in req[p].guides :
       ratings' = [ratings EXCEPT ![req[p].tour] =
                     [ratings[req[p].tour] EXCEPT ![g] = RatingSaved(p, g)]]
  /\ Finish(p)
  /\ UNCHANGED <<tours, guides, leaves, now>>

-----------------------------------------------------------------------------
(* GuideLeavesService *)

BeginCreateLeave(p) ==
  \E l \in Leaves, g \in Guides, d \in LeaveDays :
    /\ leaves[l].status = "none"
    /\ \A q \in Procs : req[q].op = "createLeave" => l \notin req[q].leaves
    /\ Begin(p, [Blank EXCEPT !.op = "createLeave", !.leaves = {l}, !.guides = {g},
                              !.from = d[1], !.to = d[2]],
             "leaveGuide", {g})

BeginUpdateLeave(p) ==
  \E l \in Leaves, g \in Guides, d \in LeaveDays :
    /\ leaves[l].status # "none"
    /\ leaves[l].version < MaxVersion
    /\ Begin(p, [Blank EXCEPT !.op = "updateLeave", !.leaves = {l}, !.guides = {g},
                              !.from = d[1], !.to = d[2],
                              !.version = leaves[l].version],
             "leave", {g})

BeginDeleteLeaves(p) ==
  \E ids \in SUBSET Leaves :
    /\ ids # {} /\ \A l \in ids : leaves[l].status # "none"
    /\ Begin(p, [Blank EXCEPT !.op = "deleteLeaves", !.leaves = ids], "leave", {})

\* The leave rows this transaction still has to lock.
LeavesToLock(p) == {l \in req[p].leaves : leaveLock[l] # p}

\* The DELETE's SELECT has no ORDER BY: it takes its rows in any order.
LockLeave(p) ==
  /\ pc[p] = "leave"
  /\ \E l \in LeavesToLock(p) :
       /\ leaveLock[l] = NoOne
       /\ IF /\ Live(l)
             /\ req[p].op = "updateLeave" => /\ leaves[l].version = req[p].version
                                             /\ leaves[l].guide \in req[p].guides
             /\ req[p].op = "deleteLeaves" => ~guides[leaves[l].guide].deleted
          THEN /\ leaveLock' = [leaveLock EXCEPT ![l] = p]
               /\ IF req[p].op = "updateLeave" THEN Goto(p, "leaveGuide")
                                               ELSE UNCHANGED pc
               /\ UNCHANGED <<rows, req, need, todo, tourLock, guideLock>>
          ELSE Rollback(p)

CommitDeleteLeaves(p) ==
  /\ pc[p] = "leave"
  /\ req[p].op = "deleteLeaves"
  /\ LeavesToLock(p) = {}
  /\ leaves' = [l \in Leaves |->
       IF l \in req[p].leaves
       THEN [leaves[l] EXCEPT !.status = "deleted", !.version = leaves[l].version + 1]
       ELSE leaves[l]]
  /\ Finish(p)
  /\ UNCHANGED <<tours, ratings, guides, now>>

\* check: the days, then the guide row, which must not be deleted.
LockLeaveGuide(p) ==
  /\ pc[p] = "leaveGuide"
  /\ \/ /\ req[p].from <= req[p].to
        /\ \E g \in Guides : ~guides[g].deleted /\ TakeGuide(p, g)
        /\ need' = [need EXCEPT ![p] = {}]
        /\ Goto(p, "leaveDays")
     \/ /\ \/ req[p].from > req[p].to
           \/ \E g \in need[p] : guideLock[g] = NoOne /\ guides[g].deleted
        /\ Rollback(p)

\* check: no active tour may have the guide in service on those days.
DaysFree(request) ==
  \A t \in Tours : Active(t) =>
    \A s \in tours[t].services :
      ~(s.guide \in request.guides /\ ServiceInDays(s, request.from, request.to))

CheckLeaveDays(p) ==
  /\ pc[p] = "leaveDays"
  /\ IF DaysFree(req[p])
     THEN /\ Goto(p, "saveLeave")
          /\ UNCHANGED <<rows, req, need, todo, locks>>
     ELSE Rollback(p)

CommitLeave(p) ==
  /\ pc[p] = "saveLeave"
  /\ \E g \in req[p].guides :
       leaves' = [l \in Leaves |->
         IF l \notin req[p].leaves THEN leaves[l]
         ELSE [status |-> "live", guide |-> g, from |-> req[p].from,
               to |-> req[p].to, version |-> leaves[l].version + 1]]
  /\ Finish(p)
  /\ UNCHANGED <<tours, ratings, guides, now>>

-----------------------------------------------------------------------------
(* GuidePeopleService *)

BeginUpdateGuide(p) ==
  \E g \in Guides, on \in BOOLEAN, l \in Languages \cup {NoOne} :
    /\ guides[g].version < MaxVersion
    /\ Begin(p, [Blank EXCEPT !.op = "updateGuide", !.guides = {g}, !.enabled = on,
                              !.lang = l, !.version = guides[g].version,
                              !.start = now],
             "person", {g})

BeginDeleteGuides(p) ==
  \E ids \in SUBSET Guides :
    /\ ids # {}
    /\ Begin(p, [Blank EXCEPT !.op = "deleteGuides", !.guides = ids, !.start = now],
             "person", ids)

\* requireResourceForUpdate and assertVersion.  The guide stays in need until it
\* is vetted.
LockPerson(p) ==
  /\ pc[p] = "person"
  /\ \E g \in Guides :
       IF \/ guides[g].deleted
          \/ (req[p].op = "updateGuide" /\ guides[g].version # req[p].version)
       THEN /\ g \in need[p] /\ guideLock[g] = NoOne
            /\ \A h \in need[p] : g <= h
            /\ Rollback(p)
       ELSE /\ TakeGuide(p, g)
            /\ Goto(p, "vet")
            /\ UNCHANGED need

\* assertNoUpcomingTours, before a guide is disabled or deleted.
VetPerson(p) ==
  /\ pc[p] = "vet"
  /\ \E g \in need[p] :
       /\ guideLock[g] = p
       /\ IF /\ req[p].op = "deleteGuides" \/ ~req[p].enabled
             /\ HasUpcoming(g, req[p].start)
          THEN Rollback(p)
          ELSE /\ need' = [need EXCEPT ![p] = need[p] \ {g}]
               /\ Goto(p, IF need[p] = {g} THEN "savePerson" ELSE "person")
               /\ UNCHANGED <<rows, req, todo, locks>>

\* A save that changes no column leaves the version alone.
CommitUpdateGuide(p) ==
  /\ pc[p] = "savePerson"
  /\ req[p].op = "updateGuide"
  /\ \E g \in req[p].guides, bump \in {0, 1} :
       LET same == guides[g].enabled = req[p].enabled /\ guides[g].lang = req[p].lang
       IN /\ bump = 1 \/ same
          /\ guides' = [guides EXCEPT ![g] =
                          [guides[g] EXCEPT !.enabled = req[p].enabled,
                                            !.lang = req[p].lang,
                                            !.version = guides[g].version + bump]]
  /\ Finish(p)
  /\ UNCHANGED <<tours, ratings, leaves, now>>

\* The version of a deleted guide is never read again: it is left as it is.
CommitDeleteGuides(p) ==
  /\ pc[p] = "savePerson"
  /\ req[p].op = "deleteGuides"
  /\ guides' = [g \in Guides |->
       IF g \in req[p].guides THEN [guides[g] EXCEPT !.deleted = TRUE] ELSE guides[g]]
  /\ Finish(p)
  /\ UNCHANGED <<tours, ratings, leaves, now>>

-----------------------------------------------------------------------------
(* Waiting: a transaction waits while every row it may lock next is locked. *)

Holders(p) ==
  CASE pc[p] = "tour"  -> {tourLock[req[p].tour]}
    [] pc[p] = "leave" -> {leaveLock[l] : l \in LeavesToLock(p)}
    [] pc[p] \in {"guides", "leaveGuide", "person"} ->
         {guideLock[g] : g \in {h \in need[p] : \A k \in need[p] : h <= k}}
    [] OTHER -> {}

Waiting(p) == Holders(p) # {} /\ NoOne \notin Holders(p)

Deadlocked(group) ==
  group # {} /\ \A p \in group : Waiting(p) /\ Holders(p) \subseteq group

\* PostgreSQL finds the cycle and rolls one of the transactions back.
DeadlockVictim(p) ==
  /\ \E group \in SUBSET Procs : p \in group /\ Deadlocked(group)
  /\ Rollback(p)

\* The server or the connection dies in the middle of a transaction.
ConnectionLost(p) == pc[p] # "idle" /\ Rollback(p)

Tick == /\ now' \in {i \in Instants : i > now /\ \A j \in Instants : j > now => i <= j}
        /\ UNCHANGED <<tours, ratings, guides, leaves, pc, req, need, todo, locks>>

Request(p) ==
  \/ BeginCreateTour(p) \/ BeginUpdateTour(p) \/ BeginCancelTour(p)
  \/ BeginSaveRating(p)
  \/ BeginCreateLeave(p) \/ BeginUpdateLeave(p) \/ BeginDeleteLeaves(p)
  \/ BeginUpdateGuide(p) \/ BeginDeleteGuides(p)

Work(p) ==
  \/ LockTour(p) \/ LockServiceGuide(p) \/ CheckRated(p) \/ CheckService(p)
  \/ CommitCreateTour(p) \/ CommitUpdateTour(p) \/ CommitCancelTour(p)
  \/ CheckRating(p) \/ CommitRating(p)
  \/ LockLeave(p) \/ LockLeaveGuide(p) \/ CheckLeaveDays(p) \/ CommitLeave(p)
  \/ CommitDeleteLeaves(p)
  \/ LockPerson(p) \/ VetPerson(p) \/ CommitUpdateGuide(p) \/ CommitDeleteGuides(p)

Next == \/ \E p \in Procs : Request(p) \/ Work(p) \/ DeadlockVictim(p)
                            \/ ConnectionLost(p)
        \/ Tick

Spec == Init /\ [][Next]_vars

\* A row lock is granted in the order it was asked for, so a transaction that
\* finds its row free again and again gets it; PostgreSQL's deadlock detector
\* always acts.  Nothing makes a client send a request or a connection fail.
Fairness == \A p \in Procs : SF_vars(Work(p)) /\ WF_vars(DeadlockVictim(p))

LiveSpec == Spec /\ Fairness


(* Properties *)

Stage == {"idle", "tour", "guides", "services", "rating", "saveRating",
          "leave", "leaveGuide", "leaveDays", "saveLeave",
          "person", "vet", "savePerson"}

TourRow == [status : {"none", "active", "cancelled"}, version : Nat,
            services : SUBSET Service]
RatingRow == [version : Nat, valued : BOOLEAN]
GuideRow == [enabled : BOOLEAN, deleted : BOOLEAN, version : Nat,
             lang : Languages \cup {NoOne}]
LeaveRow == [status : {"none", "live", "deleted"}, guide : Guides \cup {NoOne},
             from : Nat, to : Nat, version : Nat]
RequestType == [op : Operation, tour : Tours \cup {NoOne}, version : Nat,
                inputs : SUBSET Input, seen : SUBSET Service,
                guides : SUBSET Guides, leaves : SUBSET Leaves,
                from : Nat, to : Nat, enabled : BOOLEAN,
                lang : Languages \cup {NoOne}, score : {"keep", "clear", "set"},
                rated : BOOLEAN, start : Nat]

\* The rows, the transactions and the locks keep their types.
TypeOK ==
  /\ tours \in [Tours -> TourRow]
  /\ ratings \in [Tours -> [Guides -> RatingRow]]
  /\ guides \in [Guides -> GuideRow]
  /\ leaves \in [Leaves -> LeaveRow]
  /\ now \in Nat
  /\ pc \in [Procs -> Stage]
  /\ req \in [Procs -> RequestType]
  /\ need \in [Procs -> SUBSET Guides]
  /\ todo \in [Procs -> SUBSET Input]
  /\ tourLock \in [Tours -> Procs \cup {NoOne}]
  /\ guideLock \in [Guides -> Procs \cup {NoOne}]
  /\ leaveLock \in [Leaves -> Procs \cup {NoOne}]

\* A guide never has two services of active tours that share a minute, whatever
\* creates, updates and cancellations run at the same time (prepareGuideServices).
NoDoubleBooking ==
  \A t, u \in Tours : Active(t) /\ Active(u) =>
    \A s \in tours[t].services, r \in tours[u].services :
      s.guide = r.guide /\ TimesMeet(s, r) => t = u /\ s = r

\* No service of an active tour falls on a day its guide is on leave, although the
\* two sides check each other's table in different transactions and different units.
NoServiceDuringLeave ==
  \A l \in Leaves, t \in Tours : Live(l) /\ Active(t) =>
    \A s \in tours[t].services :
      ~(s.guide = leaves[l].guide /\ LeaveCovers(leaves[l], s))

\* A service of an active tour that is not over has a guide who is enabled and not
\* deleted: disabling or deleting a guide and scheduling him exclude each other.
UpcomingGuideAvailable ==
  \A t \in Tours : Active(t) =>
    \A s \in tours[t].services :
      s.to >= now => guides[s.guide].enabled /\ ~guides[s.guide].deleted

\* Every rating row belongs to a guide with a service in the tour.
RatingsServed ==
  \A t \in Tours, g \in Guides :
    ratings[t][g].version # 0 => g \in GuidesOf(tours[t].services)

\* An update drops the rating rows of the guides who lose their last service, and
\* only those: no row is left without a service, also when a rating is saved at the
\* same time, and the scored row of a guide is only ever changed by a rating request.
ScoresSurviveUpdates ==
  [][/\ \A t \in Tours, g \in Guides :
          ratings[t][g].valued /\ ratings'[t][g] # ratings[t][g] =>
            \E p \in Procs : /\ req[p].op = "saveRating" /\ req[p].tour = t
                            /\ g \in req[p].guides
     /\ RatingsServed']_vars

\* Whoever replaces or cancels the services of an active tour had seen exactly the
\* services the tour had at that moment: no update is lost.
NoLostUpdate ==
  [][\A t \in Tours :
       Active(t) /\ tours'[t] # tours[t] =>
         \E p \in Procs : /\ req[p].tour = t /\ req[p].op # "createTour"
                          /\ pc[p] # "idle" /\ pc'[p] = "idle"
                          /\ req[p].seen = tours[t].services]_vars

\* At the moment a service is committed its guide is enabled, not deleted and
\* speaks its language, however long ago that was checked.
AssignedGuideQualified ==
  [][\A t \in Tours : \A s \in tours'[t].services \ tours[t].services :
       /\ guides[s.guide].enabled /\ ~guides[s.guide].deleted
       /\ guides[s.guide].lang = s.lang]_vars

\* No set of transactions waits for each other's row locks: tour before guides,
\* leave before guide, guides in id order.
NoDeadlock == \A group \in SUBSET Procs : ~Deadlocked(group)

\* Every transaction commits or rolls back, also when requests keep coming.
EveryRequestEnds == \A p \in Procs : pc[p] # "idle" ~> pc[p] = "idle"

\* A rating request overwrites only scores its client had seen: the version it
\* carries stands for the row it loaded (versionCheck in saveRating).
RatingSeenBeforeSaved ==
  [][\A p \in Procs, t \in Tours, g \in Guides :
       /\ pc[p] = "saveRating" /\ pc'[p] = "idle"
       /\ req[p].tour = t /\ g \in req[p].guides
       /\ ratings'[t][g] # ratings[t][g]
       => ratings[t][g].valued = req[p].rated]_vars

(* The inductive invariant behind NoDoubleBooking and NoServiceDuringLeave:    *)
(* a transaction that has locked its rows keeps what it has checked true.      *)

\* Which operation can be at which stage.
StageFits(p) ==
  /\ req[p].op = "createTour" => pc[p] \in {"guides", "services"}
  /\ pc[p] = "tour" => req[p].op \in {"updateTour", "cancelTour", "saveRating"}
  /\ pc[p] = "guides" => req[p].op \in {"createTour", "updateTour", "cancelTour"}
  /\ pc[p] = "services" => req[p].op \in {"createTour", "updateTour"}
  /\ pc[p] \in {"leaveGuide", "leaveDays", "saveLeave"} =>
       \E g \in Guides : req[p].guides = {g}
  /\ pc[p] = "leave" /\ req[p].op = "updateLeave" =>
       \E g \in Guides : req[p].guides = {g} /\ need[p] = {g}
  /\ pc[p] = "leave" => req[p].op \in {"updateLeave", "deleteLeaves"}
  /\ pc[p] = "leaveGuide" => need[p] = req[p].guides
  /\ pc[p] \in {"tour", "guides"} => todo[p] = req[p].inputs

\* A tour being changed is locked and active; a tour being created is not there.
OwnsTour(p) ==
  /\ pc[p] \in {"guides", "services"} /\ req[p].op # "createTour" =>
       \E t \in Tours : t = req[p].tour /\ tourLock[t] = p /\ Active(t)
  /\ req[p].op = "createTour" =>
       \E t \in Tours : t = req[p].tour /\ tours[t].status = "none"

\* The guides of every service about to be saved, or of a leave, are locked.
OwnsGuides(p) ==
  /\ pc[p] \in {"guides", "services"} =>
       \A i \in req[p].inputs : i.new.guide \in need[p] \/ guideLock[i.new.guide] = p
  /\ pc[p] = "services" => need[p] = {}
  /\ pc[p] \in {"leaveDays", "saveLeave"} =>
       \A g \in req[p].guides : guideLock[g] = p

\* What was checked is still so.
ChecksHold(p) ==
  /\ pc[p] = "services" =>
       \A i \in req[p].inputs \ todo[p] :
         /\ NotOnLeave(i.new) /\ NotBusy(req[p].tour, i.new)
         /\ \A j \in req[p].inputs \ todo[p] :
              j # i => ~(j.new.guide = i.new.guide /\ TimesMeet(j.new, i.new))
  /\ pc[p] = "saveLeave" => DaysFree(req[p])

FreshToursDistinct ==
  \A p, q \in Procs :
    p # q /\ req[p].op = "createTour" /\ req[q].op = "createTour"
      => req[p].tour # req[q].tour

Sound(p) == StageFits(p) /\ OwnsTour(p) /\ OwnsGuides(p) /\ ChecksHold(p)

SchedulingInv ==
  /\ TypeOK
  /\ NoDoubleBooking
  /\ NoServiceDuringLeave
  /\ FreshToursDistinct
  /\ \A p \in Procs : Sound(p)

(* The inductive invariant behind UpcomingGuideAvailable and                   *)
(* AssignedGuideQualified, on top of SchedulingInv.                            *)

\* A checked service either has a guide who qualifies, or is one the tour has.
ServicesQualified(p) ==
  pc[p] = "services" =>
    \A i \in req[p].inputs \ todo[p] :
      \/ Qualified(i.new)
      \/ req[p].op = "updateTour" /\ i.new \in tours[req[p].tour].services

\* Whoever changes a guide holds the row since he found it without upcoming tours.
PersonsVetted(p) ==
  pc[p] \in {"person", "vet", "savePerson"} =>
    /\ req[p].start <= now
    /\ pc[p] = "savePerson" => need[p] = {}
    /\ \A g \in req[p].guides \ need[p] :
         /\ guideLock[g] = p
         /\ req[p].op = "deleteGuides" \/ ~req[p].enabled => ~HasUpcoming(g, req[p].start)

AvailabilityInv ==
  /\ UpcomingGuideAvailable
  /\ \A p \in Procs : ServicesQualified(p) /\ PersonsVetted(p)

(* The inductive invariant behind NoLostUpdate and ScoresSurviveUpdates.       *)

\* The version a client sends stands for the services it has seen; an update whose
\* guides are locked drops no score, and a rating is saved under its tour's lock, for a
\* guide who serves it.
EditKnown(p) ==
  /\ req[p].op \in {"updateTour", "cancelTour"} =>
       \E t \in Tours :
         /\ t = req[p].tour /\ tours[t].status # "none"
         /\ req[p].version <= tours[t].version
         /\ req[p].version = tours[t].version => req[p].seen = tours[t].services
         /\ pc[p] \in {"guides", "services"} => req[p].version = tours[t].version
  /\ pc[p] = "services" => DropsNoScore(p)
  /\ req[p].op = "saveRating" => \E g \in Guides : req[p].guides = {g}
  /\ pc[p] \in {"rating", "saveRating"} =>
       /\ req[p].op = "saveRating"
       /\ \E t \in Tours :
            /\ t = req[p].tour /\ tourLock[t] = p /\ tours[t].status # "none"
            /\ pc[p] = "saveRating" => req[p].guides \subseteq GuidesOf(tours[t].services)

EditsKnown == \A p \in Procs : EditKnown(p)

\* A rating row belongs to a tour that was created, and to a guide who serves it.
RatingsKept ==
  /\ RatingsServed
  /\ \A t \in Tours : tours[t].status = "none" =>
       \A g \in Guides : ratings[t][g].version = 0

(* The inductive invariant behind NoDeadlock: the order in which rows are      *)
(* locked.                                                                     *)

\* A tour is locked before its guides, a leave before its guide, and guides in id
\* order; only a bulk deletion of leaves waits for a leave while it holds one.
LockOrder(p) ==
  /\ \A t \in Tours : tourLock[t] = p =>
       pc[p] \in {"guides", "services", "rating", "saveRating"}
  /\ \A g \in Guides : guideLock[g] = p =>
       /\ pc[p] \in {"guides", "services", "leaveDays", "saveLeave",
                     "person", "vet", "savePerson"}
       /\ pc[p] \in {"guides", "person"} => \A h \in need[p] : g < h
       /\ pc[p] = "vet" => \A h \in need[p] : g <= h
  /\ \A l \in Leaves : leaveLock[l] = p =>
       /\ pc[p] \in {"leave", "leaveGuide", "leaveDays", "saveLeave"}
       /\ pc[p] = "leave" => req[p].op = "deleteLeaves"
  /\ pc[p] = "tour" => req[p].tour \in Tours
  /\ req[p].op \in Ops \cup {"none"}

LocksOrdered == \A p \in Procs : LockOrder(p)

\* Transactions that wait for each other are all at the leaves, and two of them are
\* bulk deletions: no other requests can deadlock.
OnlyDeletionsDeadlock ==
  \A group \in SUBSET Procs : Deadlocked(group) =>
    /\ \A p \in group : pc[p] = "leave"
    /\ \E p, q \in group : p # q /\ req[p].op = "deleteLeaves"
                                 /\ req[q].op = "deleteLeaves"

=============================================================================
