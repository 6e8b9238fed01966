------------------------ MODULE GuideSchedulingProofs ------------------------
(****************************************************************************)
(* Proofs about GuideScheduling, for any sets of transactions, tours,       *)
(* guides, leaves and times.  SchedulingInv is inductive: no guide is       *)
(* booked twice and no service falls into a leave.  On top of it:           *)
(* AvailabilityInv (the guides of tours to come are enabled, speak the      *)
(* tour's language and are not on leave), EditsKnown (what an update or a   *)
(* rating has seen of its tour is what it replaces) and LocksOrdered (which *)
(* transactions can wait for each other).                                   *)
(****************************************************************************)
EXTENDS GuideScheduling, FiniteSetTheorems, TLAPS

(* Types of the operators requests are built from. *)

\* Blank is a request, and what clients submit are services and inputs.
LEMMA BlankType == Blank \in RequestType
BY DEF Blank, RequestType, Operation

LEMMA SubmittedType == Submitted \subseteq Service
BY TimesAssumption DEF Submitted, Service

LEMMA RequestsType ==
  ASSUME NEW stored \in SUBSET Service, NEW in \in Requests(stored)
  PROVE  in \in SUBSET Input
<1>1. PICK n \in 0..MaxServices :
        \E list \in [1..n -> [old : stored \cup {NoService}, new : Submitted]] :
          in = {list[k] : k \in 1..n}
  BY DEF Requests
<1>2. [old : stored \cup {NoService}, new : Submitted] \subseteq Input
  BY SubmittedType DEF Input
<1> QED BY <1>1, <1>2

LEMMA GuidesOfType ==
  ASSUME NEW services \in SUBSET Service
  PROVE  GuidesOf(services) \in SUBSET Guides
BY DEF GuidesOf, Service

LEMMA NewServicesType ==
  ASSUME NEW inputs \in SUBSET Input
  PROVE  NewServices(inputs) \in SUBSET Service
BY DEF NewServices, Input

LEMMA UnlockedType ==
  ASSUME NEW R, NEW lock \in [R -> Procs \cup {NoOne}], NEW p \in Procs
  PROVE  Unlocked(lock, p) \in [R -> Procs \cup {NoOne}]
BY DEF Unlocked

\* A row with some of its columns set is still a row.
LEMMA TourRowUpdate ==
  ASSUME NEW row \in TourRow, NEW services \in SUBSET Service, NEW v \in Nat
  PROVE  /\ [row EXCEPT !.services = services, !.version = v] \in TourRow
         /\ [row EXCEPT !.status = "cancelled", !.version = v] \in TourRow
BY DEF TourRow

LEMMA LeaveRowUpdate ==
  ASSUME NEW row \in LeaveRow, NEW v \in Nat
  PROVE  [row EXCEPT !.status = "deleted", !.version = v] \in LeaveRow
BY DEF LeaveRow

LEMMA GuideRowUpdate ==
  ASSUME NEW row \in GuideRow, NEW on \in BOOLEAN,
         NEW lang \in Languages \cup {NoOne}, NEW v \in Nat
  PROVE  /\ [row EXCEPT !.enabled = on, !.lang = lang, !.version = v] \in GuideRow
         /\ [row EXCEPT !.deleted = TRUE] \in GuideRow
BY DEF GuideRow

-----------------------------------------------------------------------------
(* Type correctness *)

LocalType == /\ pc \in [Procs -> Stage]
             /\ req \in [Procs -> RequestType]
             /\ need \in [Procs -> SUBSET Guides]
             /\ todo \in [Procs -> SUBSET Input]
LockType == /\ tourLock \in [Tours -> Procs \cup {NoOne}]
            /\ guideLock \in [Guides -> Procs \cup {NoOne}]
            /\ leaveLock \in [Leaves -> Procs \cup {NoOne}]
RowType == /\ tours \in [Tours -> TourRow]
           /\ ratings \in [Tours -> [Guides -> RatingRow]]
           /\ guides \in [Guides -> GuideRow]
           /\ leaves \in [Leaves -> LeaveRow]
           /\ now \in Nat

LEMMA BeginType ==
  ASSUME TypeOK, NEW p \in Procs, NEW request \in RequestType,
         NEW first \in Stage, NEW guideRows \in SUBSET Guides,
         Begin(p, request, first, guideRows)
  PROVE  TypeOK'
<1>1. request.inputs \in SUBSET Input
  BY DEF RequestType
<1> QED BY <1>1 DEF TypeOK, Begin, rows, locks

LEMMA FinishType ==
  ASSUME TypeOK, NEW p \in Procs, Finish(p)
  PROVE  LocalType' /\ LockType'
<1>1. LocalType'
  BY BlankType DEF TypeOK, LocalType, Finish, Goto, Stage
<1>2. LockType'
  BY UnlockedType DEF TypeOK, LockType, Finish
<1> QED BY <1>1, <1>2

LEMMA RollbackType ==
  ASSUME TypeOK, NEW p \in Procs, Rollback(p)
  PROVE  TypeOK'
<1>1. RowType'
  BY DEF TypeOK, RowType, Rollback, rows
<1>2. LocalType' /\ LockType'
  BY FinishType DEF Rollback
<1> QED BY <1>1, <1>2 DEF TypeOK, LocalType, LockType, RowType

LEMMA RequestKeepsType ==
  ASSUME TypeOK, NEW p \in Procs, Request(p)
  PROVE  TypeOK'
<1>1. CASE BeginCreateTour(p)
  <2>1. PICK t \in Tours, in \in Requests({}) :
          Begin(p, [Blank EXCEPT !.op = "createTour", !.tour = t, !.inputs = in],
                "guides", GuidesOf(NewServices(in)))
    BY <1>1 DEF BeginCreateTour
  <2>2. in \in SUBSET Input
    BY RequestsType
  <2>3. [Blank EXCEPT !.op = "createTour", !.tour = t, !.inputs = in] \in RequestType
    BY <2>2, BlankType DEF RequestType, Operation
  <2>4. GuidesOf(NewServices(in)) \in SUBSET Guides
    BY <2>2, NewServicesType, GuidesOfType
  <2> QED BY <2>1, <2>3, <2>4, BeginType DEF Stage
<1>2. CASE BeginUpdateTour(p)
  <2>1. PICK t \in Tours : \E in \in Requests(tours[t].services) :
          Begin(p, [Blank EXCEPT !.op = "updateTour", !.tour = t, !.inputs = in,
                                 !.version = tours[t].version,
                                 !.seen = tours[t].services], "tour", {})
    BY <1>2 DEF BeginUpdateTour
  <2>5. PICK in \in Requests(tours[t].services) :
          Begin(p, [Blank EXCEPT !.op = "updateTour", !.tour = t, !.inputs = in,
                                 !.version = tours[t].version,
                                 !.seen = tours[t].services], "tour", {})
    BY <2>1
  <2>2. tours[t].services \in SUBSET Service /\ tours[t].version \in Nat
    BY DEF TypeOK, TourRow
  <2>3. in \in SUBSET Input
    BY <2>2, RequestsType
  <2>4. [Blank EXCEPT !.op = "updateTour", !.tour = t, !.inputs = in,
                      !.version = tours[t].version,
                      !.seen = tours[t].services] \in RequestType
    BY <2>2, <2>3, BlankType DEF RequestType, Operation
  <2> QED BY <2>5, <2>4, BeginType DEF Stage
<1>3. CASE BeginCancelTour(p)
  <2>1. PICK t \in Tours :
          Begin(p, [Blank EXCEPT !.op = "cancelTour", !.tour = t,
                                 !.version = tours[t].version,
                                 !.seen = tours[t].services], "tour", {})
    BY <1>3 DEF BeginCancelTour
  <2>2. tours[t].services \in SUBSET Service /\ tours[t].version \in Nat
    BY DEF TypeOK, TourRow
  <2>3. [Blank EXCEPT !.op = "cancelTour", !.tour = t,
                      !.version = tours[t].version,
                      !.seen = tours[t].services] \in RequestType
    BY <2>2, BlankType DEF RequestType, Operation
  <2> QED BY <2>1, <2>3, BeginType DEF Stage
<1>4. CASE BeginSaveRating(p)
  <2>1. PICK t \in Tours, g \in Guides, score \in {"keep", "clear", "set"} :
          Begin(p, [Blank EXCEPT !.op = "saveRating", !.tour = t, !.guides = {g},
                                 !.version = ratings[t][g].version,
                                 !.rated = ratings[t][g].valued, !.score = score],
                "tour", {})
    BY <1>4 DEF BeginSaveRating
  <2>2. ratings[t][g].version \in Nat /\ ratings[t][g].valued \in BOOLEAN
    BY DEF TypeOK, RatingRow
  <2>3. [Blank EXCEPT !.op = "saveRating", !.tour = t, !.guides = {g},
                      !.version = ratings[t][g].version,
                      !.rated = ratings[t][g].valued, !.score = score] \in RequestType
    BY <2>2, BlankType DEF RequestType, Operation
  <2> QED BY <2>1, <2>3, BeginType DEF Stage
<1>5. CASE BeginCreateLeave(p)
  <2>1. PICK l \in Leaves, g \in Guides, d \in LeaveDays :
          Begin(p, [Blank EXCEPT !.op = "createLeave", !.leaves = {l}, !.guides = {g},
                                 !.from = d[1], !.to = d[2]], "leaveGuide", {g})
    BY <1>5 DEF BeginCreateLeave
  <2>2. [Blank EXCEPT !.op = "createLeave", !.leaves = {l}, !.guides = {g},
                      !.from = d[1], !.to = d[2]] \in RequestType
    BY TimesAssumption, BlankType DEF RequestType, Operation
  <2> QED BY <2>1, <2>2, BeginType DEF Stage
<1>6. CASE BeginUpdateLeave(p)
  <2>1. PICK l \in Leaves, g \in Guides, d \in LeaveDays :
          Begin(p, [Blank EXCEPT !.op = "updateLeave", !.leaves = {l}, !.guides = {g},
                                 !.from = d[1], !.to = d[2],
                                 !.version = leaves[l].version], "leave", {g})
    BY <1>6 DEF BeginUpdateLeave
  <2>2. [Blank EXCEPT !.op = "updateLeave", !.leaves = {l}, !.guides = {g},
                      !.from = d[1], !.to = d[2],
                      !.version = leaves[l].version] \in RequestType
    BY TimesAssumption, BlankType DEF RequestType, Operation, TypeOK, LeaveRow
  <2> QED BY <2>1, <2>2, BeginType DEF Stage
<1>7. CASE BeginDeleteLeaves(p)
  <2>1. PICK ids \in SUBSET Leaves :
          Begin(p, [Blank EXCEPT !.op = "deleteLeaves", !.leaves = ids], "leave", {})
    BY <1>7 DEF BeginDeleteLeaves
  <2>2. [Blank EXCEPT !.op = "deleteLeaves", !.leaves = ids] \in RequestType
    BY BlankType DEF RequestType, Operation
  <2> QED BY <2>1, <2>2, BeginType DEF Stage
<1>8. CASE BeginUpdateGuide(p)
  <2>1. PICK g \in Guides, on \in BOOLEAN, l \in Languages \cup {NoOne} :
          Begin(p, [Blank EXCEPT !.op = "updateGuide", !.guides = {g}, !.enabled = on,
                                 !.lang = l, !.version = guides[g].version,
                                 !.start = now], "person", {g})
    BY <1>8 DEF BeginUpdateGuide
  <2>2. [Blank EXCEPT !.op = "updateGuide", !.guides = {g}, !.enabled = on,
                      !.lang = l, !.version = guides[g].version,
                      !.start = now] \in RequestType
    BY BlankType DEF RequestType, Operation, TypeOK, GuideRow
  <2> QED BY <2>1, <2>2, BeginType DEF Stage
<1>9. CASE BeginDeleteGuides(p)
  <2>1. PICK ids \in SUBSET Guides :
          Begin(p, [Blank EXCEPT !.op = "deleteGuides", !.guides = ids, !.start = now],
                "person", ids)
    BY <1>9 DEF BeginDeleteGuides
  <2>2. [Blank EXCEPT !.op = "deleteGuides", !.guides = ids, !.start = now]
          \in RequestType
    BY BlankType DEF RequestType, Operation, TypeOK
  <2> QED BY <2>1, <2>2, BeginType DEF Stage
<1> QED BY <1>1, <1>2, <1>3, <1>4, <1>5, <1>6, <1>7, <1>8, <1>9 DEF Request

LEMMA WorkKeepsType ==
  ASSUME TypeOK, NEW p \in Procs, Work(p)
  PROVE  TypeOK'
<1> USE DEF TypeOK, Goto, rows, locks
<1>i. req[p].inputs \in SUBSET Input
  BY DEF RequestType
<1>s. NewServices(req[p].inputs) \in SUBSET Service
  BY <1>i, NewServicesType
<1>g. GuidesOf(NewServices(req[p].inputs)) \in SUBSET Guides
  BY <1>s, GuidesOfType
<1>1. CASE Rollback(p)
  BY <1>1, RollbackType
<1>2. CASE ~Rollback(p) /\ LockTour(p)
  <2>1. PICK t \in Tours :
          /\ tourLock' = [tourLock EXCEPT ![t] = p]
          /\ \/ Goto(p, "rating") /\ UNCHANGED need
             \/ /\ Goto(p, "guides")
                /\ need' = [need EXCEPT ![p] =
                              GuidesOf(tours[t].services)
                                \cup GuidesOf(NewServices(req[p].inputs))]
          /\ UNCHANGED <<rows, req, todo, guideLock, leaveLock>>
    BY <1>2 DEF LockTour
  <2>2. GuidesOf(tours[t].services) \in SUBSET Guides
    BY GuidesOfType DEF TourRow
  <2> QED BY ZenonT(40), <2>1, <2>2, <1>g DEF Stage
<1>3. CASE LockServiceGuide(p)
  BY <1>3 DEF LockServiceGuide, TakeGuide
<1>4. CASE ~Rollback(p) /\ CheckRated(p)
  BY <1>4 DEF CheckRated, Stage
<1>5. CASE ~Rollback(p) /\ CheckService(p)
  BY <1>5 DEF CheckService
<1>6. CASE CommitCreateTour(p)
  <2>1. LocalType' /\ LockType'
    BY <1>6, FinishType DEF CommitCreateTour
  <2>2. [status |-> "active", version |-> 1,
         services |-> NewServices(req[p].inputs)] \in TourRow
    BY <1>s DEF TourRow
  <2> QED BY <1>6, <2>1, <2>2 DEF CommitCreateTour, LocalType, LockType
<1>7. CASE CommitUpdateTour(p)
  <2>1. LocalType' /\ LockType'
    BY <1>7, FinishType DEF CommitUpdateTour
  <2>2. tours' \in [Tours -> TourRow]
    <3>1. ASSUME NEW t \in Tours
          PROVE  [tours[t] EXCEPT !.services = NewServices(req[p].inputs),
                                  !.version = tours[t].version + 1] \in TourRow
      <4>1. tours[t] \in TourRow /\ tours[t].version + 1 \in Nat
        BY <3>1 DEF TourRow
      <4> QED BY <4>1, <1>s, TourRowUpdate
    <3> QED BY <1>7, <3>1 DEF CommitUpdateTour
  <2>3. ratings' \in [Tours -> [Guides -> RatingRow]]
    <3>1. [version |-> 0, valued |-> FALSE] \in RatingRow
      BY DEF RatingRow
    <3>2. ASSUME NEW t \in Tours
          PROVE  [g \in Guides |-> IF g \in GuidesOf(NewServices(req[p].inputs))
                                   THEN ratings[t][g]
                                   ELSE [version |-> 0, valued |-> FALSE]]
                   \in [Guides -> RatingRow]
      BY <3>1
    <3> QED BY <1>7, <3>2 DEF CommitUpdateTour, RatingsLeft
  <2> QED BY <1>7, <2>1, <2>2, <2>3 DEF CommitUpdateTour, LocalType, LockType
<1>8. CASE CommitCancelTour(p)
  <2>1. LocalType' /\ LockType'
    BY <1>8, FinishType DEF CommitCancelTour
  <2>2. tours' \in [Tours -> TourRow]
    <3>1. ASSUME NEW t \in Tours
          PROVE  [tours[t] EXCEPT !.status = "cancelled",
                                  !.version = tours[t].version + 1] \in TourRow
      <4>1. tours[t] \in TourRow /\ tours[t].version + 1 \in Nat
        BY <3>1 DEF TourRow
      <4> QED BY <4>1, TourRowUpdate
    <3> QED BY <1>8, <3>1 DEF CommitCancelTour, Cancelled
  <2> QED BY <1>8, <2>1, <2>2 DEF CommitCancelTour, LocalType, LockType
<1>9. CASE ~Rollback(p) /\ CheckRating(p)
  BY <1>9 DEF CheckRating, Stage
<1>10. CASE CommitRating(p)
  <2>1. LocalType' /\ LockType'
    BY <1>10, FinishType DEF CommitRating
  <2>2. ratings' \in [Tours -> [Guides -> RatingRow]]
    <3>1. PICK g \in req[p].guides :
            ratings' = [ratings EXCEPT ![req[p].tour] =
                          [ratings[req[p].tour] EXCEPT ![g] = RatingSaved(p, g)]]
      BY <1>10 DEF CommitRating
    <3>2. g \in Guides
      BY DEF RequestType
    <3>3. ASSUME req[p].tour \in Tours
          PROVE  RatingSaved(p, g) \in RatingRow
      <4>1. /\ ratings[req[p].tour][g].version + 1 \in Nat
            /\ ratings[req[p].tour][g].valued \in BOOLEAN
        BY <3>2, <3>3 DEF RatingRow
      <4>2. (req[p].score = "set") \in BOOLEAN
        OBVIOUS
      <4> QED BY <4>1, <4>2 DEF RatingSaved, RatingRow
    <3>4. ASSUME req[p].tour \in Tours
          PROVE  [ratings[req[p].tour] EXCEPT ![g] = RatingSaved(p, g)]
                   \in [Guides -> RatingRow]
      BY <3>2, <3>3, <3>4
    <3> QED BY <3>1, <3>4
  <2> QED BY <1>10, <2>1, <2>2 DEF CommitRating, LocalType, LockType
<1>11. CASE ~Rollback(p) /\ LockLeave(p)
  BY <1>11 DEF LockLeave, Stage
<1>12. CASE ~Rollback(p) /\ LockLeaveGuide(p)
  <2>1. PICK g \in Guides : /\ TakeGuide(p, g)
                            /\ need' = [need EXCEPT ![p] = {}]
                            /\ Goto(p, "leaveDays")
    BY <1>12 DEF LockLeaveGuide
  <2> QED BY <2>1 DEF TakeGuide, Stage
<1>13. CASE ~Rollback(p) /\ CheckLeaveDays(p)
  BY <1>13 DEF CheckLeaveDays, Stage
<1>14. CASE CommitLeave(p)
  <2>1. LocalType' /\ LockType'
    BY <1>14, FinishType DEF CommitLeave
  <2>2. leaves' \in [Leaves -> LeaveRow]
    BY <1>14 DEF CommitLeave, LeaveRow, RequestType
  <2> QED BY <1>14, <2>1, <2>2 DEF CommitLeave, LocalType, LockType
<1>15. CASE CommitDeleteLeaves(p)
  <2>1. LocalType' /\ LockType'
    BY <1>15, FinishType DEF CommitDeleteLeaves
  <2>2. leaves' \in [Leaves -> LeaveRow]
    <3>1. ASSUME NEW l \in Leaves
          PROVE  [leaves[l] EXCEPT !.status = "deleted",
                                   !.version = leaves[l].version + 1] \in LeaveRow
      <4>1. leaves[l] \in LeaveRow /\ leaves[l].version + 1 \in Nat
        BY <3>1 DEF LeaveRow
      <4> QED BY <4>1, LeaveRowUpdate
    <3> QED BY <1>15, <3>1 DEF CommitDeleteLeaves
  <2> QED BY <1>15, <2>1, <2>2 DEF CommitDeleteLeaves, LocalType, LockType
<1>16. CASE ~Rollback(p) /\ LockPerson(p)
  BY <1>16 DEF LockPerson, TakeGuide, Stage
<1>17. CASE ~Rollback(p) /\ VetPerson(p)
  <2>1. PICK g \in need[p], next \in {"savePerson", "person"} :
          /\ need' = [need EXCEPT ![p] = need[p] \ {g}]
          /\ Goto(p, next)
          /\ UNCHANGED <<rows, req, todo, locks>>
    BY <1>17 DEF VetPerson
  <2> QED BY <2>1 DEF Stage
<1>18. CASE CommitUpdateGuide(p)
  <2>1. LocalType' /\ LockType'
    BY <1>18, FinishType DEF CommitUpdateGuide
  <2>2. guides' \in [Guides -> GuideRow]
    <3>1. PICK g \in req[p].guides, bump \in {0, 1} :
            guides' = [guides EXCEPT ![g] =
                         [guides[g] EXCEPT !.enabled = req[p].enabled,
                                           !.lang = req[p].lang,
                                           !.version = guides[g].version + bump]]
      BY <1>18 DEF CommitUpdateGuide
    <3>2. g \in Guides /\ guides[g] \in GuideRow /\ guides[g].version + bump \in Nat
      BY DEF RequestType, GuideRow
    <3>3. req[p].enabled \in BOOLEAN /\ req[p].lang \in Languages \cup {NoOne}
      BY DEF RequestType
    <3> QED BY <3>1, <3>2, <3>3, GuideRowUpdate
  <2> QED BY <1>18, <2>1, <2>2 DEF CommitUpdateGuide, LocalType, LockType
<1>19. CASE CommitDeleteGuides(p)
  <2>1. LocalType' /\ LockType'
    BY <1>19, FinishType DEF CommitDeleteGuides
  <2>2. guides' \in [Guides -> GuideRow]
    BY ZenonT(40), <1>19 DEF CommitDeleteGuides, GuideRow
  <2> QED BY <1>19, <2>1, <2>2 DEF CommitDeleteGuides, LocalType, LockType
<1> QED BY <1>1, <1>2, <1>3, <1>4, <1>5, <1>6, <1>7, <1>8, <1>9, <1>10, <1>11,
           <1>12, <1>13, <1>14, <1>15, <1>16, <1>17, <1>18, <1>19 DEF Work

\* The initial rows are rows of their types.
LEMMA InitType == ASSUME Init PROVE TypeOK
<1>1. tours \in [Tours -> TourRow] /\ ratings \in [Tours -> [Guides -> RatingRow]]
  BY DEF Init, TourRow, RatingRow
<1>2. guides \in [Guides -> GuideRow] /\ leaves \in [Leaves -> LeaveRow]
  <2>1. [status |-> "none", guide |-> NoOne, from |-> 0, to |-> 0, version |-> 0]
          \in LeaveRow
    BY DEF LeaveRow
  <2>2. ASSUME NEW l \in Languages
        PROVE [enabled |-> TRUE, deleted |-> FALSE, version |-> 1, lang |-> l]
                \in GuideRow
    BY DEF GuideRow
  <2> QED BY <2>1, <2>2 DEF Init
<1>3. now \in Nat
  BY TimesAssumption DEF Init
<1>4. /\ pc \in [Procs -> Stage] /\ req \in [Procs -> RequestType]
      /\ need \in [Procs -> SUBSET Guides] /\ todo \in [Procs -> SUBSET Input]
  BY BlankType DEF Init, Stage
<1> QED BY <1>1, <1>2, <1>3, <1>4 DEF Init, TypeOK

\* Every step keeps the types.
LEMMA NextType == ASSUME TypeOK, [Next]_vars PROVE TypeOK'
<1>1. ASSUME NEW p \in Procs, Request(p) PROVE TypeOK'
  BY <1>1, RequestKeepsType
<1>2. ASSUME NEW p \in Procs, Work(p) PROVE TypeOK'
  BY <1>2, WorkKeepsType
<1>3. ASSUME NEW p \in Procs, DeadlockVictim(p) \/ ConnectionLost(p) PROVE TypeOK'
  BY <1>3, RollbackType DEF DeadlockVictim, ConnectionLost
<1>4. CASE Tick
  BY <1>4, TimesAssumption DEF Tick, TypeOK, locks
<1>5. CASE UNCHANGED vars
  BY <1>5 DEF vars, TypeOK
<1> QED BY <1>1, <1>2, <1>3, <1>4, <1>5 DEF Next

\* The rows, requests and locks keep their types in every behaviour.
THEOREM TypeCorrect == Spec => []TypeOK
<1>1. Init => TypeOK
  BY InitType
<1>2. TypeOK /\ [Next]_vars => TypeOK'
  BY NextType
<1> QED BY <1>1, <1>2, PTL DEF Spec

-----------------------------------------------------------------------------
(* Bookings and leaves: SchedulingInv *)

\* Days and minutes agree: the two services compare a leave and a service alike.
LEMMA DaysAndMinutes ==
  ASSUME NEW s \in Service, NEW lv \in LeaveRow
  PROVE  LeaveCovers(lv, s) <=> ServiceInDays(s, lv.from, lv.to)
<1>1. s.from \in Nat /\ s.to \in Nat /\ lv.from \in Nat /\ lv.to \in Nat
  BY DEF Service, LeaveRow
<1>2. ASSUME NEW m \in Nat, NEW d \in Nat
      PROVE  (d <= DayOf(m)) <=> (d * 1440 <= m)
  BY DEF DayOf, DayMinutes
<1>3. DayOf(s.to) \in Nat /\ DayOf(s.from) \in Nat
  BY <1>1 DEF DayOf, DayMinutes
<1>4. (lv.from < DayOf(s.to) + 1) <=> (s.to >= lv.from * 1440)
  BY <1>1, <1>2, <1>3
<1>5. (lv.to >= DayOf(s.from)) <=> (s.from < (lv.to + 1) * 1440)
  BY <1>1, <1>2, <1>3
<1> QED BY <1>4, <1>5 DEF LeaveCovers, ServiceInDays, DayMinutes

\* Time overlap does not depend on the order of the two services.
LEMMA TimesMeetSymmetric ==
  ASSUME NEW s \in Service, NEW r \in Service
  PROVE  TimesMeet(s, r) <=> TimesMeet(r, s)
BY DEF TimesMeet, Service

\* A transaction's step leaves every other transaction and its locks alone.
LEMMA OthersUntouched ==
  ASSUME TypeOK, NEW p \in Procs, NEW q \in Procs, p # q,
         Request(p) \/ Work(p) \/ Rollback(p)
  PROVE  /\ pc'[q] = pc[q] /\ req'[q] = req[q]
         /\ need'[q] = need[q] /\ todo'[q] = todo[q]
         /\ \A t \in Tours : tourLock[t] = q => tourLock'[t] = q
         /\ \A g \in Guides : guideLock[g] = q => guideLock'[g] = q
<1> USE NoOneAssumption DEF TypeOK, Goto, rows, locks
<1> DEFINE Same == /\ pc'[q] = pc[q] /\ req'[q] = req[q]
                   /\ need'[q] = need[q] /\ todo'[q] = todo[q]
                   /\ \A t \in Tours : tourLock[t] = q => tourLock'[t] = q
                   /\ \A g \in Guides : guideLock[g] = q => guideLock'[g] = q
<1>f. ASSUME Finish(p) PROVE Same
  BY <1>f DEF Finish, Unlocked
<1>b. ASSUME NEW request, NEW first, NEW guideRows, Begin(p, request, first, guideRows)
      PROVE  Same
  BY <1>b DEF Begin
<1>g. ASSUME NEW g \in Guides, TakeGuide(p, g)
      PROVE  /\ req'[q] = req[q] /\ todo'[q] = todo[q] /\ tourLock' = tourLock
             /\ \A h \in Guides : guideLock[h] = q => guideLock'[h] = q
  BY <1>g DEF TakeGuide
<1>1. CASE Rollback(p)
  BY <1>1, <1>f DEF Rollback
<1>2. CASE Request(p)
  BY <1>2, <1>b DEF Request, BeginCreateTour, BeginUpdateTour, BeginCancelTour,
     BeginSaveRating, BeginCreateLeave, BeginUpdateLeave, BeginDeleteLeaves,
     BeginUpdateGuide, BeginDeleteGuides
<1>3. CASE ~Rollback(p) /\ LockTour(p)
  BY <1>3 DEF LockTour
<1>4. CASE LockServiceGuide(p)
  BY <1>4, <1>g DEF LockServiceGuide
<1>5. CASE ~Rollback(p) /\ (CheckRated(p) \/ CheckService(p) \/ CheckRating(p)
                            \/ CheckLeaveDays(p))
  BY <1>5 DEF CheckRated, CheckService, CheckRating, CheckLeaveDays
<1>6. CASE \/ CommitCreateTour(p) \/ CommitUpdateTour(p) \/ CommitCancelTour(p)
           \/ CommitRating(p) \/ CommitLeave(p) \/ CommitDeleteLeaves(p)
           \/ CommitUpdateGuide(p) \/ CommitDeleteGuides(p)
  BY <1>6, <1>f DEF CommitCreateTour, CommitUpdateTour, CommitCancelTour, CommitRating,
     CommitLeave, CommitDeleteLeaves, CommitUpdateGuide, CommitDeleteGuides
<1>7. CASE ~Rollback(p) /\ LockLeave(p)
  BY <1>7 DEF LockLeave
<1>8. CASE ~Rollback(p) /\ LockLeaveGuide(p)
  BY <1>8, <1>g DEF LockLeaveGuide
<1>9. CASE ~Rollback(p) /\ LockPerson(p)
  BY <1>9, <1>g DEF LockPerson
<1>10. CASE ~Rollback(p) /\ VetPerson(p)
  BY <1>10 DEF VetPerson
<1> QED BY <1>1, <1>2, <1>3, <1>4, <1>5, <1>6, <1>7, <1>8, <1>9, <1>10 DEF Work


-----------------------------------------------------------------------------
(* Steps that leave tours and leaves alone *)

\* The guide of every service asked for is a guide row.
LEMMA InputGuide ==
  ASSUME TypeOK, NEW p \in Procs, NEW i \in req[p].inputs
  PROVE  /\ i \in Input /\ i.new \in Service /\ i.new.guide \in Guides
         /\ i.new.from \in Nat /\ i.new.to \in Nat
BY DEF TypeOK, RequestType, Input, Service

\* What holds for a transaction keeps holding while others work elsewhere.
LEMMA StaysSound ==
  ASSUME TypeOK, NEW q \in Procs, Sound(q), tours' = tours, leaves' = leaves,
         pc'[q] = pc[q], req'[q] = req[q], need'[q] = need[q], todo'[q] = todo[q],
         \A t \in Tours : tourLock[t] = q => tourLock'[t] = q,
         \A g \in Guides : guideLock[g] = q => guideLock'[g] = q
  PROVE  Sound(q)'
<1>1. StageFits(q)'
  BY DEF Sound, StageFits
<1>2. OwnsTour(q)'
  BY DEF Sound, OwnsTour, Active
<1>3. OwnsGuides(q)'
  BY InputGuide DEF Sound, OwnsGuides, TypeOK, RequestType
<1>4. ChecksHold(q)'
  BY DEF Sound, ChecksHold, NotOnLeave, NotBusy, DaysFree, Active, Live
<1> QED BY <1>1, <1>2, <1>3, <1>4 DEF Sound

\* A transaction that has ended holds nothing and has nothing to keep.
LEMMA EndedIsSound ==
  ASSUME TypeOK, NEW p \in Procs, Finish(p)
  PROVE  Sound(p)' /\ req'[p].op = "none"
<1>1. pc'[p] = "idle" /\ req'[p] = Blank /\ todo'[p] = {} /\ Blank.op = "none"
  BY DEF Finish, Goto, TypeOK, Blank
<1> QED BY <1>1 DEF Sound, StageFits, OwnsTour, OwnsGuides, ChecksHold

\* A new request starts sound, and draws a tour nobody else is creating.
LEMMA BegunIsSound ==
  ASSUME TypeOK, NEW p \in Procs, Request(p)
  PROVE  /\ Sound(p)'
         /\ req'[p].op = "createTour" =>
              \A q \in Procs : req[q].op = "createTour" => req[q].tour # req'[p].tour
<1> DEFINE Fresh == req'[p].op = "createTour" =>
              \A q \in Procs : req[q].op = "createTour" => req[q].tour # req'[p].tour
<1>1. CASE BeginCreateTour(p)
  <2>1. PICK t \in Tours, in \in Requests({}) :
          /\ tours[t].status = "none"
          /\ \A q \in Procs : req[q].op = "createTour" => req[q].tour # t
          /\ Begin(p, [Blank EXCEPT !.op = "createTour", !.tour = t, !.inputs = in],
                   "guides", GuidesOf(NewServices(in)))
    BY <1>1 DEF BeginCreateTour
  <2>2. /\ pc'[p] = "guides" /\ req'[p].op = "createTour" /\ req'[p].tour = t
        /\ req'[p].inputs = in /\ need'[p] = GuidesOf(NewServices(in))
        /\ todo'[p] = in /\ tours' = tours
    BY <2>1 DEF Begin, Blank, TypeOK, rows
  <2>3. \A i \in in : i.new.guide \in need'[p]
    BY <2>2 DEF GuidesOf, NewServices
  <2>4. Sound(p)'
    BY <2>1, <2>2, <2>3 DEF Sound, StageFits, OwnsTour, OwnsGuides, ChecksHold
  <2> QED BY <2>1, <2>2, <2>4
<1>2. CASE BeginUpdateTour(p) \/ BeginCancelTour(p) \/ BeginSaveRating(p)
  <2>1. /\ pc'[p] = "tour" /\ req'[p].op \in {"updateTour", "cancelTour", "saveRating"}
        /\ todo'[p] = req'[p].inputs
    <3>1. CASE BeginUpdateTour(p)
      BY <3>1 DEF Begin, TypeOK, BeginUpdateTour, Blank
    <3>2. CASE BeginCancelTour(p)
      BY <3>2 DEF Begin, TypeOK, BeginCancelTour, Blank
    <3>3. CASE BeginSaveRating(p)
      BY <3>3 DEF Begin, TypeOK, BeginSaveRating, Blank
    <3> QED BY <1>2, <3>1, <3>2, <3>3
  <2> QED BY <2>1 DEF Sound, StageFits, OwnsTour, OwnsGuides, ChecksHold
<1>3. CASE BeginCreateLeave(p)
  <2>1. PICK g \in Guides : /\ pc'[p] = "leaveGuide" /\ req'[p].op = "createLeave"
                            /\ req'[p].guides = {g} /\ need'[p] = {g}
    BY <1>3 DEF Begin, TypeOK, BeginCreateLeave, Blank
  <2> QED BY <2>1 DEF Sound, StageFits, OwnsTour, OwnsGuides, ChecksHold
<1>4. CASE BeginUpdateLeave(p)
  <2>1. PICK g \in Guides : /\ pc'[p] = "leave" /\ req'[p].op = "updateLeave"
                            /\ req'[p].guides = {g} /\ need'[p] = {g}
    BY <1>4 DEF Begin, TypeOK, BeginUpdateLeave, Blank
  <2> QED BY <2>1 DEF Sound, StageFits, OwnsTour, OwnsGuides, ChecksHold
<1>5. CASE BeginDeleteLeaves(p)
  <2>1. pc'[p] = "leave" /\ req'[p].op = "deleteLeaves"
    BY <1>5 DEF Begin, TypeOK, BeginDeleteLeaves, Blank
  <2> QED BY <2>1 DEF Sound, StageFits, OwnsTour, OwnsGuides, ChecksHold
<1>6. CASE BeginUpdateGuide(p) \/ BeginDeleteGuides(p)
  <2>1. pc'[p] = "person" /\ req'[p].op \in {"updateGuide", "deleteGuides"}
    <3>1. CASE BeginUpdateGuide(p)
      BY <3>1 DEF Begin, TypeOK, BeginUpdateGuide, Blank
    <3>2. CASE BeginDeleteGuides(p)
      BY <3>2 DEF Begin, TypeOK, BeginDeleteGuides, Blank
    <3> QED BY <1>6, <3>1, <3>2
  <2> QED BY <2>1 DEF Sound, StageFits, OwnsTour, OwnsGuides, ChecksHold
<1> QED BY <1>1, <1>2, <1>3, <1>4, <1>5, <1>6 DEF Request

\* A service that is retained needs no check: its own tour is active, so it already
\* meets no other tour's service and no leave.
LEMMA AcceptedService ==
  ASSUME SchedulingInv, NEW p \in Procs, pc[p] = "services",
         NEW i \in req[p].inputs, AcceptService(p, i)
  PROVE  NotOnLeave(i.new) /\ NotBusy(req[p].tour, i.new)
<1>1. CASE ~Retained(i)
  BY <1>1 DEF AcceptService
<1>2. CASE Retained(i)
  <2>1. i.new \in Service /\ i.old = i.new
    BY <1>2, InputGuide DEF Retained, SchedulingInv
  <2>2. i.old # NoService
    BY <2>1, NoServiceAssumption
  <2>3. req[p].op = "updateTour" /\ i.new \in tours[req[p].tour].services
    BY <2>1, <2>2 DEF AcceptService
  <2>4. req[p].tour \in Tours /\ Active(req[p].tour)
    BY <2>3 DEF SchedulingInv, Sound, OwnsTour
  <2>5. NotOnLeave(i.new)
    BY <2>3, <2>4 DEF NotOnLeave, SchedulingInv, NoServiceDuringLeave
  <2>6. NotBusy(req[p].tour, i.new)
    BY <2>3, <2>4 DEF NotBusy, SchedulingInv, NoDoubleBooking
  <2> QED BY <2>5, <2>6
<1> QED BY <1>1, <1>2

\* The steps before a commit read tours and leaves and establish what they check.
LEMMA StepIsSound ==
  ASSUME SchedulingInv, NEW p \in Procs, ~Rollback(p),
         \/ LockTour(p) \/ LockServiceGuide(p) \/ CheckRated(p) \/ CheckService(p)
         \/ CheckRating(p) \/ LockLeave(p) \/ LockLeaveGuide(p) \/ CheckLeaveDays(p)
         \/ LockPerson(p) \/ VetPerson(p)
  PROVE  Sound(p)' /\ tours' = tours /\ leaves' = leaves /\ req' = req
<1> USE DEF Goto, rows, locks
<1>t. TypeOK /\ Sound(p)
  BY DEF SchedulingInv
<1>g. \A i \in req[p].inputs : i.new.guide \in Guides
  BY <1>t, InputGuide
<1>1. CASE LockTour(p)
  <2>1. PICK t \in Tours :
          /\ t = req[p].tour /\ Active(t)
          /\ tourLock' = [tourLock EXCEPT ![t] = p]
          /\ \/ pc' = [pc EXCEPT ![p] = "rating"]
             \/ /\ req[p].op # "saveRating"
                /\ pc' = [pc EXCEPT ![p] = "guides"]
                /\ need' = [need EXCEPT ![p] = GuidesOf(tours[t].services)
                                       \cup GuidesOf(NewServices(req[p].inputs))]
          /\ tours' = tours /\ leaves' = leaves /\ req' = req /\ todo' = todo
    BY <1>1 DEF LockTour, Editable
  <2>2. pc[p] = "tour" /\ req[p].op \in {"updateTour", "cancelTour", "saveRating"}
    BY <1>1, <1>t DEF LockTour, Sound, StageFits
  <2>3. pc'[p] = "guides" => \A i \in req[p].inputs : i.new.guide \in need'[p]
    BY <2>1, <1>t DEF GuidesOf, NewServices, TypeOK
  <2>4. pc'[p] \in {"rating", "guides"} /\ todo'[p] = req[p].inputs /\ tourLock'[t] = p
    BY <2>1, <2>2, <1>t DEF TypeOK, Sound, StageFits
  <2> QED BY <2>1, <2>2, <2>3, <2>4, <1>t
          DEF TypeOK, Sound, StageFits, OwnsTour, OwnsGuides, ChecksHold, Active
<1>2. CASE LockServiceGuide(p)
  <2>1. PICK g \in Guides :
          /\ need' = [need EXCEPT ![p] = need[p] \ {g}]
          /\ guideLock' = [guideLock EXCEPT ![g] = p]
          /\ pc' = pc /\ tours' = tours /\ leaves' = leaves /\ req' = req /\ todo' = todo
          /\ tourLock' = tourLock
    BY <1>2 DEF LockServiceGuide, TakeGuide
  <2>2. pc[p] = "guides"
    BY <1>2 DEF LockServiceGuide
  <2>3. OwnsTour(p)' /\ StageFits(p)' /\ ChecksHold(p)'
    BY <2>1, <2>2, <1>t DEF TypeOK, Sound, StageFits, OwnsTour, ChecksHold, Active
  <2>4. OwnsGuides(p)'
    BY <2>1, <2>2, <1>t, <1>g DEF TypeOK, Sound, OwnsGuides
  <2> QED BY <2>1, <2>3, <2>4 DEF Sound
<1>3. CASE CheckRated(p)
  <2>1. /\ pc[p] = "guides" /\ need[p] = {} /\ req[p].op \in {"createTour", "updateTour"}
        /\ pc' = [pc EXCEPT ![p] = "services"] /\ need' = need /\ todo' = todo
        /\ tours' = tours /\ leaves' = leaves /\ req' = req
        /\ tourLock' = tourLock /\ guideLock' = guideLock
    BY <1>3 DEF CheckRated
  <2> QED BY <2>1, <1>t
          DEF TypeOK, Sound, StageFits, OwnsTour, OwnsGuides, ChecksHold, Active
<1>4. CASE CheckService(p)
  <2>1. PICK i \in todo[p] :
          /\ AcceptService(p, i)
          /\ todo' = [todo EXCEPT ![p] = todo[p] \ {i}]
          /\ pc' = pc /\ need' = need /\ tours' = tours /\ leaves' = leaves /\ req' = req
          /\ tourLock' = tourLock /\ guideLock' = guideLock
    BY <1>4 DEF CheckService
  <2>2. pc[p] = "services"
    BY <1>4 DEF CheckService
  <2>3. StageFits(p)' /\ OwnsTour(p)' /\ OwnsGuides(p)'
    BY <2>1, <2>2, <1>t DEF TypeOK, Sound, StageFits, OwnsTour, OwnsGuides, Active
  <2> DEFINE Done == req[p].inputs \ todo[p]
  <2>4. req[p].inputs \ todo'[p] \subseteq Done \cup {i}
    BY <2>1, <1>t DEF TypeOK
  <2>5. i \in req[p].inputs => NotOnLeave(i.new) /\ NotBusy(req[p].tour, i.new)
    BY <2>1, <2>2, AcceptedService
  <2>6. \A j \in Done : NotOnLeave(j.new) /\ NotBusy(req[p].tour, j.new)
    BY <2>2, <1>t DEF Sound, ChecksHold
  <2>7. ASSUME i \in req[p].inputs, NEW j \in Done
        PROVE  /\ ~(j.new.guide = i.new.guide /\ TimesMeet(j.new, i.new))
               /\ ~(i.new.guide = j.new.guide /\ TimesMeet(i.new, j.new))
    <3>1. ~(j.new.guide = i.new.guide /\ TimesMeet(j.new, i.new))
      BY <2>1 DEF AcceptService, ApartFrom
    <3>2. j.new \in Service /\ i.new \in Service
      BY <1>t, <2>7, InputGuide
    <3> QED BY <3>1, <3>2, TimesMeetSymmetric
  <2>8. ASSUME NEW j \in Done, NEW k \in Done, k # j
        PROVE  ~(k.new.guide = j.new.guide /\ TimesMeet(k.new, j.new))
    BY <2>2, <2>8, <1>t DEF Sound, ChecksHold
  <2>9. ASSUME NEW j \in req[p].inputs \ todo'[p]
        PROVE  NotOnLeave(j.new)' /\ NotBusy(req[p].tour, j.new)'
    <3>1. NotOnLeave(j.new) /\ NotBusy(req[p].tour, j.new)
      BY <2>4, <2>5, <2>6, <2>9
    <3> QED BY <3>1, <2>1 DEF NotOnLeave, NotBusy, Active, Live
  <2>10. ASSUME NEW j \in req[p].inputs \ todo'[p], NEW k \in req[p].inputs \ todo'[p],
                k # j
         PROVE  ~(k.new.guide = j.new.guide /\ TimesMeet(k.new, j.new))
    BY <2>4, <2>7, <2>8, <2>10
  <2>11. ChecksHold(p)'
    BY <2>1, <2>2, <2>9, <2>10 DEF ChecksHold
  <2> QED BY <2>1, <2>3, <2>11 DEF Sound
<1>5. CASE CheckRating(p)
  <2>1. /\ pc[p] = "rating" /\ pc' = [pc EXCEPT ![p] = "saveRating"]
        /\ need' = need /\ todo' = todo
        /\ tours' = tours /\ leaves' = leaves /\ req' = req
    BY <1>5 DEF CheckRating
  <2> QED BY <2>1, <1>t
          DEF TypeOK, Sound, StageFits, OwnsTour, OwnsGuides, ChecksHold
<1>6. CASE LockLeave(p)
  <2>1. /\ pc[p] = "leave"
        /\ \/ req[p].op = "updateLeave" /\ pc' = [pc EXCEPT ![p] = "leaveGuide"]
           \/ pc' = pc
        /\ need' = need /\ todo' = todo
        /\ tours' = tours /\ leaves' = leaves /\ req' = req
    BY <1>6 DEF LockLeave
  <2> QED BY <2>1, <1>t
          DEF TypeOK, Sound, StageFits, OwnsTour, OwnsGuides, ChecksHold
<1>7. CASE LockLeaveGuide(p)
  <2>1. PICK g \in need[p] :
          /\ g \in Guides
          /\ pc[p] = "leaveGuide" /\ pc' = [pc EXCEPT ![p] = "leaveDays"]
          /\ guideLock' = [guideLock EXCEPT ![g] = p]
          /\ tours' = tours /\ leaves' = leaves /\ req' = req
    BY <1>7 DEF LockLeaveGuide, TakeGuide
  <2> QED BY <2>1, <1>t
          DEF TypeOK, Sound, StageFits, OwnsTour, OwnsGuides, ChecksHold
<1>8. CASE CheckLeaveDays(p)
  <2>1. /\ pc[p] = "leaveDays" /\ pc' = [pc EXCEPT ![p] = "saveLeave"]
        /\ DaysFree(req[p]) /\ need' = need /\ todo' = todo /\ guideLock' = guideLock
        /\ tours' = tours /\ leaves' = leaves /\ req' = req
    BY <1>8 DEF CheckLeaveDays
  <2>2. DaysFree(req[p])'
    BY <2>1 DEF DaysFree, Active
  <2> QED BY <2>1, <2>2, <1>t
          DEF TypeOK, Sound, StageFits, OwnsTour, OwnsGuides, ChecksHold
<1>9. CASE LockPerson(p) \/ VetPerson(p)
  <2>1. /\ pc[p] \in {"person", "vet"}
        /\ \E next \in {"person", "vet", "savePerson"} : pc' = [pc EXCEPT ![p] = next]
        /\ tours' = tours /\ leaves' = leaves /\ req' = req
    BY <1>9 DEF LockPerson, VetPerson, TakeGuide
  <2> QED BY <2>1, <1>t
          DEF TypeOK, Sound, StageFits, OwnsTour, OwnsGuides, ChecksHold
<1> QED BY <1>1, <1>2, <1>3, <1>4, <1>5, <1>6, <1>7, <1>8, <1>9

-----------------------------------------------------------------------------
(* Steps that change tours or leaves *)

\* Two transactions never hold what one of them needs for itself.
LEMMA GuideLocksExclude ==
  ASSUME SchedulingInv, NEW p \in Procs, NEW q \in Procs, p # q,
         NEW g \in Guides, guideLock[g] = p
  PROVE  /\ pc[q] = "services" => \A i \in req[q].inputs : i.new.guide # g
         /\ pc[q] = "saveLeave" => g \notin req[q].guides
<1>1. guideLock[g] # q
  OBVIOUS
<1>2. Sound(q)
  BY DEF SchedulingInv
<1> QED BY <1>1, <1>2 DEF Sound, OwnsGuides

\* Nobody else works on the tour a transaction is about to save.
LEMMA TourLocksExclude ==
  ASSUME SchedulingInv, NEW p \in Procs, NEW q \in Procs, p # q,
         pc[p] \in {"guides", "services"}
  PROVE  /\ pc[q] \in {"guides", "services"} => req[q].tour # req[p].tour
         /\ req[q].op = "createTour" => req[q].tour # req[p].tour
<1>1. Sound(p) /\ Sound(q)
  BY DEF SchedulingInv
<1>2. req[q].op = "createTour" => pc[q] \in {"guides", "services"}
  BY <1>1 DEF Sound, StageFits
<1>3. req[p].op = "createTour" /\ req[q].op = "createTour" => req[q].tour # req[p].tour
  BY DEF SchedulingInv, FreshToursDistinct
<1> QED BY <1>1, <1>2, <1>3 DEF Sound, OwnsTour, Active

\* Saving checked services: the new services meet no leave and no other service,
\* and no other transaction has checked a service or a leave of the same guides.
LEMMA SavedServices ==
  ASSUME SchedulingInv, NEW p \in Procs, pc[p] = "services", todo[p] = {}, Finish(p),
         NEW t \in Tours, t = req[p].tour,
         tours' \in [Tours -> TourRow], leaves' = leaves,
         \A u \in Tours \ {t} : tours'[u] = tours[u],
         tours'[t].status = "active",
         tours'[t].services = NewServices(req[p].inputs)
  PROVE  /\ NoDoubleBooking' /\ NoServiceDuringLeave'
         /\ \A q \in Procs : Sound(q)'
<1>t. TypeOK /\ Sound(p)
  BY DEF SchedulingInv
<1>i. ASSUME NEW s \in tours'[t].services
      PROVE  \E i \in req[p].inputs :
               /\ s = i.new /\ s \in Service /\ s.guide \in Guides
               /\ guideLock[s.guide] = p
               /\ NotOnLeave(s) /\ NotBusy(t, s)
               /\ \A j \in req[p].inputs :
                    j # i => ~(j.new.guide = s.guide /\ TimesMeet(j.new, s))
  <2>1. PICK i \in req[p].inputs : s = i.new
    BY <1>i DEF NewServices
  <2>2. i \in req[p].inputs \ todo[p] /\ i.new \in Service /\ i.new.guide \in Guides
    BY <2>1, <1>t, InputGuide
  <2>3. guideLock[i.new.guide] = p
    BY <2>2, <1>t DEF Sound, OwnsGuides
  <2>4. /\ NotOnLeave(i.new) /\ NotBusy(t, i.new)
        /\ \A j \in req[p].inputs : j # i =>
             ~(j.new.guide = i.new.guide /\ TimesMeet(j.new, i.new))
    BY <2>2, <1>t DEF Sound, ChecksHold
  <2> QED BY <2>1, <2>2, <2>3, <2>4
<1>o. ASSUME NEW u \in Tours \ {t}, NEW s \in tours'[u].services
      PROVE  s \in tours[u].services /\ s \in Service
  BY <1>t, <1>o DEF TypeOK, TourRow
<1>1. NoDoubleBooking'
  <2> SUFFICES ASSUME NEW u \in Tours, NEW v \in Tours, Active(u)', Active(v)',
                      NEW s \in tours'[u].services, NEW r \in tours'[v].services,
                      s.guide = r.guide, TimesMeet(s, r)
               PROVE  u = v /\ s = r
    BY DEF NoDoubleBooking, TimesMeet
  <2>1. CASE u # t /\ v # t
    BY <2>1, <1>o DEF SchedulingInv, NoDoubleBooking, Active
  <2>2. CASE u = t /\ v # t
    <3>1. NotBusy(t, s) /\ s \in Service /\ r \in Service /\ r \in tours[v].services
          /\ Active(v)
      BY <2>2, <1>i, <1>o DEF Active
    <3>2. TimesMeet(r, s)
      BY <3>1, TimesMeetSymmetric
    <3> QED BY <2>2, <3>1, <3>2 DEF NotBusy
  <2>3. CASE u # t /\ v = t
    <3>1. NotBusy(t, r) /\ s \in tours[u].services /\ Active(u)
      BY <2>3, <1>i, <1>o DEF Active
    <3> QED BY <2>3, <3>1 DEF NotBusy
  <2>4. CASE u = t /\ v = t
    <3>1. PICK i \in req[p].inputs :
             /\ r = i.new
             /\ \A j \in req[p].inputs :
                  j # i => ~(j.new.guide = r.guide /\ TimesMeet(j.new, r))
      BY <2>4, <1>i
    <3>2. PICK j \in req[p].inputs : s = j.new
      BY <2>4, <1>i
    <3> QED BY <2>4, <3>1, <3>2
  <2> QED BY <2>1, <2>2, <2>3, <2>4
<1>2. NoServiceDuringLeave'
  <2> SUFFICES ASSUME NEW l \in Leaves, NEW u \in Tours, Live(l), Active(u)',
                      NEW s \in tours'[u].services
               PROVE  ~(s.guide = leaves[l].guide /\ LeaveCovers(leaves[l], s))
    BY DEF NoServiceDuringLeave, Live, LeaveCovers, DayOf, DayMinutes
  <2>1. CASE u = t
    BY <2>1, <1>i DEF NotOnLeave
  <2>2. CASE u # t
    BY <2>2, <1>o DEF SchedulingInv, NoServiceDuringLeave, Active
  <2> QED BY <2>1, <2>2
<1>3. ASSUME NEW q \in Procs, q # p
      PROVE  Sound(q)'
  <2>1. Sound(q)
    BY DEF SchedulingInv
  <2>2. /\ pc'[q] = pc[q] /\ req'[q] = req[q] /\ need'[q] = need[q] /\ todo'[q] = todo[q]
        /\ \A u \in Tours : tourLock[u] = q => tourLock'[u] = q
        /\ \A g \in Guides : guideLock[g] = q => guideLock'[g] = q
    BY <1>3, <1>t, NoOneAssumption DEF Finish, Goto, Unlocked, TypeOK
  <2>3. /\ pc[q] \in {"guides", "services"} => req[q].tour # t
        /\ req[q].op = "createTour" => req[q].tour # t
    BY <1>3, TourLocksExclude
  <2>4. StageFits(q)'
    BY <2>1, <2>2 DEF Sound, StageFits
  <2>5. OwnsTour(q)'
    BY <2>1, <2>2, <2>3 DEF Sound, OwnsTour, Active
  <2>6. OwnsGuides(q)'
    BY <2>1, <2>2, <1>t, InputGuide DEF Sound, OwnsGuides, TypeOK, RequestType
  <2>7. ASSUME pc[q] = "services", NEW i \in req[q].inputs \ todo[q]
        PROVE  NotOnLeave(i.new)' /\ NotBusy(req[q].tour, i.new)'
    <3>1. NotOnLeave(i.new) /\ NotBusy(req[q].tour, i.new)
      BY <2>1, <2>7 DEF Sound, ChecksHold
    <3>2. \A s \in tours'[t].services : s.guide # i.new.guide
      BY <1>i, <2>7, <1>3, GuideLocksExclude
    <3>3. NotOnLeave(i.new)'
      BY <3>1 DEF NotOnLeave, Live
    <3>4. NotBusy(req[q].tour, i.new)'
      BY <3>1, <3>2, <2>2 DEF NotBusy, Active
    <3> QED BY <3>3, <3>4
  <2>8. pc[q] = "saveLeave" => DaysFree(req[q])'
    <3>1. HAVE pc[q] = "saveLeave"
    <3>2. DaysFree(req[q])
      BY <2>1, <3>1 DEF Sound, ChecksHold
    <3>3. \A s \in tours'[t].services : s.guide \notin req[q].guides
      BY <1>i, <3>1, <1>3, GuideLocksExclude
    <3> QED BY <2>2, <3>2, <3>3 DEF DaysFree, Active
  <2>9. ChecksHold(q)'
    <3>1. pc[q] = "services" =>
            \A i \in req[q].inputs \ todo[q], j \in req[q].inputs \ todo[q] :
              j # i => ~(j.new.guide = i.new.guide /\ TimesMeet(j.new, i.new))
      BY <2>1 DEF Sound, ChecksHold
    <3> QED BY <2>2, <2>7, <2>8, <3>1 DEF ChecksHold
  <2> QED BY <2>4, <2>5, <2>6, <2>9 DEF Sound
<1>4. Sound(p)'
  BY <1>t, EndedIsSound
<1> QED BY <1>1, <1>2, <1>3, <1>4

\* Cancelling a tour only takes services away.
LEMMA CancelledServices ==
  ASSUME SchedulingInv, NEW p \in Procs, CommitCancelTour(p)
  PROVE  /\ NoDoubleBooking' /\ NoServiceDuringLeave'
         /\ \A q \in Procs : Sound(q)'
<1>t. TypeOK /\ Sound(p)
  BY DEF SchedulingInv
<1>1. PICK t \in Tours : t = req[p].tour
  BY <1>t DEF CommitCancelTour, Sound, OwnsTour
<1>2. /\ pc[p] = "guides" /\ Finish(p) /\ leaves' = leaves
      /\ tours' = [tours EXCEPT ![t] = Cancelled(t)]
  BY <1>1 DEF CommitCancelTour
<1>3. /\ ~Active(t)'
      /\ \A u \in Tours \ {t} : tours'[u] = tours[u]
  BY <1>2, <1>t DEF TypeOK, TourRow, Active, Cancelled
<1>4. NoDoubleBooking'
  BY <1>3 DEF SchedulingInv, NoDoubleBooking, Active, TimesMeet
<1>5. NoServiceDuringLeave'
  BY <1>2, <1>3 DEF SchedulingInv, NoServiceDuringLeave, Active, Live, LeaveCovers,
     DayOf, DayMinutes
<1>6. ASSUME NEW q \in Procs, q # p
      PROVE  Sound(q)'
  <2>1. Sound(q)
    BY DEF SchedulingInv
  <2>2. /\ pc'[q] = pc[q] /\ req'[q] = req[q] /\ need'[q] = need[q] /\ todo'[q] = todo[q]
        /\ \A u \in Tours : tourLock[u] = q => tourLock'[u] = q
        /\ \A g \in Guides : guideLock[g] = q => guideLock'[g] = q
    BY <1>2, <1>6, <1>t, NoOneAssumption DEF Finish, Goto, Unlocked, TypeOK
  <2>3. /\ pc[q] \in {"guides", "services"} => req[q].tour # t
        /\ req[q].op = "createTour" => req[q].tour # t
    BY <1>1, <1>2, <1>6, TourLocksExclude
  <2>4. StageFits(q)'
    BY <2>1, <2>2 DEF Sound, StageFits
  <2>5. OwnsTour(q)'
    BY <1>3, <2>1, <2>2, <2>3 DEF Sound, OwnsTour, Active
  <2>6. OwnsGuides(q)'
    BY <2>1, <2>2, <1>t, InputGuide DEF Sound, OwnsGuides, TypeOK, RequestType
  <2>7. ChecksHold(q)'
    <3>1. ASSUME pc[q] = "services", NEW i \in req[q].inputs \ todo[q]
          PROVE  NotOnLeave(i.new)' /\ NotBusy(req[q].tour, i.new)'
      BY <1>2, <1>3, <2>1, <2>2, <3>1
         DEF Sound, ChecksHold, NotOnLeave, NotBusy, Active, Live
    <3>2. pc[q] = "saveLeave" => DaysFree(req[q])'
      BY <1>3, <2>1, <2>2 DEF Sound, ChecksHold, DaysFree, Active
    <3>3. pc[q] = "services" =>
            \A i \in req[q].inputs \ todo[q], j \in req[q].inputs \ todo[q] :
              j # i => ~(j.new.guide = i.new.guide /\ TimesMeet(j.new, i.new))
      BY <2>1 DEF Sound, ChecksHold
    <3> QED BY <2>2, <3>1, <3>2, <3>3 DEF ChecksHold
  <2> QED BY <2>4, <2>5, <2>6, <2>7 DEF Sound
<1>7. Sound(p)'
  BY <1>2, <1>t, EndedIsSound
<1> QED BY <1>4, <1>5, <1>6, <1>7

\* Saving a leave: its guide is locked and has no service on those days, and no one
\* else has checked a service of that guide.
LEMMA SavedLeave ==
  ASSUME SchedulingInv, NEW p \in Procs, CommitLeave(p), TypeOK'
  PROVE  /\ NoDoubleBooking' /\ NoServiceDuringLeave'
         /\ \A q \in Procs : Sound(q)'
<1>t. TypeOK /\ Sound(p)
  BY DEF SchedulingInv
<1>1. PICK g \in req[p].guides :
        leaves' = [l \in Leaves |->
         IF l \notin req[p].leaves THEN leaves[l]
         ELSE [status |-> "live", guide |-> g, from |-> req[p].from,
               to |-> req[p].to, version |-> leaves[l].version + 1]]
  BY DEF CommitLeave
<1>2. pc[p] = "saveLeave" /\ Finish(p) /\ tours' = tours
  BY DEF CommitLeave
<1>3. DaysFree(req[p]) /\ guideLock[g] = p /\ g \in Guides
  BY <1>1, <1>2, <1>t DEF Sound, ChecksHold, OwnsGuides, StageFits
<1>4. ASSUME NEW l \in Leaves
      PROVE  \/ leaves'[l] = leaves[l]
             \/ /\ leaves'[l].guide = g
                /\ leaves'[l].from = req[p].from /\ leaves'[l].to = req[p].to
  BY <1>1
<1>5. NoDoubleBooking'
  BY <1>2 DEF SchedulingInv, NoDoubleBooking, Active, TimesMeet
<1>6. NoServiceDuringLeave'
  <2> SUFFICES ASSUME NEW l \in Leaves, NEW t \in Tours, Live(l)', Active(t),
                      NEW s \in tours[t].services, s.guide = leaves'[l].guide,
                      LeaveCovers(leaves'[l], s)
               PROVE  FALSE
    BY <1>2 DEF NoServiceDuringLeave, Active, LeaveCovers, DayOf, DayMinutes
  <2>1. s \in Service /\ leaves'[l] \in LeaveRow
    BY <1>t DEF TypeOK, TourRow
  <2>2. CASE leaves'[l] = leaves[l]
    BY <2>2 DEF SchedulingInv, NoServiceDuringLeave, Live
  <2>3. CASE /\ leaves'[l].guide = g
             /\ leaves'[l].from = req[p].from /\ leaves'[l].to = req[p].to
    <3>1. ServiceInDays(s, req[p].from, req[p].to)
      BY <2>1, <2>3, DaysAndMinutes
    <3> QED BY <1>1, <1>3, <2>3, <3>1 DEF DaysFree
  <2> QED BY <1>4, <2>2, <2>3
<1>7. ASSUME NEW q \in Procs, q # p
      PROVE  Sound(q)'
  <2>1. Sound(q)
    BY DEF SchedulingInv
  <2>2. /\ pc'[q] = pc[q] /\ req'[q] = req[q] /\ need'[q] = need[q] /\ todo'[q] = todo[q]
        /\ \A u \in Tours : tourLock[u] = q => tourLock'[u] = q
        /\ \A h \in Guides : guideLock[h] = q => guideLock'[h] = q
    BY <1>2, <1>7, <1>t, NoOneAssumption DEF Finish, Goto, Unlocked, TypeOK
  <2>3. StageFits(q)' /\ OwnsTour(q)'
    BY <1>2, <2>1, <2>2 DEF Sound, StageFits, OwnsTour, Active
  <2>4. OwnsGuides(q)'
    BY <2>1, <2>2, <1>t, InputGuide DEF Sound, OwnsGuides, TypeOK, RequestType
  <2>5. ASSUME pc[q] = "services", NEW i \in req[q].inputs \ todo[q]
        PROVE  NotOnLeave(i.new)' /\ NotBusy(req[q].tour, i.new)'
    <3>1. NotOnLeave(i.new) /\ NotBusy(req[q].tour, i.new)
      BY <2>1, <2>5 DEF Sound, ChecksHold
    <3>2. i.new.guide # g
      BY <1>3, <1>7, <2>5, GuideLocksExclude
    <3>3. NotOnLeave(i.new)'
      BY <1>4, <3>1, <3>2 DEF NotOnLeave, Live, LeaveCovers, DayOf, DayMinutes
    <3>4. NotBusy(req[q].tour, i.new)'
      BY <1>2, <2>2, <3>1 DEF NotBusy, Active
    <3> QED BY <3>3, <3>4
  <2>6. pc[q] = "saveLeave" => DaysFree(req[q])'
    BY <1>2, <2>1, <2>2 DEF Sound, ChecksHold, DaysFree, Active
  <2>7. pc[q] = "services" =>
          \A i \in req[q].inputs \ todo[q], j \in req[q].inputs \ todo[q] :
            j # i => ~(j.new.guide = i.new.guide /\ TimesMeet(j.new, i.new))
    BY <2>1 DEF Sound, ChecksHold
  <2>8. ChecksHold(q)'
    BY <2>2, <2>5, <2>6, <2>7 DEF ChecksHold
  <2> QED BY <2>3, <2>4, <2>8 DEF Sound
<1>8. Sound(p)'
  BY <1>2, <1>t, EndedIsSound
<1> QED BY <1>5, <1>6, <1>7, <1>8

\* Deleting leaves only takes leaves away.
LEMMA DeletedLeaves ==
  ASSUME SchedulingInv, NEW p \in Procs, CommitDeleteLeaves(p)
  PROVE  /\ NoDoubleBooking' /\ NoServiceDuringLeave'
         /\ \A q \in Procs : Sound(q)'
<1>t. TypeOK /\ Sound(p)
  BY DEF SchedulingInv
<1>1. Finish(p) /\ tours' = tours
  BY DEF CommitDeleteLeaves
<1>2. ASSUME NEW l \in Leaves
      PROVE  leaves'[l] = leaves[l] \/ ~Live(l)'
  BY <1>t DEF CommitDeleteLeaves, TypeOK, LeaveRow, Live
<1>3. NoDoubleBooking'
  BY <1>1 DEF SchedulingInv, NoDoubleBooking, Active, TimesMeet
<1>4. NoServiceDuringLeave'
  BY <1>1, <1>2 DEF SchedulingInv, NoServiceDuringLeave, Active, Live, LeaveCovers,
     DayOf, DayMinutes
<1>5. ASSUME NEW q \in Procs, q # p
      PROVE  Sound(q)'
  <2>1. Sound(q)
    BY DEF SchedulingInv
  <2>2. /\ pc'[q] = pc[q] /\ req'[q] = req[q] /\ need'[q] = need[q] /\ todo'[q] = todo[q]
        /\ \A u \in Tours : tourLock[u] = q => tourLock'[u] = q
        /\ \A h \in Guides : guideLock[h] = q => guideLock'[h] = q
    BY <1>1, <1>5, <1>t, NoOneAssumption DEF Finish, Goto, Unlocked, TypeOK
  <2>3. StageFits(q)' /\ OwnsTour(q)'
    BY <1>1, <2>1, <2>2 DEF Sound, StageFits, OwnsTour, Active
  <2>4. OwnsGuides(q)'
    BY <2>1, <2>2, <1>t, InputGuide DEF Sound, OwnsGuides, TypeOK, RequestType
  <2>5. ASSUME pc[q] = "services", NEW i \in req[q].inputs \ todo[q]
        PROVE  NotOnLeave(i.new)' /\ NotBusy(req[q].tour, i.new)'
    <3>1. NotOnLeave(i.new) /\ NotBusy(req[q].tour, i.new)
      BY <2>1, <2>5 DEF Sound, ChecksHold
    <3>2. NotOnLeave(i.new)'
      BY <1>2, <3>1 DEF NotOnLeave, Live, LeaveCovers, DayOf, DayMinutes
    <3>3. NotBusy(req[q].tour, i.new)'
      BY <1>1, <2>2, <3>1 DEF NotBusy, Active
    <3> QED BY <3>2, <3>3
  <2>6. pc[q] = "saveLeave" => DaysFree(req[q])'
    BY <1>1, <2>1, <2>2 DEF Sound, ChecksHold, DaysFree, Active
  <2>7. pc[q] = "services" =>
          \A i \in req[q].inputs \ todo[q], j \in req[q].inputs \ todo[q] :
            j # i => ~(j.new.guide = i.new.guide /\ TimesMeet(j.new, i.new))
    BY <2>1 DEF Sound, ChecksHold
  <2>8. ChecksHold(q)'
    BY <2>2, <2>5, <2>6, <2>7 DEF ChecksHold
  <2> QED BY <2>3, <2>4, <2>8 DEF Sound
<1>6. Sound(p)'
  BY <1>1, <1>t, EndedIsSound
<1> QED BY <1>3, <1>4, <1>5, <1>6

\* What is true of tours and leaves only needs them unchanged.
LEMMA SameBookings ==
  ASSUME SchedulingInv, tours' = tours, leaves' = leaves
  PROVE  NoDoubleBooking' /\ NoServiceDuringLeave'
<1>1. NoDoubleBooking'
  BY DEF SchedulingInv, NoDoubleBooking, Active, TimesMeet
<1>2. NoServiceDuringLeave'
  BY DEF SchedulingInv, NoServiceDuringLeave, Active, Live, LeaveCovers, DayOf, DayMinutes
<1> QED BY <1>1, <1>2

-----------------------------------------------------------------------------
(* The invariant *)

\* No step of a transaction but a new request can make two create the same tour.
LEMMA StepKeepsFresh ==
  ASSUME SchedulingInv, NEW p \in Procs, Work(p) \/ Rollback(p)
  PROVE  FreshToursDistinct'
<1>t. TypeOK
  BY DEF SchedulingInv
<1>1. CASE Finish(p)
  <2>1. req' = [req EXCEPT ![p] = Blank] /\ Blank.op = "none"
    BY <1>1 DEF Finish, Blank
  <2> QED BY <2>1, <1>t DEF SchedulingInv, FreshToursDistinct, TypeOK
<1>2. CASE ~Finish(p)
  <2>1. \/ LockTour(p) \/ LockServiceGuide(p) \/ CheckRated(p) \/ CheckService(p)
        \/ CheckRating(p) \/ LockLeave(p) \/ LockLeaveGuide(p) \/ CheckLeaveDays(p)
        \/ LockPerson(p) \/ VetPerson(p)
    BY <1>2 DEF Work, Rollback, CommitCreateTour, CommitUpdateTour, CommitCancelTour,
       CommitRating, CommitLeave, CommitDeleteLeaves, CommitUpdateGuide,
       CommitDeleteGuides
  <2>2. req' = req
    BY <2>1, <1>2, StepIsSound DEF Rollback
  <2> QED BY <2>2 DEF SchedulingInv, FreshToursDistinct
<1> QED BY <1>1, <1>2

LEMMA WorkKeepsInv ==
  ASSUME SchedulingInv, NEW p \in Procs, Work(p) \/ Rollback(p)
  PROVE  SchedulingInv'
<1>t. TypeOK /\ Sound(p)
  BY DEF SchedulingInv
<1>u. TypeOK'
  BY <1>t, WorkKeepsType, RollbackType
<1>f. FreshToursDistinct'
  BY StepKeepsFresh
<1> SUFFICES NoDoubleBooking' /\ NoServiceDuringLeave' /\ \A q \in Procs : Sound(q)'
  BY <1>u, <1>f DEF SchedulingInv
<1>o. ASSUME tours' = tours, leaves' = leaves, Sound(p)'
      PROVE  NoDoubleBooking' /\ NoServiceDuringLeave' /\ \A q \in Procs : Sound(q)'
  <2>1. ASSUME NEW q \in Procs, q # p PROVE Sound(q)'
    <3>1. /\ pc'[q] = pc[q] /\ req'[q] = req[q] /\ need'[q] = need[q] /\ todo'[q] = todo[q]
          /\ \A t \in Tours : tourLock[t] = q => tourLock'[t] = q
          /\ \A g \in Guides : guideLock[g] = q => guideLock'[g] = q
      BY <1>t, <2>1, OthersUntouched
    <3> QED BY <1>o, <1>t, <3>1, StaysSound DEF SchedulingInv
  <2> QED BY <1>o, <2>1, SameBookings
<1>1. CASE Rollback(p)
  <2>1. Sound(p)' /\ tours' = tours /\ leaves' = leaves
    BY <1>1, <1>t, EndedIsSound DEF Rollback, rows
  <2> QED BY <2>1, <1>o
<1>2. CASE /\ ~Rollback(p)
           /\ \/ LockTour(p) \/ LockServiceGuide(p) \/ CheckRated(p) \/ CheckService(p)
              \/ CheckRating(p) \/ LockLeave(p) \/ LockLeaveGuide(p) \/ CheckLeaveDays(p)
              \/ LockPerson(p) \/ VetPerson(p)
  BY <1>2, <1>o, StepIsSound
<1>3. CASE CommitCreateTour(p)
  <2>1. PICK t \in Tours : t = req[p].tour
    BY <1>3, <1>t DEF CommitCreateTour, Sound, OwnsTour
  <2>2. /\ \A u \in Tours \ {t} : tours'[u] = tours[u]
        /\ tours'[t].status = "active"
        /\ tours'[t].services = NewServices(req[p].inputs)
    BY <1>3, <1>t, <2>1 DEF CommitCreateTour, TypeOK
  <2>3. pc[p] = "services" /\ todo[p] = {} /\ Finish(p) /\ leaves' = leaves
    BY <1>3 DEF CommitCreateTour
  <2>4. tours' \in [Tours -> TourRow]
    BY <1>u DEF TypeOK
  <2> QED BY <2>1, <2>2, <2>3, <2>4, SavedServices
<1>4. CASE CommitUpdateTour(p)
  <2>1. /\ pc[p] = "services" /\ todo[p] = {} /\ Finish(p) /\ leaves' = leaves
        /\ req[p].op = "updateTour"
    BY <1>4 DEF CommitUpdateTour
  <2>2. PICK t \in Tours : t = req[p].tour /\ Active(t)
    BY <1>t, <2>1 DEF Sound, OwnsTour
  <2>3. tours' = [tours EXCEPT ![t] =
                    [tours[t] EXCEPT !.services = NewServices(req[p].inputs),
                                     !.version = tours[t].version + 1]]
    BY <1>4, <2>2 DEF CommitUpdateTour
  <2>4. tours[t] \in [status : {"none", "active", "cancelled"}, version : Nat,
                      services : SUBSET Service]
    BY <1>t DEF TypeOK, TourRow
  <2>5. /\ \A u \in Tours \ {t} : tours'[u] = tours[u]
        /\ tours'[t].status = "active"
        /\ tours'[t].services = NewServices(req[p].inputs)
    BY <2>2, <2>3, <2>4, <1>t DEF TypeOK, Active
  <2>6. tours' \in [Tours -> TourRow]
    BY <1>u DEF TypeOK
  <2> QED BY <2>1, <2>2, <2>5, <2>6, SavedServices
<1>5. CASE CommitCancelTour(p)
  BY <1>5, CancelledServices
<1>6. CASE CommitLeave(p)
  BY <1>6, <1>u, SavedLeave
<1>7. CASE CommitDeleteLeaves(p)
  BY <1>7, DeletedLeaves
<1>8. CASE CommitRating(p) \/ CommitUpdateGuide(p) \/ CommitDeleteGuides(p)
  <2>1. Finish(p) /\ tours' = tours /\ leaves' = leaves
    BY <1>8 DEF CommitRating, CommitUpdateGuide, CommitDeleteGuides
  <2>2. Sound(p)'
    BY <2>1, <1>t, EndedIsSound
  <2> QED BY <2>1, <2>2, <1>o
<1> QED BY <1>1, <1>2, <1>3, <1>4, <1>5, <1>6, <1>7, <1>8 DEF Work

LEMMA RequestKeepsInv ==
  ASSUME SchedulingInv, NEW p \in Procs, Request(p)
  PROVE  SchedulingInv'
<1>t. TypeOK
  BY DEF SchedulingInv
<1>1. tours' = tours /\ leaves' = leaves
  BY ZenonT(40) DEF Request, BeginCreateTour, BeginUpdateTour, BeginCancelTour, BeginSaveRating,
     BeginCreateLeave, BeginUpdateLeave, BeginDeleteLeaves, BeginUpdateGuide,
     BeginDeleteGuides, Begin, rows
<1>2. ASSUME NEW q \in Procs, q # p
      PROVE  Sound(q)' /\ req'[q] = req[q]
  <2>1. /\ pc'[q] = pc[q] /\ req'[q] = req[q] /\ need'[q] = need[q] /\ todo'[q] = todo[q]
        /\ \A t \in Tours : tourLock[t] = q => tourLock'[t] = q
        /\ \A g \in Guides : guideLock[g] = q => guideLock'[g] = q
    BY <1>t, <1>2, OthersUntouched
  <2> QED BY <1>1, <1>t, <2>1, StaysSound DEF SchedulingInv
<1>3. Sound(p)'
  BY <1>t, BegunIsSound
<1>4. FreshToursDistinct'
  <2>1. req'[p].op = "createTour" =>
          \A q \in Procs : req[q].op = "createTour" => req[q].tour # req'[p].tour
    BY <1>t, BegunIsSound
  <2> QED BY <1>2, <2>1 DEF SchedulingInv, FreshToursDistinct
<1>5. TypeOK'
  BY <1>t, RequestKeepsType
<1> QED BY <1>1, <1>2, <1>3, <1>4, <1>5, SameBookings DEF SchedulingInv

\* The invariant: no guide has two services that share a minute, none falls into a
\* leave, and every open transaction still sees what it checked.
THEOREM SchedulingSafe == Spec => []SchedulingInv
<1>1. Init => SchedulingInv
  <2> SUFFICES ASSUME Init PROVE SchedulingInv
    OBVIOUS
  <2>1. TypeOK
    BY InitType
  <2>2. NoDoubleBooking /\ NoServiceDuringLeave
    BY DEF Init, NoDoubleBooking, NoServiceDuringLeave, Active
  <2>3. FreshToursDistinct /\ \A p \in Procs : Sound(p)
    BY DEF Init, Blank, FreshToursDistinct, Sound, StageFits, OwnsTour, OwnsGuides,
       ChecksHold
  <2> QED BY <2>1, <2>2, <2>3 DEF SchedulingInv
<1>2. SchedulingInv /\ [Next]_vars => SchedulingInv'
  <2> SUFFICES ASSUME SchedulingInv, [Next]_vars PROVE SchedulingInv'
    OBVIOUS
  <2>1. ASSUME NEW p \in Procs, Request(p) PROVE SchedulingInv'
    BY <2>1, RequestKeepsInv
  <2>2. ASSUME NEW p \in Procs, Work(p) \/ DeadlockVictim(p) \/ ConnectionLost(p)
        PROVE  SchedulingInv'
    BY <2>2, WorkKeepsInv DEF DeadlockVictim, ConnectionLost
  <2>3. CASE Tick \/ UNCHANGED vars
    <3>1. /\ tours' = tours /\ leaves' = leaves /\ pc' = pc /\ req' = req
          /\ need' = need /\ todo' = todo /\ tourLock' = tourLock
          /\ guideLock' = guideLock
      BY <2>3 DEF Tick, vars, locks
    <3>2. TypeOK'
      BY <2>3, NextType DEF SchedulingInv, Next
    <3>3. ASSUME NEW q \in Procs PROVE Sound(q)'
      BY <3>1, StaysSound DEF SchedulingInv
    <3>4. FreshToursDistinct'
      BY <3>1 DEF SchedulingInv, FreshToursDistinct
    <3> QED BY <3>1, <3>2, <3>3, <3>4, SameBookings DEF SchedulingInv
  <2> QED BY <2>1, <2>2, <2>3 DEF Next
<1> QED BY <1>1, <1>2, PTL DEF Spec

\* A guide is never booked twice for the same minute by active tours, however many
\* transactions create, update and cancel tours at the same time.
THEOREM NeverDoubleBooked == Spec => []NoDoubleBooking
<1>1. SchedulingInv => NoDoubleBooking
  BY DEF SchedulingInv
<1> QED BY <1>1, SchedulingSafe, PTL

\* No service of an active tour ever falls on a day its guide is on leave.
THEOREM NeverServesOnLeave == Spec => []NoServiceDuringLeave
<1>1. SchedulingInv => NoServiceDuringLeave
  BY DEF SchedulingInv
<1> QED BY <1>1, SchedulingSafe, PTL

-----------------------------------------------------------------------------
(* The guides of tours to come, and who may be given a service *)

\* What a transaction has found out of guides and services stays so while others work: they
\* change neither the guides nor the tour that it has locked.
LEMMA StaysAvailable ==
  ASSUME TypeOK, TypeOK', NEW q \in Procs, Sound(q), ServicesQualified(q), PersonsVetted(q),
         pc'[q] = pc[q], req'[q] = req[q], need'[q] = need[q], todo'[q] = todo[q],
         \A g \in Guides : guideLock[g] = q => guideLock'[g] = q /\ guides'[g] = guides[g],
         \A g \in Guides : guideLock[g] = q =>
            \A t \in Tours : Active(t)' =>
               \A s \in tours'[t].services : s.guide = g => Active(t) /\ s \in tours[t].services,
         pc[q] = "services" /\ req[q].op = "updateTour" =>
            tours'[req[q].tour] = tours[req[q].tour],
         now <= now'
  PROVE  ServicesQualified(q)' /\ PersonsVetted(q)'
<1>1. ServicesQualified(q)'
  <2> SUFFICES ASSUME pc[q] = "services", NEW i \in req[q].inputs \ todo[q]
               PROVE  \/ Qualified(i.new)'
                      \/ req[q].op = "updateTour" /\ i.new \in tours'[req[q].tour].services
    BY DEF ServicesQualified
  <2>1. i.new.guide \in Guides /\ guideLock[i.new.guide] = q
    BY InputGuide DEF Sound, OwnsGuides
  <2>2. Qualified(i.new) => Qualified(i.new)'
    BY <2>1 DEF Qualified
  <2>3. req[q].op = "updateTour" => tours'[req[q].tour] = tours[req[q].tour]
    OBVIOUS
  <2> QED BY <2>2, <2>3 DEF ServicesQualified
<1>2. PersonsVetted(q)'
  <2> SUFFICES ASSUME pc[q] \in {"person", "vet", "savePerson"}
               PROVE  /\ req[q].start <= now'
                      /\ pc[q] = "savePerson" => need[q] = {}
                      /\ \A g \in req[q].guides \ need[q] :
                           /\ guideLock'[g] = q
                           /\ req[q].op = "deleteGuides" \/ ~req[q].enabled =>
                                ~HasUpcoming(g, req[q].start)'
    BY DEF PersonsVetted
  <2>1. req[q].start \in Nat /\ now \in Nat /\ now' \in Nat /\ req[q].guides \subseteq Guides
    BY DEF TypeOK, RequestType
  <2>2. req[q].start <= now /\ (pc[q] = "savePerson" => need[q] = {})
    BY DEF PersonsVetted
  <2>3. req[q].start <= now'
    BY <2>1, <2>2
  <2>4. ASSUME NEW g \in req[q].guides \ need[q]
        PROVE  /\ guideLock'[g] = q
               /\ req[q].op = "deleteGuides" \/ ~req[q].enabled => ~HasUpcoming(g, req[q].start)'
    <3>1. /\ g \in Guides /\ guideLock[g] = q
          /\ req[q].op = "deleteGuides" \/ ~req[q].enabled => ~HasUpcoming(g, req[q].start)
      BY <2>1, <2>4 DEF PersonsVetted
    <3>2. HasUpcoming(g, req[q].start)' => HasUpcoming(g, req[q].start)
      BY <3>1 DEF HasUpcoming
    <3> QED BY <3>1, <3>2
  <2> QED BY <2>2, <2>3, <2>4
<1> QED BY <1>1, <1>2

\* A transaction that has ended has nothing to keep.
LEMMA EndedIsAvailable ==
  ASSUME TypeOK, NEW p \in Procs, Finish(p)
  PROVE  ServicesQualified(p)' /\ PersonsVetted(p)'
<1>1. pc'[p] = "idle"
  BY DEF Finish, Goto, TypeOK
<1> QED BY <1>1 DEF ServicesQualified, PersonsVetted

\* A request begins at the present, with every guide still to vet.
LEMMA BegunIsAvailable ==
  ASSUME TypeOK, NEW p \in Procs, Request(p)
  PROVE  ServicesQualified(p)' /\ PersonsVetted(p)'
<1>1. CASE BeginUpdateGuide(p) \/ BeginDeleteGuides(p)
  <2>1. /\ pc'[p] = "person" /\ req'[p].start = now /\ need'[p] = req'[p].guides /\ now' = now
        /\ now \in Nat
    <3>1. CASE BeginUpdateGuide(p)
      BY <3>1 DEF Begin, TypeOK, BeginUpdateGuide, Blank, rows
    <3>2. CASE BeginDeleteGuides(p)
      BY <3>2 DEF Begin, TypeOK, BeginDeleteGuides, Blank, rows
    <3> QED BY <1>1, <3>1, <3>2
  <2> QED BY <2>1 DEF ServicesQualified, PersonsVetted
<1>2. CASE ~(BeginUpdateGuide(p) \/ BeginDeleteGuides(p))
  <2>1. pc'[p] \in {"guides", "tour", "leaveGuide", "leave"}
    BY ZenonT(40), <1>2 DEF Request, BeginCreateTour, BeginUpdateTour, BeginCancelTour, BeginSaveRating,
       BeginCreateLeave, BeginUpdateLeave, BeginDeleteLeaves, Begin, TypeOK
  <2> QED BY <2>1 DEF ServicesQualified, PersonsVetted
<1> QED BY <1>1, <1>2

\* A service that is accepted has a guide who qualifies, or is one the tour has.
LEMMA AcceptedQualified ==
  ASSUME TypeOK, NEW p \in Procs, NEW i \in req[p].inputs, AcceptService(p, i)
  PROVE  \/ Qualified(i.new)
         \/ req[p].op = "updateTour" /\ i.new \in tours[req[p].tour].services
<1>1. i.new \in Service /\ i.new # NoService
  BY InputGuide, NoServiceAssumption
<1> QED BY <1>1 DEF AcceptService, Retained

\* The steps before a commit establish what they check.
LEMMA StepIsAvailable ==
  ASSUME SchedulingInv, AvailabilityInv, NEW p \in Procs, ~Rollback(p),
         \/ LockTour(p) \/ LockServiceGuide(p) \/ CheckRated(p) \/ CheckService(p)
         \/ CheckRating(p) \/ LockLeave(p) \/ LockLeaveGuide(p) \/ CheckLeaveDays(p)
         \/ LockPerson(p) \/ VetPerson(p)
  PROVE  ServicesQualified(p)' /\ PersonsVetted(p)' /\ UNCHANGED <<guides, now>>
<1> USE DEF Goto, rows, locks
<1>0. TypeOK /\ Sound(p) /\ ServicesQualified(p) /\ PersonsVetted(p)
  BY DEF SchedulingInv, AvailabilityInv
<1>1. CASE \/ LockTour(p) \/ LockServiceGuide(p) \/ CheckRating(p) \/ LockLeave(p)
           \/ LockLeaveGuide(p) \/ CheckLeaveDays(p)
  <2>1. pc'[p] \in {"rating", "guides", "saveRating", "leave", "leaveGuide", "leaveDays", "saveLeave"}
        /\ UNCHANGED <<guides, now>>
    BY <1>0, <1>1 DEF LockTour, LockServiceGuide, CheckRating, LockLeave, LockLeaveGuide,
       CheckLeaveDays, TakeGuide, TypeOK
  <2> QED BY <2>1 DEF ServicesQualified, PersonsVetted
<1>2. CASE CheckRated(p)
  <2>1. /\ pc[p] = "guides" /\ pc'[p] = "services" /\ todo' = todo /\ req' = req
        /\ UNCHANGED <<guides, now>>
    BY <1>0, <1>2 DEF CheckRated, TypeOK
  <2>2. req'[p].inputs \ todo'[p] = {}
    BY <1>0, <2>1 DEF Sound, StageFits
  <2> QED BY <2>1, <2>2 DEF ServicesQualified, PersonsVetted
<1>3. CASE CheckService(p)
  <2>1. PICK i \in todo[p] :
          /\ AcceptService(p, i)
          /\ todo' = [todo EXCEPT ![p] = todo[p] \ {i}]
          /\ pc' = pc /\ req' = req /\ UNCHANGED <<tours, guides, now>>
    BY <1>3 DEF CheckService
  <2>2. pc[p] = "services" /\ todo'[p] = todo[p] \ {i}
    BY <1>0, <1>3, <2>1 DEF CheckService, TypeOK
  <2>3. \A j \in req[p].inputs \ todo'[p] :
           \/ Qualified(j.new)
           \/ req[p].op = "updateTour" /\ j.new \in tours[req[p].tour].services
    BY <1>0, <2>1, <2>2, AcceptedQualified DEF ServicesQualified
  <2> QED BY <2>1, <2>2, <2>3 DEF ServicesQualified, PersonsVetted, Qualified
<1>4. CASE LockPerson(p)
  <2>1. PICK g \in Guides : TakeGuide(p, g) /\ Goto(p, "vet") /\ UNCHANGED need
    BY <1>4 DEF LockPerson
  <2>2. /\ pc[p] = "person" /\ pc'[p] = "vet" /\ g \in need[p] /\ UNCHANGED <<tours, guides, now, req, need>>
        /\ \A h \in Guides : guideLock[h] = p => guideLock'[h] = p
    BY <1>0, <1>4, <2>1 DEF LockPerson, TakeGuide, TypeOK
  <2>3. req[p].guides \subseteq Guides
    BY <1>0 DEF TypeOK, RequestType
  <2> QED BY <1>0, <2>2, <2>3 DEF ServicesQualified, PersonsVetted, HasUpcoming, Active
<1>5. CASE VetPerson(p)
  <2>1. PICK g \in need[p] :
          /\ guideLock[g] = p
          /\ ~((req[p].op = "deleteGuides" \/ ~req[p].enabled) /\ HasUpcoming(g, req[p].start))
          /\ need' = [need EXCEPT ![p] = need[p] \ {g}]
          /\ Goto(p, IF need[p] = {g} THEN "savePerson" ELSE "person")
          /\ UNCHANGED <<tours, guides, now, req, todo, guideLock>>
    BY <1>5 DEF VetPerson
  <2>2. /\ pc[p] = "vet" /\ need'[p] = need[p] \ {g}
        /\ pc'[p] = IF need[p] = {g} THEN "savePerson" ELSE "person"
    BY <1>0, <1>5, <2>1 DEF VetPerson, TypeOK
  <2>3. pc'[p] = "savePerson" => need'[p] = {}
    BY <2>2
  <2>4. \A h \in req[p].guides \ need'[p] :
           /\ guideLock[h] = p
           /\ req[p].op = "deleteGuides" \/ ~req[p].enabled => ~HasUpcoming(h, req[p].start)
    BY <1>0, <2>1, <2>2 DEF PersonsVetted
  <2>5. req[p].start <= now
    BY <1>0, <2>2 DEF PersonsVetted
  <2> QED BY <2>1, <2>2, <2>3, <2>4, <2>5 DEF ServicesQualified, PersonsVetted, HasUpcoming, Active
<1> QED BY <1>1, <1>2, <1>3, <1>4, <1>5

\* Every service that a transaction has checked and that is not over has its guide available.
LEMMA CheckedAvailable ==
  ASSUME SchedulingInv, AvailabilityInv, NEW p \in Procs, pc[p] = "services", todo[p] = {},
         NEW s \in NewServices(req[p].inputs)
  PROVE  /\ s.guide \in Guides /\ guideLock[s.guide] = p
         /\ s.to >= now => guides[s.guide].enabled /\ ~guides[s.guide].deleted
<1>1. PICK i \in req[p].inputs : s = i.new
  BY DEF NewServices
<1>2. s.guide \in Guides /\ guideLock[s.guide] = p
  BY <1>1, InputGuide DEF SchedulingInv, Sound, OwnsGuides
<1>3. CASE Qualified(s)
  BY <1>2, <1>3 DEF Qualified
<1>4. CASE ~Qualified(s)
  <2>1. req[p].op = "updateTour" /\ s \in tours[req[p].tour].services
    BY <1>1, <1>4 DEF AvailabilityInv, ServicesQualified
  <2>2. req[p].tour \in Tours /\ Active(req[p].tour)
    BY <2>1 DEF SchedulingInv, Sound, OwnsTour
  <2> QED BY <1>2, <2>1, <2>2 DEF AvailabilityInv, UpcomingGuideAvailable
<1> QED BY <1>3, <1>4

\* The commit of a tour: its services have been checked, and their guides are locked.
LEMMA TourCommitKeeps ==
  ASSUME SchedulingInv, SchedulingInv', AvailabilityInv, NEW p \in Procs,
         CommitCreateTour(p) \/ CommitUpdateTour(p) \/ CommitCancelTour(p)
  PROVE  AvailabilityInv'
<1>0. TypeOK /\ TypeOK' /\ Sound(p)
  BY DEF SchedulingInv
<1>1. Finish(p) /\ UNCHANGED <<guides, now>>
  BY DEF CommitCreateTour, CommitUpdateTour, CommitCancelTour
<1>2. ASSUME NEW t \in Tours, Active(t)', NEW s \in tours'[t].services
      PROVE  \/ Active(t) /\ s \in tours[t].services
             \/ /\ pc[p] = "services" /\ todo[p] = {}
                /\ s \in NewServices(req[p].inputs)
  <2>1. CASE CommitCreateTour(p)
    BY <1>0, <1>2, <2>1 DEF CommitCreateTour, TypeOK, Active
  <2>2. CASE CommitUpdateTour(p)
    <3>1. tours[t] \in TourRow
      BY <1>0 DEF TypeOK
    <3> QED BY <1>0, <1>2, <2>2, <3>1 DEF CommitUpdateTour, TypeOK, TourRow, Active
  <2>3. CASE CommitCancelTour(p)
    <3>1. tours[t] \in TourRow
      BY <1>0 DEF TypeOK
    <3> QED BY <1>0, <1>2, <2>3, <3>1 DEF CommitCancelTour, Cancelled, TypeOK, TourRow, Active
  <2> QED BY <2>1, <2>2, <2>3
<1>3. UpcomingGuideAvailable'
  <2> SUFFICES ASSUME NEW t \in Tours, Active(t)', NEW s \in tours'[t].services, s.to >= now
               PROVE  guides[s.guide].enabled /\ ~guides[s.guide].deleted
    BY <1>1 DEF UpcomingGuideAvailable
  <2>1. CASE Active(t) /\ s \in tours[t].services
    BY <2>1 DEF AvailabilityInv, UpcomingGuideAvailable
  <2>2. CASE ~(Active(t) /\ s \in tours[t].services)
    BY <1>2, <2>2, CheckedAvailable
  <2> QED BY <2>1, <2>2
<1>4. ASSUME NEW q \in Procs, q # p
      PROVE  ServicesQualified(q)' /\ PersonsVetted(q)'
  <2>1. Sound(q) /\ ServicesQualified(q) /\ PersonsVetted(q)
    BY DEF SchedulingInv, AvailabilityInv
  <2>2. /\ pc'[q] = pc[q] /\ req'[q] = req[q] /\ need'[q] = need[q] /\ todo'[q] = todo[q]
        /\ \A h \in Guides : guideLock[h] = q => guideLock'[h] = q
    BY <1>0, <1>1, <1>4, NoOneAssumption DEF Finish, Goto, Unlocked, TypeOK
  <2>3. ASSUME NEW g \in Guides, guideLock[g] = q, NEW t \in Tours, Active(t)',
               NEW s \in tours'[t].services, s.guide = g
        PROVE  Active(t) /\ s \in tours[t].services
    BY <1>2, <1>4, <2>3, CheckedAvailable
  <2>4. ASSUME pc[q] = "services", req[q].op = "updateTour"
        PROVE  tours'[req[q].tour] = tours[req[q].tour]
    <3>1. pc[p] \in {"guides", "services"}
      BY DEF CommitCreateTour, CommitUpdateTour, CommitCancelTour
    <3>2. req[q].tour \in Tours /\ req[q].tour # req[p].tour
      BY <1>4, <2>1, <2>4, <3>1, TourLocksExclude DEF Sound, OwnsTour
    <3> QED BY <1>0, <3>2 DEF CommitCreateTour, CommitUpdateTour, CommitCancelTour, TypeOK
  <2>5. now <= now'
    BY <1>0, <1>1 DEF TypeOK
  <2> QED BY <1>0, <1>1, <2>1, <2>2, <2>3, <2>4, <2>5, StaysAvailable
<1>5. ServicesQualified(p)' /\ PersonsVetted(p)'
  BY <1>0, <1>1, EndedIsAvailable
<1> QED BY <1>3, <1>4, <1>5 DEF AvailabilityInv

\* The commit of a guide: a guide who is disabled or deleted has no upcoming services.
LEMMA GuideCommitKeeps ==
  ASSUME SchedulingInv, SchedulingInv', AvailabilityInv, NEW p \in Procs,
         CommitUpdateGuide(p) \/ CommitDeleteGuides(p)
  PROVE  AvailabilityInv'
<1>0. TypeOK /\ TypeOK' /\ PersonsVetted(p)
  BY DEF SchedulingInv, AvailabilityInv
<1>1. Finish(p) /\ UNCHANGED <<tours, now>> /\ pc[p] = "savePerson"
  BY DEF CommitUpdateGuide, CommitDeleteGuides
<1>2. /\ req[p].start \in Nat /\ now \in Nat /\ req[p].start <= now
      /\ req[p].guides \subseteq Guides
  BY <1>0, <1>1 DEF PersonsVetted, TypeOK, RequestType
<1>3. \A g \in req[p].guides :
         /\ guideLock[g] = p
         /\ req[p].op = "deleteGuides" \/ ~req[p].enabled => ~HasUpcoming(g, req[p].start)
  BY <1>0, <1>1 DEF PersonsVetted
<1>4. ASSUME NEW g \in Guides, guides'[g] # guides[g]
      PROVE  /\ g \in req[p].guides
             /\ \/ guides'[g].enabled /\ guides'[g].deleted = guides[g].deleted
                \/ req[p].op = "deleteGuides" \/ ~req[p].enabled
  <2>1. guides[g] \in GuideRow
    BY <1>0 DEF TypeOK
  <2>2. CASE CommitUpdateGuide(p)
    <3>1. PICK h \in req[p].guides, bump \in {0, 1} :
             guides' = [guides EXCEPT ![h] = [guides[h] EXCEPT !.enabled = req[p].enabled,
                                                               !.lang = req[p].lang,
                                                               !.version = guides[h].version + bump]]
      BY <2>2 DEF CommitUpdateGuide
    <3>2. g = h
      BY <1>0, <1>4, <3>1 DEF TypeOK
    <3> PICK row, v, on, lang : row = guides[g] /\ v = guides[g].version + bump
                               /\ on = req[p].enabled /\ lang = req[p].lang
      OBVIOUS
    <3>3. guides'[g] = [row EXCEPT !.enabled = on, !.lang = lang, !.version = v]
      BY <1>0, <3>1, <3>2 DEF TypeOK
    <3>4. on \in BOOLEAN
      BY <1>0 DEF TypeOK, RequestType
    <3>5. guides'[g].enabled = on /\ guides'[g].deleted = guides[g].deleted
      BY <2>1, <3>3 DEF GuideRow
    <3> QED BY <3>2, <3>4, <3>5
  <2>3. CASE CommitDeleteGuides(p)
    BY <1>0, <1>4, <2>3 DEF CommitDeleteGuides, TypeOK
  <2> QED BY <2>2, <2>3
<1>5. UpcomingGuideAvailable'
  <2> SUFFICES ASSUME NEW t \in Tours, Active(t), NEW s \in tours[t].services, s.to >= now
               PROVE  guides'[s.guide].enabled /\ ~guides'[s.guide].deleted
    BY <1>1 DEF UpcomingGuideAvailable, Active
  <2>1. s.guide \in Guides /\ s.to \in Nat
    BY <1>0 DEF TypeOK, TourRow, Service
  <2>2. guides[s.guide].enabled /\ ~guides[s.guide].deleted
    BY DEF AvailabilityInv, UpcomingGuideAvailable
  <2>3. CASE guides'[s.guide] = guides[s.guide]
    BY <2>2, <2>3
  <2>4. CASE guides'[s.guide] # guides[s.guide]
    <3>1. HasUpcoming(s.guide, req[p].start)
      <4>1. s.to >= req[p].start
        BY <1>2, <2>1
      <4> QED BY <4>1 DEF HasUpcoming
    <3> QED BY <1>3, <1>4, <2>1, <2>2, <2>4, <3>1
  <2> QED BY <2>3, <2>4
<1>6. ASSUME NEW q \in Procs, q # p
      PROVE  ServicesQualified(q)' /\ PersonsVetted(q)'
  <2>1. Sound(q) /\ ServicesQualified(q) /\ PersonsVetted(q)
    BY DEF SchedulingInv, AvailabilityInv
  <2>2. /\ pc'[q] = pc[q] /\ req'[q] = req[q] /\ need'[q] = need[q] /\ todo'[q] = todo[q]
        /\ \A h \in Guides : guideLock[h] = q => guideLock'[h] = q
    BY <1>0, <1>1, <1>6, NoOneAssumption DEF Finish, Goto, Unlocked, TypeOK
  <2>3. \A g \in Guides : guideLock[g] = q => guides'[g] = guides[g]
    BY <1>3, <1>4, <1>6
  <2>4. now <= now'
    BY <1>1, <1>2
  <2> QED BY <1>0, <1>1, <2>1, <2>2, <2>3, <2>4, StaysAvailable DEF Active
<1>7. ServicesQualified(p)' /\ PersonsVetted(p)'
  BY <1>0, <1>1, EndedIsAvailable
<1> QED BY <1>5, <1>6, <1>7 DEF AvailabilityInv

\* Steps that write neither tours nor guides.
LEMMA OtherStepsKeep ==
  ASSUME SchedulingInv, SchedulingInv', AvailabilityInv, NEW p \in Procs,
         Request(p) \/ Work(p) \/ Rollback(p),
         ServicesQualified(p)' /\ PersonsVetted(p)', UNCHANGED <<tours, guides, now>>
  PROVE  AvailabilityInv'
<1>0. TypeOK /\ TypeOK' /\ now <= now'
  BY DEF SchedulingInv, TypeOK
<1>1. UpcomingGuideAvailable'
  BY DEF AvailabilityInv, UpcomingGuideAvailable, Active
<1>2. ASSUME NEW q \in Procs, q # p
      PROVE  ServicesQualified(q)' /\ PersonsVetted(q)'
  <2>1. Sound(q) /\ ServicesQualified(q) /\ PersonsVetted(q)
    BY DEF SchedulingInv, AvailabilityInv
  <2>2. /\ pc'[q] = pc[q] /\ req'[q] = req[q] /\ need'[q] = need[q] /\ todo'[q] = todo[q]
        /\ \A g \in Guides : guideLock[g] = q => guideLock'[g] = q
    BY <1>0, <1>2, OthersUntouched
  <2> QED BY <1>0, <2>1, <2>2, StaysAvailable DEF Active
<1> QED BY <1>1, <1>2 DEF AvailabilityInv

\* Every step keeps the invariant.
LEMMA StepKeepsAvailable ==
  ASSUME SchedulingInv, SchedulingInv', AvailabilityInv, [Next]_vars
  PROVE  AvailabilityInv'
<1>0. TypeOK /\ TypeOK'
  BY DEF SchedulingInv
<1>1. ASSUME NEW p \in Procs, Request(p) PROVE AvailabilityInv'
  <2>1. UNCHANGED <<tours, guides, now>>
    BY ZenonT(40), <1>1 DEF Request, BeginCreateTour, BeginUpdateTour, BeginCancelTour, BeginSaveRating,
       BeginCreateLeave, BeginUpdateLeave, BeginDeleteLeaves, BeginUpdateGuide,
       BeginDeleteGuides, Begin, rows
  <2> QED BY <1>0, <1>1, <2>1, BegunIsAvailable, OtherStepsKeep
<1>2. ASSUME NEW p \in Procs, Rollback(p) PROVE AvailabilityInv'
  <2>1. Finish(p) /\ UNCHANGED <<tours, guides, now>>
    BY <1>2 DEF Rollback, rows
  <2> QED BY <1>0, <1>2, <2>1, EndedIsAvailable, OtherStepsKeep
<1>3. ASSUME NEW p \in Procs, Work(p), ~Rollback(p) PROVE AvailabilityInv'
  <2>1. CASE CommitCreateTour(p) \/ CommitUpdateTour(p) \/ CommitCancelTour(p)
    BY <2>1, TourCommitKeeps
  <2>2. CASE CommitUpdateGuide(p) \/ CommitDeleteGuides(p)
    BY <2>2, GuideCommitKeeps
  <2>3. CASE CommitRating(p) \/ CommitLeave(p) \/ CommitDeleteLeaves(p)
    <3>1. Finish(p) /\ UNCHANGED <<tours, guides, now>>
      BY <2>3 DEF CommitRating, CommitLeave, CommitDeleteLeaves
    <3> QED BY <1>0, <1>3, <3>1, EndedIsAvailable, OtherStepsKeep
  <2>4. CASE \/ LockTour(p) \/ LockServiceGuide(p) \/ CheckRated(p) \/ CheckService(p)
             \/ CheckRating(p) \/ LockLeave(p) \/ LockLeaveGuide(p) \/ CheckLeaveDays(p)
             \/ LockPerson(p) \/ VetPerson(p)
    BY <1>3, <2>4, StepIsSound, StepIsAvailable, OtherStepsKeep
  <2> QED BY <1>3, <2>1, <2>2, <2>3, <2>4 DEF Work
<1>4. CASE Tick \/ UNCHANGED vars
  <2>1. /\ UNCHANGED <<tours, guides, pc, req, need, todo, guideLock>>
        /\ now' \in Nat /\ now \in Nat /\ now <= now'
    BY <1>0, <1>4, TimesAssumption DEF Tick, vars, locks, TypeOK
  <2>2. UpcomingGuideAvailable'
    <3> SUFFICES ASSUME NEW t \in Tours, Active(t), NEW s \in tours[t].services, s.to >= now'
                 PROVE  guides[s.guide].enabled /\ ~guides[s.guide].deleted
      BY <2>1 DEF UpcomingGuideAvailable, Active
    <3>1. s.to \in Nat
      BY <1>0 DEF TypeOK, TourRow, Service
    <3>2. s.to >= now
      BY <2>1, <3>1
    <3> QED BY <3>2 DEF AvailabilityInv, UpcomingGuideAvailable
  <2>3. ASSUME NEW q \in Procs PROVE ServicesQualified(q)' /\ PersonsVetted(q)'
    BY <1>0, <2>1, <2>3, StaysAvailable DEF SchedulingInv, AvailabilityInv, Active
  <2> QED BY <2>2, <2>3 DEF AvailabilityInv
<1> QED BY <1>1, <1>2, <1>3, <1>4 DEF Next, DeadlockVictim, ConnectionLost

\* The invariant: whoever changes a guide or a tour holds the rows that what it has found
\* depends on.
THEOREM AvailabilitySafe == Spec => []AvailabilityInv
<1>1. Init => AvailabilityInv
  BY DEF Init, AvailabilityInv, UpcomingGuideAvailable, Active, ServicesQualified, PersonsVetted
<1>2. SchedulingInv /\ SchedulingInv' /\ AvailabilityInv /\ [Next]_vars => AvailabilityInv'
  BY StepKeepsAvailable
<1> QED BY <1>1, <1>2, SchedulingSafe, PTL DEF Spec

\* A service of an active tour that is not over has a guide who is enabled and not deleted,
\* although scheduling, disabling and deleting check each other's tables in different
\* transactions (prepareGuideServices, assertNoUpcomingTours).
THEOREM UpcomingGuidesStayAvailable == Spec => []UpcomingGuideAvailable
<1>1. AvailabilityInv => UpcomingGuideAvailable
  BY DEF AvailabilityInv
<1> QED BY <1>1, AvailabilitySafe, PTL

\* A guide is enabled, not deleted and of the language at the moment his service is committed.
THEOREM AssignedGuidesQualify == Spec => AssignedGuideQualified
<1>1. ASSUME SchedulingInv, AvailabilityInv, [Next]_vars, NEW t \in Tours,
             NEW s \in tours'[t].services \ tours[t].services
      PROVE  /\ guides[s.guide].enabled /\ ~guides[s.guide].deleted
             /\ guides[s.guide].lang = s.lang
  <2>0. TypeOK /\ tours[t] \in TourRow
    BY <1>1 DEF SchedulingInv, TypeOK
  <2>1. PICK p \in Procs : CommitCreateTour(p) \/ CommitUpdateTour(p)
    <3>1. ASSUME NEW p \in Procs, Request(p) PROVE tours' = tours
      BY ZenonT(40), <3>1 DEF Request, BeginCreateTour, BeginUpdateTour, BeginCancelTour, BeginSaveRating,
         BeginCreateLeave, BeginUpdateLeave, BeginDeleteLeaves, BeginUpdateGuide,
         BeginDeleteGuides, Begin, rows
    <3>2. ASSUME NEW p \in Procs, Rollback(p) PROVE tours' = tours
      BY <3>2 DEF Rollback, rows
    <3>3. ASSUME NEW p \in Procs, CommitCancelTour(p)
          PROVE  tours'[t].services = tours[t].services
      BY <2>0, <3>3 DEF CommitCancelTour, Cancelled, TypeOK, TourRow
    <3>4. ASSUME NEW p \in Procs, Work(p), ~CommitCreateTour(p), ~CommitUpdateTour(p), ~Rollback(p),
                 ~CommitCancelTour(p)
          PROVE  tours' = tours
      <4>1. CASE \/ CommitRating(p) \/ CommitLeave(p) \/ CommitDeleteLeaves(p)
                 \/ CommitUpdateGuide(p) \/ CommitDeleteGuides(p)
        BY <4>1 DEF CommitRating, CommitLeave, CommitDeleteLeaves, CommitUpdateGuide, CommitDeleteGuides
      <4>2. CASE \/ LockTour(p) \/ LockServiceGuide(p) \/ CheckRated(p) \/ CheckService(p)
                 \/ CheckRating(p) \/ LockLeave(p) \/ LockLeaveGuide(p) \/ CheckLeaveDays(p)
                 \/ LockPerson(p) \/ VetPerson(p)
        BY <1>1, <3>4, <4>2, StepIsSound
      <4> QED BY <3>4, <4>1, <4>2 DEF Work
    <3>5. CASE Tick \/ UNCHANGED vars
      BY <1>1, <3>5 DEF Tick, vars
    <3> QED BY <1>1, <3>1, <3>2, <3>3, <3>4, <3>5 DEF Next, DeadlockVictim, ConnectionLost
  <2>2. pc[p] = "services" /\ todo[p] = {}
    BY <2>1 DEF CommitCreateTour, CommitUpdateTour
  <2>3. t = req[p].tour /\ s \in NewServices(req[p].inputs)
    <3>1. t = req[p].tour
      BY <1>1, <2>0, <2>1 DEF CommitCreateTour, CommitUpdateTour, TypeOK
    <3>2. CASE CommitCreateTour(p)
      BY <1>1, <2>0, <3>1, <3>2 DEF CommitCreateTour, TypeOK
    <3>3. CASE CommitUpdateTour(p)
      BY <1>1, <2>0, <3>1, <3>3 DEF CommitUpdateTour, TypeOK, TourRow
    <3> QED BY <2>1, <3>1, <3>2, <3>3
  <2>4. PICK i \in req[p].inputs : s = i.new
    BY <2>3 DEF NewServices
  <2> QED BY <1>1, <2>2, <2>3, <2>4 DEF AvailabilityInv, ServicesQualified, Qualified
<1>2. SchedulingInv /\ AvailabilityInv /\ [Next]_vars =>
        \A t \in Tours : \A s \in tours'[t].services \ tours[t].services :
          /\ guides[s.guide].enabled /\ ~guides[s.guide].deleted
          /\ guides[s.guide].lang = s.lang
  BY <1>1
<1> QED BY <1>2, SchedulingSafe, AvailabilitySafe, PTL DEF Spec, AssignedGuideQualified

-----------------------------------------------------------------------------
(* Updates of tours by transactions that read them before the lock *)

\* What a transaction knows of its tour stays so while others work.
LEMMA StaysKnown ==
  ASSUME TypeOK, TypeOK', NEW q \in Procs, Sound(q), EditKnown(q),
         pc'[q] = pc[q], req'[q] = req[q],
         \A t \in Tours : tourLock[t] = q => tourLock'[t] = q /\ ratings'[t] = ratings[t],
         \A t \in Tours : tours[t].status # "none" =>
            \/ tours'[t] = tours[t]
            \/ /\ tourLock[t] # q /\ tours'[t].status # "none"
               /\ tours'[t].version = tours[t].version + 1
  PROVE  EditKnown(q)'
<1>1. ASSUME req[q].op \in {"updateTour", "cancelTour"}
      PROVE  \E t \in Tours :
               /\ t = req[q].tour /\ tours'[t].status # "none"
               /\ req[q].version <= tours'[t].version
               /\ req[q].version = tours'[t].version => req[q].seen = tours'[t].services
               /\ pc[q] \in {"guides", "services"} => req[q].version = tours'[t].version
  <2>1. PICK t \in Tours : /\ t = req[q].tour /\ tours[t].status # "none"
                           /\ req[q].version <= tours[t].version
                           /\ req[q].version = tours[t].version => req[q].seen = tours[t].services
                           /\ pc[q] \in {"guides", "services"} => req[q].version = tours[t].version
    BY <1>1 DEF EditKnown
  <2>2. req[q].version \in Nat /\ tours[t].version \in Nat
    BY DEF TypeOK, RequestType, TourRow
  <2>3. CASE tours'[t] = tours[t]
    BY <2>1, <2>3
  <2>4. CASE tours'[t] # tours[t]
    <3>1. tourLock[t] # q /\ tours'[t].status # "none" /\ tours'[t].version = tours[t].version + 1
      BY <2>1, <2>4
    <3>2. pc[q] \notin {"guides", "services"}
      BY <1>1, <2>1, <3>1 DEF Sound, OwnsTour
    <3> QED BY <2>1, <2>2, <3>1, <3>2
  <2> QED BY <2>3, <2>4
<1>2. ASSUME pc[q] = "services" PROVE DropsNoScore(q)'
  <2>1. DropsNoScore(q)
    BY <1>2 DEF EditKnown
  <2>2. req[q].op = "updateTour" => ratings'[req[q].tour] = ratings[req[q].tour]
    BY <1>2 DEF Sound, OwnsTour
  <2> QED BY <2>1, <2>2 DEF DropsNoScore
<1>3. pc[q] \in {"rating", "saveRating"} =>
        /\ req[q].op = "saveRating"
        /\ \E t \in Tours :
             /\ t = req[q].tour /\ tourLock'[t] = q /\ tours'[t].status # "none"
             /\ pc[q] = "saveRating" => req[q].guides \subseteq GuidesOf(tours'[t].services)
  <2>1. ASSUME pc[q] \in {"rating", "saveRating"}
        PROVE  \E t \in Tours : /\ t = req[q].tour /\ tourLock[t] = q /\ tours[t].status # "none"
                                /\ pc[q] = "saveRating" =>
                                     req[q].guides \subseteq GuidesOf(tours[t].services)
    BY <2>1 DEF EditKnown
  <2> QED BY <2>1 DEF EditKnown
<1>4. \A t \in Tours : GuidesOf(tours[t].services)' = GuidesOf(tours'[t].services)
  BY DEF GuidesOf
<1>5. req[q].op = "saveRating" => \E g \in Guides : req[q].guides = {g}
  BY DEF EditKnown
<1> QED BY <1>1, <1>2, <1>3, <1>4, <1>5 DEF EditKnown

\* A transaction that has ended knows nothing.
LEMMA EndedIsKnown ==
  ASSUME TypeOK, NEW p \in Procs, Finish(p)
  PROVE  EditKnown(p)'
<1>1. pc'[p] = "idle" /\ req'[p].op = "none"
  BY DEF Finish, Goto, TypeOK, Blank
<1> QED BY <1>1 DEF EditKnown

\* A client sends the version and has seen the services of the same row.
LEMMA BegunIsKnown ==
  ASSUME TypeOK, NEW p \in Procs, Request(p)
  PROVE  EditKnown(p)'
<1>1. CASE BeginUpdateTour(p) \/ BeginCancelTour(p)
  <2>1. PICK t \in Tours : /\ tours[t].status # "none" /\ tours' = tours /\ pc'[p] = "tour"
                           /\ req'[p].tour = t /\ req'[p].version = tours[t].version
                           /\ req'[p].seen = tours[t].services
                           /\ req'[p].op \in {"updateTour", "cancelTour"}
    <3>1. CASE BeginUpdateTour(p)
      BY <3>1 DEF BeginUpdateTour, Begin, TypeOK, Blank, rows
    <3>2. CASE BeginCancelTour(p)
      BY <3>2 DEF BeginCancelTour, Begin, TypeOK, Blank, rows
    <3> QED BY <1>1, <3>1, <3>2
  <2>2. tours[t].version \in Nat
    BY DEF TypeOK, TourRow
  <2> QED BY <2>1, <2>2 DEF EditKnown
<1>2. CASE BeginCreateTour(p) \/ BeginSaveRating(p)
  <2>1. /\ pc'[p] \in {"guides", "tour"} /\ req'[p].op \in {"createTour", "saveRating"}
        /\ req'[p].op = "saveRating" => \E g \in Guides : req'[p].guides = {g}
    <3>1. CASE BeginCreateTour(p)
      BY <3>1 DEF BeginCreateTour, Begin, TypeOK, Blank
    <3>2. CASE BeginSaveRating(p)
      <4>1. PICK g \in Guides : pc'[p] = "tour" /\ req'[p].op = "saveRating" /\ req'[p].guides = {g}
        BY <3>2 DEF BeginSaveRating, Begin, TypeOK, Blank
      <4> QED BY <4>1
    <3> QED BY <1>2, <3>1, <3>2
  <2> QED BY <2>1 DEF EditKnown
<1>3. CASE BeginCreateLeave(p) \/ BeginUpdateLeave(p) \/ BeginDeleteLeaves(p)
  <2>1. pc'[p] \in {"leave", "leaveGuide"} /\ req'[p].op \in {"createLeave", "updateLeave", "deleteLeaves"}
    <3>1. CASE BeginCreateLeave(p)
      BY <3>1 DEF BeginCreateLeave, Begin, TypeOK, Blank
    <3>2. CASE BeginUpdateLeave(p)
      BY <3>2 DEF BeginUpdateLeave, Begin, TypeOK, Blank
    <3>3. CASE BeginDeleteLeaves(p)
      BY <3>3 DEF BeginDeleteLeaves, Begin, TypeOK, Blank
    <3> QED BY <1>3, <3>1, <3>2, <3>3
  <2> QED BY <2>1 DEF EditKnown
<1>4. CASE BeginUpdateGuide(p) \/ BeginDeleteGuides(p)
  <2>1. pc'[p] = "person" /\ req'[p].op \in {"updateGuide", "deleteGuides"}
    <3>1. CASE BeginUpdateGuide(p)
      BY <3>1 DEF BeginUpdateGuide, Begin, TypeOK, Blank
    <3>2. CASE BeginDeleteGuides(p)
      BY <3>2 DEF BeginDeleteGuides, Begin, TypeOK, Blank
    <3> QED BY <1>4, <3>1, <3>2
  <2> QED BY <2>1 DEF EditKnown
<1> QED BY <1>1, <1>2, <1>3, <1>4 DEF Request

\* The steps before a commit establish what they check.
LEMMA StepIsKnown ==
  ASSUME SchedulingInv, EditsKnown, NEW p \in Procs, ~Rollback(p),
         \/ LockTour(p) \/ LockServiceGuide(p) \/ CheckRated(p) \/ CheckService(p)
         \/ CheckRating(p) \/ LockLeave(p) \/ LockLeaveGuide(p) \/ CheckLeaveDays(p)
         \/ LockPerson(p) \/ VetPerson(p)
  PROVE  EditKnown(p)' /\ UNCHANGED ratings
<1> USE DEF Goto, rows, locks
<1>0. TypeOK /\ Sound(p) /\ EditKnown(p) /\ tours' = tours /\ req' = req
  BY StepIsSound DEF SchedulingInv, EditsKnown
<1>1. CASE LockTour(p)
  <2>1. PICK t \in Tours : /\ t = req[p].tour /\ Editable(p, t) /\ tourLock'[t] = p
                           /\ req[p].op = "saveRating" => pc'[p] = "rating"
                           /\ req[p].op # "saveRating" => pc'[p] = "guides"
                           /\ UNCHANGED ratings
    BY <1>0, <1>1 DEF LockTour, TypeOK
  <2>2. tours'[t].status # "none" /\ pc'[p] # "saveRating" /\ pc'[p] # "services"
    BY <1>0, <2>1 DEF Editable, Active
  <2> QED BY <1>0, <2>1, <2>2 DEF EditKnown, Editable
<1>2. CASE CheckRated(p)
  <2>1. pc[p] = "guides" /\ pc'[p] = "services" /\ DropsNoScore(p) /\ UNCHANGED ratings
    BY <1>0, <1>2 DEF CheckRated, TypeOK
  <2>2. DropsNoScore(p)'
    BY <1>0, <2>1 DEF DropsNoScore
  <2> QED BY <1>0, <2>1, <2>2 DEF EditKnown
<1>3. CASE LockServiceGuide(p) \/ CheckService(p)
  <2>1. pc'[p] = pc[p] /\ pc[p] \in {"guides", "services"} /\ UNCHANGED ratings
    BY <1>0, <1>3 DEF LockServiceGuide, TakeGuide, CheckService
  <2>2. pc[p] = "services" => DropsNoScore(p)'
    BY <1>0, <2>1 DEF DropsNoScore, EditKnown
  <2> QED BY <1>0, <2>1, <2>2 DEF EditKnown
<1>4. CASE CheckRating(p)
  <2>1. /\ pc[p] = "rating" /\ pc'[p] = "saveRating" /\ UNCHANGED <<ratings, tourLock>>
        /\ \E g \in req[p].guides : g \in GuidesOf(tours[req[p].tour].services)
    BY <1>0, <1>4 DEF CheckRating, TypeOK
  <2>2. req[p].guides \subseteq GuidesOf(tours[req[p].tour].services)
    BY <1>0, <2>1 DEF EditKnown
  <2> QED BY <1>0, <2>1, <2>2 DEF EditKnown, GuidesOf
<1>5. CASE \/ LockLeave(p) \/ LockLeaveGuide(p) \/ CheckLeaveDays(p)
           \/ LockPerson(p) \/ VetPerson(p)
  <2>1. /\ pc'[p] \in {"leave", "leaveGuide", "leaveDays", "saveLeave", "person", "vet", "savePerson"}
        /\ UNCHANGED ratings
    BY <1>0, <1>5 DEF LockLeave, LockLeaveGuide, TakeGuide, CheckLeaveDays, LockPerson, VetPerson, TypeOK
  <2> QED BY <1>0, <2>1 DEF EditKnown
<1> QED BY <1>1, <1>2, <1>3, <1>4, <1>5

\* What a commit changes of tours and ratings: it holds the lock of an edited or rated tour.
LEMMA CommitWrites ==
  ASSUME SchedulingInv, EditsKnown, NEW p \in Procs,
         \/ CommitCreateTour(p) \/ CommitUpdateTour(p) \/ CommitCancelTour(p) \/ CommitRating(p)
         \/ CommitLeave(p) \/ CommitDeleteLeaves(p) \/ CommitUpdateGuide(p) \/ CommitDeleteGuides(p)
  PROVE  /\ Finish(p)
         /\ \A t \in Tours :
              /\ ratings'[t] = ratings[t] \/ tourLock[t] = p
              /\ tours[t].status # "none" =>
                    \/ tours'[t] = tours[t]
                    \/ /\ tourLock[t] = p /\ tours'[t].status # "none"
                       /\ tours'[t].version = tours[t].version + 1
<1>0. TypeOK /\ Sound(p) /\ EditKnown(p)
  BY DEF SchedulingInv, EditsKnown
<1>1. CASE CommitCreateTour(p)
  <2>1. tours[req[p].tour].status = "none" /\ Finish(p) /\ UNCHANGED ratings
    BY <1>0, <1>1 DEF CommitCreateTour, Sound, OwnsTour
  <2> QED BY <1>0, <1>1, <2>1 DEF CommitCreateTour, TypeOK
<1>2. CASE CommitUpdateTour(p) \/ CommitCancelTour(p)
  <2>1. PICK t \in Tours : t = req[p].tour /\ tourLock[t] = p /\ Active(t)
    BY <1>0, <1>2 DEF CommitUpdateTour, CommitCancelTour, Sound, OwnsTour
  <2>2. tours[t] \in TourRow /\ tours[t].version \in Nat
    BY <1>0 DEF TypeOK, TourRow
  <2>3. tours'[t].status # "none" /\ tours'[t].version = tours[t].version + 1
    <3> PICK row, services : row = tours[t] /\ services = NewServices(req[p].inputs)
      OBVIOUS
    <3>1. PICK v \in Nat : v = row.version + 1
      BY <2>2
    <3>2. \/ tours'[t] = [row EXCEPT !.services = services, !.version = v]
          \/ tours'[t] = [row EXCEPT !.status = "cancelled", !.version = v]
      BY <1>0, <1>2, <2>1, <3>1 DEF CommitUpdateTour, CommitCancelTour, Cancelled, TypeOK
    <3> QED BY <2>1, <2>2, <3>1, <3>2 DEF TourRow, Active
  <2>4. Finish(p) /\ \A u \in Tours \ {t} : tours'[u] = tours[u] /\ ratings'[u] = ratings[u]
    BY <1>0, <1>2, <2>1 DEF CommitUpdateTour, CommitCancelTour, TypeOK
  <2> QED BY <2>1, <2>3, <2>4
<1>3. CASE CommitRating(p)
  <2>1. PICK t \in Tours : t = req[p].tour /\ tourLock[t] = p
    BY <1>0, <1>3 DEF CommitRating, EditKnown
  <2>2. Finish(p) /\ UNCHANGED tours /\ \A u \in Tours \ {t} : ratings'[u] = ratings[u]
    BY <1>0, <1>3, <2>1 DEF CommitRating, TypeOK
  <2> QED BY <2>1, <2>2
<1>4. CASE CommitLeave(p) \/ CommitDeleteLeaves(p) \/ CommitUpdateGuide(p) \/ CommitDeleteGuides(p)
  BY <1>4 DEF CommitLeave, CommitDeleteLeaves, CommitUpdateGuide, CommitDeleteGuides
<1> QED BY <1>1, <1>2, <1>3, <1>4

\* Every step keeps what is known.
LEMMA StepKeepsKnown ==
  ASSUME SchedulingInv, SchedulingInv', EditsKnown, [Next]_vars
  PROVE  EditsKnown'
<1>0. TypeOK /\ TypeOK' /\ \A q \in Procs : Sound(q) /\ EditKnown(q)
  BY DEF SchedulingInv, EditsKnown
<1>a. ASSUME NEW p \in Procs, Request(p) \/ Work(p) \/ Rollback(p), EditKnown(p)',
             UNCHANGED <<tours, ratings>>
      PROVE  EditsKnown'
  <2>1. ASSUME NEW q \in Procs, q # p PROVE EditKnown(q)'
    <3>1. /\ pc'[q] = pc[q] /\ req'[q] = req[q]
          /\ \A t \in Tours : tourLock[t] = q => tourLock'[t] = q
      BY <1>0, <1>a, <2>1, OthersUntouched
    <3> QED BY <1>0, <1>a, <3>1, StaysKnown
  <2> QED BY <1>a, <2>1 DEF EditsKnown
<1>1. ASSUME NEW p \in Procs, Request(p) PROVE EditsKnown'
  <2>1. UNCHANGED <<tours, ratings>>
    BY ZenonT(40), <1>1 DEF Request, BeginCreateTour, BeginUpdateTour, BeginCancelTour, BeginSaveRating,
       BeginCreateLeave, BeginUpdateLeave, BeginDeleteLeaves, BeginUpdateGuide,
       BeginDeleteGuides, Begin, rows
  <2> QED BY <1>0, <1>1, <1>a, <2>1, BegunIsKnown
<1>2. ASSUME NEW p \in Procs, Rollback(p) PROVE EditsKnown'
  <2>1. Finish(p) /\ UNCHANGED <<tours, ratings>>
    BY <1>2 DEF Rollback, rows
  <2> QED BY <1>0, <1>2, <1>a, <2>1, EndedIsKnown
<1>3. ASSUME NEW p \in Procs, Work(p), ~Rollback(p) PROVE EditsKnown'
  <2>1. CASE \/ LockTour(p) \/ LockServiceGuide(p) \/ CheckRated(p) \/ CheckService(p)
             \/ CheckRating(p) \/ LockLeave(p) \/ LockLeaveGuide(p) \/ CheckLeaveDays(p)
             \/ LockPerson(p) \/ VetPerson(p)
    BY <1>3, <1>a, <2>1, StepIsSound, StepIsKnown
  <2>2. CASE \/ CommitCreateTour(p) \/ CommitUpdateTour(p) \/ CommitCancelTour(p) \/ CommitRating(p)
             \/ CommitLeave(p) \/ CommitDeleteLeaves(p) \/ CommitUpdateGuide(p) \/ CommitDeleteGuides(p)
    <3>1. ASSUME NEW q \in Procs, q # p PROVE EditKnown(q)'
      <4>1. /\ pc'[q] = pc[q] /\ req'[q] = req[q]
            /\ \A t \in Tours : tourLock[t] = q => tourLock'[t] = q
        BY <1>0, <1>3, <3>1, OthersUntouched
      <4>2. \A t \in Tours :
              /\ tourLock[t] = q => ratings'[t] = ratings[t]
              /\ tours[t].status # "none" =>
                    \/ tours'[t] = tours[t]
                    \/ /\ tourLock[t] # q /\ tours'[t].status # "none"
                       /\ tours'[t].version = tours[t].version + 1
        BY <2>2, <3>1, CommitWrites
      <4> QED BY <1>0, <4>1, <4>2, StaysKnown
    <3>2. EditKnown(p)'
      BY <1>0, <2>2, CommitWrites, EndedIsKnown
    <3> QED BY <3>1, <3>2 DEF EditsKnown
  <2> QED BY <1>3, <2>1, <2>2 DEF Work
<1>4. CASE Tick \/ UNCHANGED vars
  <2>1. UNCHANGED <<tours, ratings, pc, req, tourLock>>
    BY <1>4 DEF Tick, vars, locks
  <2> QED BY <1>0, <2>1, StaysKnown DEF EditsKnown
<1> QED BY <1>1, <1>2, <1>3, <1>4 DEF Next, DeadlockVictim, ConnectionLost

\* What is known of tours holds in every reachable state.
LEMMA EditsStayKnown == Spec => []EditsKnown
<1>1. Init => EditsKnown
  <2>1. ASSUME Init, NEW p \in Procs PROVE EditKnown(p)
    <3>1. pc[p] = "idle" /\ req[p] = Blank
      BY <2>1 DEF Init
    <3>2. req[p].op = "none"
      BY <3>1 DEF Blank
    <3> QED BY <3>1, <3>2 DEF EditKnown
  <2> QED BY <2>1 DEF EditsKnown
<1>2. SchedulingInv /\ SchedulingInv' /\ EditsKnown /\ [Next]_vars => EditsKnown'
  BY StepKeepsKnown
<1> QED BY <1>1, <1>2, SchedulingSafe, PTL DEF Spec

\* Which step writes tours and ratings.
LEMMA Writers ==
  ASSUME SchedulingInv, EditsKnown, [Next]_vars, tours' # tours \/ ratings' # ratings
  PROVE  \E p \in Procs : \/ CommitCreateTour(p) \/ CommitUpdateTour(p) \/ CommitCancelTour(p)
                          \/ CommitRating(p)
<1>1. ASSUME NEW p \in Procs, Request(p) \/ Rollback(p) PROVE UNCHANGED <<tours, ratings>>
  <2>1. CASE Rollback(p)
    BY <2>1 DEF Rollback, rows
  <2>2. CASE Request(p)
    <3>1. CASE BeginCreateTour(p)
      BY <3>1 DEF BeginCreateTour, Begin, rows
    <3>2. CASE BeginUpdateTour(p)
      BY <3>2 DEF BeginUpdateTour, Begin, rows
    <3>3. CASE BeginCancelTour(p)
      BY <3>3 DEF BeginCancelTour, Begin, rows
    <3>4. CASE BeginSaveRating(p)
      BY <3>4 DEF BeginSaveRating, Begin, rows
    <3>5. CASE BeginCreateLeave(p)
      BY <3>5 DEF BeginCreateLeave, Begin, rows
    <3>6. CASE BeginUpdateLeave(p)
      BY <3>6 DEF BeginUpdateLeave, Begin, rows
    <3>7. CASE BeginDeleteLeaves(p)
      BY <3>7 DEF BeginDeleteLeaves, Begin, rows
    <3>8. CASE BeginUpdateGuide(p)
      BY <3>8 DEF BeginUpdateGuide, Begin, rows
    <3>9. CASE BeginDeleteGuides(p)
      BY <3>9 DEF BeginDeleteGuides, Begin, rows
    <3> QED BY <2>2, <3>1, <3>2, <3>3, <3>4, <3>5, <3>6, <3>7, <3>8, <3>9 DEF Request
  <2> QED BY <1>1, <2>1, <2>2
<1>2. ASSUME NEW p \in Procs, ~Rollback(p),
             \/ LockTour(p) \/ LockServiceGuide(p) \/ CheckRated(p) \/ CheckService(p)
             \/ CheckRating(p) \/ LockLeave(p) \/ LockLeaveGuide(p) \/ CheckLeaveDays(p)
             \/ LockPerson(p) \/ VetPerson(p)
      PROVE  UNCHANGED <<tours, ratings>>
  BY <1>2, StepIsSound, StepIsKnown
<1>3. ASSUME NEW p \in Procs,
             \/ CommitLeave(p) \/ CommitDeleteLeaves(p) \/ CommitUpdateGuide(p) \/ CommitDeleteGuides(p)
      PROVE  UNCHANGED <<tours, ratings>>
  BY <1>3 DEF CommitLeave, CommitDeleteLeaves, CommitUpdateGuide, CommitDeleteGuides
<1>4. CASE Tick \/ UNCHANGED vars
  BY <1>4 DEF Tick, vars
<1> QED BY <1>1, <1>2, <1>3, <1>4 DEF Next, DeadlockVictim, ConnectionLost, Work

\* Whoever replaces or cancels the services of an active tour has seen exactly what it replaces
\* (lockTour and the version check of update and cancel).
THEOREM UpdatesAreNotLost == Spec => NoLostUpdate
<1>1. ASSUME SchedulingInv, EditsKnown, [Next]_vars, NEW t \in Tours, Active(t), tours'[t] # tours[t]
      PROVE  \E p \in Procs : /\ req[p].tour = t /\ req[p].op # "createTour"
                              /\ pc[p] # "idle" /\ pc'[p] = "idle"
                              /\ req[p].seen = tours[t].services
  <2>1. PICK p \in Procs : \/ CommitCreateTour(p) \/ CommitUpdateTour(p) \/ CommitCancelTour(p)
                           \/ CommitRating(p)
    BY <1>1, Writers
  <2>2. TypeOK /\ Sound(p) /\ EditKnown(p)
    BY <1>1 DEF SchedulingInv, EditsKnown
  <2>3. ~CommitRating(p)
    BY <1>1 DEF CommitRating
  <2>4. t = req[p].tour
    BY <1>1, <2>1, <2>2, <2>3 DEF CommitCreateTour, CommitUpdateTour, CommitCancelTour, TypeOK
  <2>5. ~CommitCreateTour(p)
    BY <1>1, <2>2, <2>4 DEF CommitCreateTour, Sound, OwnsTour, Active
  <2>6. /\ req[p].op \in {"updateTour", "cancelTour"} /\ pc[p] \in {"guides", "services"}
        /\ pc'[p] = "idle"
    BY <2>1, <2>2, <2>3, <2>5 DEF CommitUpdateTour, CommitCancelTour, Finish, Goto, TypeOK
  <2> QED BY <2>2, <2>4, <2>6 DEF EditKnown
<1>2. SchedulingInv /\ EditsKnown /\ [Next]_vars =>
        \A t \in Tours : Active(t) /\ tours'[t] # tours[t] =>
          \E p \in Procs : /\ req[p].tour = t /\ req[p].op # "createTour"
                           /\ pc[p] # "idle" /\ pc'[p] = "idle"
                           /\ req[p].seen = tours[t].services
  BY <1>1
<1> QED BY <1>2, SchedulingSafe, EditsStayKnown, PTL DEF Spec, NoLostUpdate

\* Every rating row keeps a guide who serves its tour: an update that takes the last service
\* of a guide drops his row under the lock a rating needs (saveGuideServices, saveRating).
LEMMA RatingsStayServed ==
  ASSUME SchedulingInv, EditsKnown, RatingsKept, [Next]_vars
  PROVE  RatingsKept'
<1>0. TypeOK /\ \A p \in Procs : Sound(p) /\ EditKnown(p)
  BY DEF SchedulingInv, EditsKnown
<1> DEFINE Fits(t) == \A g \in Guides :
              ratings'[t][g].version # 0 =>
                tours'[t].status # "none" /\ g \in GuidesOf(tours'[t].services)
<1>1. ASSUME NEW t \in Tours, tours'[t].services = tours[t].services, ratings'[t] = ratings[t],
             tours[t].status # "none" => tours'[t].status # "none"
      PROVE  Fits(t)
  BY <1>1 DEF RatingsKept, RatingsServed
<1>2. ASSUME NEW t \in Tours PROVE Fits(t)
  <2>1. CASE UNCHANGED <<tours, ratings>>
    BY <1>1, <2>1
  <2>2. CASE ~UNCHANGED <<tours, ratings>>
    <3>1. PICK p \in Procs : \/ CommitCreateTour(p) \/ CommitUpdateTour(p) \/ CommitCancelTour(p)
                             \/ CommitRating(p)
      BY <2>2, Writers
    <3>2. CASE t # req[p].tour
      <4>1. tours'[t] = tours[t] /\ ratings'[t] = ratings[t]
        BY <1>0, <3>1, <3>2 DEF CommitCreateTour, CommitUpdateTour, CommitCancelTour, CommitRating,
           TypeOK
      <4> QED BY <1>1, <4>1
    <3>3. CASE t = req[p].tour
      <4>0. tours[t] \in TourRow /\ ratings[t] \in [Guides -> RatingRow]
        BY <1>0 DEF TypeOK
      <4>1. CASE CommitCreateTour(p)
        <5>1. tours[t].status = "none" /\ UNCHANGED ratings
          BY <1>0, <3>3, <4>1 DEF CommitCreateTour, Sound, OwnsTour
        <5> QED BY <5>1 DEF RatingsKept
      <4>2. CASE CommitUpdateTour(p)
        <5>1. Active(t)
          BY <1>0, <3>3, <4>2 DEF CommitUpdateTour, Sound, OwnsTour
        <5>2. /\ tours'[t] = [tours[t] EXCEPT !.services = NewServices(req[p].inputs),
                                              !.version = tours[t].version + 1]
              /\ ratings'[t] = RatingsLeft(t, NewServices(req[p].inputs))
          BY <1>0, <3>3, <4>2 DEF CommitUpdateTour, TypeOK
        <5>3. /\ tours'[t].status = tours[t].status
              /\ tours'[t].services = NewServices(req[p].inputs)
          BY <4>0, <5>2 DEF TourRow
        <5> QED BY <5>1, <5>2, <5>3 DEF RatingsLeft, Active
      <4>3. CASE CommitCancelTour(p)
        <5>1. tours'[t] = Cancelled(t) /\ UNCHANGED ratings
          BY <1>0, <3>3, <4>3 DEF CommitCancelTour, TypeOK
        <5>2. tours'[t].services = tours[t].services /\ tours'[t].status = "cancelled"
          BY <4>0, <5>1 DEF Cancelled, TourRow
        <5> QED BY <1>1, <5>1, <5>2
      <4>4. CASE CommitRating(p)
        <5>1. /\ UNCHANGED tours /\ tours[t].status # "none"
              /\ req[p].guides \subseteq GuidesOf(tours[t].services)
          BY <1>0, <3>3, <4>4 DEF CommitRating, EditKnown
        <5>2. PICK g \in req[p].guides : ratings'[t] = [ratings[t] EXCEPT ![g] = RatingSaved(p, g)]
          BY <1>0, <3>3, <4>4 DEF CommitRating, TypeOK
        <5>3. ASSUME NEW h \in Guides, h # g PROVE ratings'[t][h] = ratings[t][h]
          BY <4>0, <5>2, <5>3
        <5> QED BY <5>1, <5>3 DEF RatingsKept, RatingsServed
      <4> QED BY <3>1, <4>1, <4>2, <4>3, <4>4
    <3> QED BY <3>2, <3>3
  <2> QED BY <2>1, <2>2
<1> QED BY <1>2 DEF RatingsKept, RatingsServed, GuidesOf

\* No rating row is ever without a service.
LEMMA RatingsAreServed == Spec => []RatingsKept
<1>1. Init => RatingsKept
  BY DEF Init, RatingsKept, RatingsServed
<1>2. SchedulingInv /\ EditsKnown /\ RatingsKept /\ [Next]_vars => RatingsKept'
  BY RatingsStayServed
<1> QED BY <1>1, <1>2, SchedulingSafe, EditsStayKnown, PTL DEF Spec

\* The scored row of a guide is only changed by a rating request: an update of the tour that
\* would drop it is refused, however the two interleave (assertRatedGuidesRetained, saveRating);
\* and no rating row is left without a service (saveGuideServices).
THEOREM ScoresAreKept == Spec => ScoresSurviveUpdates
<1>1. ASSUME SchedulingInv, EditsKnown, [Next]_vars, NEW t \in Tours, NEW g \in Guides,
             ratings[t][g].valued, ratings'[t][g] # ratings[t][g]
      PROVE  \E p \in Procs : req[p].op = "saveRating" /\ req[p].tour = t /\ g \in req[p].guides
  <2>1. PICK p \in Procs : \/ CommitCreateTour(p) \/ CommitUpdateTour(p) \/ CommitCancelTour(p)
                           \/ CommitRating(p)
    BY <1>1, Writers
  <2>2. TypeOK /\ EditKnown(p) /\ ratings[t] \in [Guides -> RatingRow]
    BY <1>1 DEF SchedulingInv, EditsKnown, TypeOK
  <2>3. CASE CommitUpdateTour(p)
    <3>1. t = req[p].tour
      BY <1>1, <2>2, <2>3 DEF CommitUpdateTour, TypeOK
    <3>2. g \notin GuidesOf(NewServices(req[p].inputs))
      BY <1>1, <2>2, <2>3, <3>1 DEF CommitUpdateTour, RatingsLeft, TypeOK
    <3>3. ~ratings[t][g].valued
      BY <2>2, <2>3, <3>1, <3>2 DEF CommitUpdateTour, EditKnown, DropsNoScore
    <3> QED BY <1>1, <3>3
  <2>4. CASE CommitRating(p)
    <3>1. req[p].op = "saveRating"
      BY <2>2, <2>4 DEF CommitRating, EditKnown
    <3>2. t = req[p].tour
      BY <1>1, <2>2, <2>4 DEF CommitRating, TypeOK
    <3>3. g \in req[p].guides
      BY <1>1, <2>2, <2>4, <3>2 DEF CommitRating, TypeOK
    <3> QED BY <3>1, <3>2, <3>3
  <2>5. CASE CommitCreateTour(p) \/ CommitCancelTour(p)
    BY <1>1, <2>5 DEF CommitCreateTour, CommitCancelTour
  <2> QED BY <2>1, <2>3, <2>4, <2>5
<1>2. SchedulingInv /\ EditsKnown /\ RatingsKept /\ [Next]_vars =>
        /\ \A t \in Tours, g \in Guides :
             ratings[t][g].valued /\ ratings'[t][g] # ratings[t][g] =>
               \E p \in Procs : /\ req[p].op = "saveRating" /\ req[p].tour = t
                               /\ g \in req[p].guides
        /\ RatingsServed'
  BY <1>1, RatingsStayServed DEF RatingsKept
<1> QED BY <1>2, SchedulingSafe, EditsStayKnown, RatingsAreServed, PTL DEF Spec, ScoresSurviveUpdates

-----------------------------------------------------------------------------
(* The order of the row locks *)

\* A transaction's step gives no lock to another one.
LEMMA OthersGainNothing ==
  ASSUME TypeOK, NEW p \in Procs, NEW q \in Procs, p # q,
         Request(p) \/ Work(p) \/ Rollback(p)
  PROVE  /\ \A t \in Tours : tourLock'[t] = q => tourLock[t] = q
         /\ \A g \in Guides : guideLock'[g] = q => guideLock[g] = q
         /\ \A l \in Leaves : leaveLock'[l] = q => leaveLock[l] = q
<1> USE NoOneAssumption DEF TypeOK, rows, locks
<1> DEFINE Same == /\ \A t \in Tours : tourLock'[t] = q => tourLock[t] = q
                   /\ \A g \in Guides : guideLock'[g] = q => guideLock[g] = q
                   /\ \A l \in Leaves : leaveLock'[l] = q => leaveLock[l] = q
<1>f. ASSUME Finish(p) PROVE Same
  BY <1>f DEF Finish, Unlocked
<1>b. ASSUME NEW request, NEW first, NEW guideRows, Begin(p, request, first, guideRows)
      PROVE  Same
  BY <1>b DEF Begin
<1>g. ASSUME NEW g \in Guides, TakeGuide(p, g)
      PROVE  Same
  BY <1>g DEF TakeGuide
<1>1. CASE Rollback(p)
  BY <1>1, <1>f DEF Rollback
<1>2. CASE Request(p)
  BY <1>2, <1>b DEF Request, BeginCreateTour, BeginUpdateTour, BeginCancelTour,
     BeginSaveRating, BeginCreateLeave, BeginUpdateLeave, BeginDeleteLeaves,
     BeginUpdateGuide, BeginDeleteGuides
<1>3. CASE ~Rollback(p) /\ LockTour(p)
  BY <1>3 DEF LockTour
<1>4. CASE LockServiceGuide(p)
  BY <1>4, <1>g DEF LockServiceGuide
<1>5. CASE ~Rollback(p) /\ (CheckRated(p) \/ CheckService(p) \/ CheckRating(p)
                            \/ CheckLeaveDays(p))
  BY <1>5 DEF CheckRated, CheckService, CheckRating, CheckLeaveDays
<1>6. CASE \/ CommitCreateTour(p) \/ CommitUpdateTour(p) \/ CommitCancelTour(p)
           \/ CommitRating(p) \/ CommitLeave(p) \/ CommitDeleteLeaves(p)
           \/ CommitUpdateGuide(p) \/ CommitDeleteGuides(p)
  BY <1>6, <1>f DEF CommitCreateTour, CommitUpdateTour, CommitCancelTour, CommitRating,
     CommitLeave, CommitDeleteLeaves, CommitUpdateGuide, CommitDeleteGuides
<1>7. CASE ~Rollback(p) /\ LockLeave(p)
  BY <1>7 DEF LockLeave
<1>8. CASE ~Rollback(p) /\ LockLeaveGuide(p)
  BY <1>8, <1>g DEF LockLeaveGuide
<1>9. CASE ~Rollback(p) /\ LockPerson(p)
  BY <1>9, <1>g DEF LockPerson
<1>10. CASE ~Rollback(p) /\ VetPerson(p)
  BY <1>10 DEF VetPerson
<1> QED BY <1>1, <1>2, <1>3, <1>4, <1>5, <1>6, <1>7, <1>8, <1>9, <1>10 DEF Work

\* A transaction that has ended holds no lock.
LEMMA EndedIsOrdered ==
  ASSUME TypeOK, NEW p \in Procs, Finish(p)
  PROVE  LockOrder(p)'
<1>1. req'[p].op = "none" /\ pc'[p] = "idle"
  BY DEF Finish, Goto, TypeOK, Blank
<1>2. /\ \A t \in Tours : tourLock'[t] # p
      /\ \A g \in Guides : guideLock'[g] # p
      /\ \A l \in Leaves : leaveLock'[l] # p
  BY NoOneAssumption DEF Finish, TypeOK, Unlocked
<1> QED BY <1>1, <1>2 DEF LockOrder

\* A request that begins holds no lock yet, and is one clients may send.
LEMMA BegunIsOrdered ==
  ASSUME TypeOK, NEW p \in Procs, LockOrder(p), Request(p)
  PROVE  LockOrder(p)'
<1>1. PICK request, first, guideRows : Begin(p, request, first, guideRows)
  BY ZenonT(40) DEF Request, BeginCreateTour, BeginUpdateTour, BeginCancelTour, BeginSaveRating,
     BeginCreateLeave, BeginUpdateLeave, BeginDeleteLeaves, BeginUpdateGuide,
     BeginDeleteGuides
<1>2. pc[p] = "idle" /\ req'[p].op \in Ops /\ UNCHANGED <<tourLock, guideLock, leaveLock>>
  BY <1>1 DEF Begin, TypeOK, locks
<1>3. pc'[p] = "tour" => req'[p].tour \in Tours
  <2>1. CASE BeginUpdateTour(p)
    BY <2>1 DEF BeginUpdateTour, Begin, TypeOK, Blank
  <2>2. CASE BeginCancelTour(p)
    BY <2>2 DEF BeginCancelTour, Begin, TypeOK, Blank
  <2>3. CASE BeginSaveRating(p)
    BY <2>3 DEF BeginSaveRating, Begin, TypeOK, Blank
  <2>4. CASE \/ BeginCreateTour(p) \/ BeginCreateLeave(p) \/ BeginUpdateLeave(p)
             \/ BeginDeleteLeaves(p) \/ BeginUpdateGuide(p) \/ BeginDeleteGuides(p)
    <3>1. \E asked, needed : \E stage \in {"guides", "leaveGuide", "leave", "person"} :
            Begin(p, asked, stage, needed)
      BY <2>4, ZenonT(40) DEF BeginCreateTour, BeginCreateLeave, BeginUpdateLeave,
         BeginDeleteLeaves, BeginUpdateGuide, BeginDeleteGuides
    <3>2. pc'[p] \in {"guides", "leaveGuide", "leave", "person"}
      BY <3>1 DEF Begin, TypeOK
    <3> QED BY <3>2
  <2> QED BY <2>1, <2>2, <2>3, <2>4 DEF Request
<1> QED BY <1>2, <1>3 DEF LockOrder

\* A transaction locks a tour before guides, and the next guide after those it has.
LEMMA TourStepIsOrdered ==
  ASSUME TypeOK, NEW p \in Procs, LockOrder(p), ~Rollback(p),
         \/ LockTour(p) \/ LockServiceGuide(p) \/ CheckRated(p) \/ CheckService(p)
         \/ CheckRating(p)
  PROVE  LockOrder(p)'
<1> USE DEF TypeOK, Goto, rows, locks
<1>n. need[p] \subseteq Guides /\ Guides \subseteq Nat
  BY GuidesAssumption
<1>1. CASE LockTour(p)
  <2>1. PICK t \in Tours :
          /\ tourLock' = [tourLock EXCEPT ![t] = p]
          /\ pc[p] = "tour" /\ pc'[p] \in {"rating", "guides"}
          /\ UNCHANGED <<req, guideLock, leaveLock>>
    BY <1>1 DEF LockTour
  <2> QED BY <2>1 DEF LockOrder
<1>2. CASE LockServiceGuide(p)
  <2>1. PICK g \in Guides :
          /\ need' = [need EXCEPT ![p] = need[p] \ {g}]
          /\ guideLock' = [guideLock EXCEPT ![g] = p]
          /\ g \in need[p] /\ \A h \in need[p] : g <= h
          /\ pc[p] = "guides" /\ UNCHANGED <<pc, req, tourLock, leaveLock>>
    BY <1>2 DEF LockServiceGuide, TakeGuide
  <2>2. \A h \in need'[p] : h \in need[p] /\ h # g
    BY <2>1
  <2>3. ASSUME NEW h \in need'[p] PROVE g < h
    <3>1. g <= h /\ h # g
      BY <2>1, <2>2
    <3>2. h \in need[p]
      BY <2>2
    <3>3. h \in Nat /\ g \in Nat
      BY <1>n, <3>2
    <3> HIDE DEF TypeOK
    <3> QED BY ONLY <3>1, <3>3
  <2> QED BY <2>1, <2>2, <2>3 DEF LockOrder
<1>3. CASE CheckRated(p) \/ CheckService(p) \/ CheckRating(p)
  <2>1. /\ \/ pc[p] = "guides" /\ pc'[p] = "services"
           \/ pc[p] = "services" /\ pc'[p] = "services"
           \/ pc[p] = "rating" /\ pc'[p] = "saveRating"
        /\ UNCHANGED <<req, tourLock, guideLock, leaveLock>>
    BY <1>3 DEF CheckRated, CheckService, CheckRating
  <2> QED BY <2>1 DEF LockOrder
<1> QED BY <1>1, <1>2, <1>3

\* A leave is locked before its guide; only a bulk deletion asks for another leave.
LEMMA LeaveStepIsOrdered ==
  ASSUME TypeOK, NEW p \in Procs, Sound(p), LockOrder(p), ~Rollback(p),
         LockLeave(p) \/ LockLeaveGuide(p) \/ CheckLeaveDays(p)
  PROVE  LockOrder(p)'
<1> USE DEF TypeOK, Goto, rows, locks
<1>1. CASE LockLeave(p)
  <2>1. PICK l \in LeavesToLock(p) :
          /\ leaveLock' = [leaveLock EXCEPT ![l] = p]
          /\ pc[p] = "leave"
          /\ \/ req[p].op = "updateLeave" /\ pc'[p] = "leaveGuide"
             \/ req[p].op # "updateLeave" /\ pc'[p] = "leave"
          /\ UNCHANGED <<req, tourLock, guideLock>>
    BY <1>1 DEF LockLeave
  <2>2. req[p].op \in {"updateLeave", "deleteLeaves"}
    BY <2>1 DEF Sound, StageFits
  <2> QED BY <2>1, <2>2 DEF LockOrder
<1>2. CASE LockLeaveGuide(p)
  <2>1. PICK g \in Guides :
          /\ guideLock' = [guideLock EXCEPT ![g] = p]
          /\ pc[p] = "leaveGuide" /\ pc'[p] = "leaveDays"
          /\ UNCHANGED <<req, tourLock, leaveLock>>
    BY <1>2 DEF LockLeaveGuide, TakeGuide
  <2> QED BY <2>1 DEF LockOrder
<1>3. CASE CheckLeaveDays(p)
  <2>1. /\ pc[p] = "leaveDays" /\ pc'[p] = "saveLeave"
        /\ UNCHANGED <<req, tourLock, guideLock, leaveLock>>
    BY <1>3 DEF CheckLeaveDays
  <2> QED BY <2>1 DEF LockOrder
<1> QED BY <1>1, <1>2, <1>3

\* The guides of a deletion are locked in id order; the one being vetted is the last
\* one locked and the first of those still needed.
LEMMA PersonStepIsOrdered ==
  ASSUME TypeOK, NEW p \in Procs, LockOrder(p), ~Rollback(p),
         LockPerson(p) \/ VetPerson(p)
  PROVE  LockOrder(p)'
<1> USE DEF TypeOK, Goto, rows, locks
<1>n. need[p] \subseteq Guides /\ Guides \subseteq Nat
  BY GuidesAssumption
<1>1. CASE LockPerson(p)
  <2>1. PICK g \in Guides :
          /\ guideLock' = [guideLock EXCEPT ![g] = p]
          /\ g \in need[p] /\ \A h \in need[p] : g <= h
          /\ pc[p] = "person" /\ pc'[p] = "vet"
          /\ UNCHANGED <<need, req, tourLock, leaveLock>>
    BY <1>1 DEF LockPerson, TakeGuide
  <2> QED BY <2>1, <1>n DEF LockOrder
<1>2. CASE VetPerson(p)
  <2>1. PICK g \in need[p] :
          /\ guideLock[g] = p /\ pc[p] = "vet"
          /\ need' = [need EXCEPT ![p] = need[p] \ {g}]
          /\ pc'[p] \in {"savePerson", "person"}
          /\ UNCHANGED <<req, tourLock, guideLock, leaveLock>>
    BY <1>2 DEF VetPerson
  <2>2. ASSUME NEW h \in Guides, guideLock[h] = p, NEW k \in need[p] \ {g}
        PROVE  h < k
    <3>1. g <= k /\ h <= k /\ h <= g
      BY <2>1, <2>2, <1>n DEF LockOrder
    <3>2. h # k
      <4>1. CASE h = k
        <5>1. k <= g
          BY <4>1, <3>1
        <5> QED BY <5>1, <3>1, <1>n
      <4> QED BY <4>1
    <3> QED BY <3>1, <3>2, <1>n
  <2> QED BY <2>1, <2>2 DEF LockOrder
<1> QED BY <1>1, <1>2

\* Rows stay locked in order, whatever step is taken.
LEMMA StepKeepsOrder ==
  ASSUME SchedulingInv, LocksOrdered, [Next]_vars
  PROVE  LocksOrdered'
<1>0. TypeOK /\ \A q \in Procs : Sound(q) /\ LockOrder(q)
  BY DEF SchedulingInv, LocksOrdered
<1>a. ASSUME NEW p \in Procs, Request(p) \/ Work(p) \/ Rollback(p), LockOrder(p)'
      PROVE  LocksOrdered'
  <2>1. ASSUME NEW q \in Procs, q # p PROVE LockOrder(q)'
    <3>1. pc'[q] = pc[q] /\ req'[q] = req[q] /\ need'[q] = need[q]
      BY <1>0, <1>a, <2>1, OthersUntouched
    <3>2. /\ \A t \in Tours : tourLock'[t] = q => tourLock[t] = q
          /\ \A g \in Guides : guideLock'[g] = q => guideLock[g] = q
          /\ \A l \in Leaves : leaveLock'[l] = q => leaveLock[l] = q
      BY <1>0, <1>a, <2>1, OthersGainNothing
    <3> QED BY <1>0, <3>1, <3>2 DEF LockOrder
  <2> QED BY <1>a, <2>1 DEF LocksOrdered
<1>1. ASSUME NEW p \in Procs, Request(p) PROVE LocksOrdered'
  BY <1>0, <1>1, <1>a, BegunIsOrdered
<1>2. ASSUME NEW p \in Procs, Rollback(p) PROVE LocksOrdered'
  BY <1>0, <1>2, <1>a, EndedIsOrdered DEF Rollback
<1>3. ASSUME NEW p \in Procs, Work(p), ~Rollback(p) PROVE LocksOrdered'
  <2>1. CASE \/ LockTour(p) \/ LockServiceGuide(p) \/ CheckRated(p) \/ CheckService(p)
             \/ CheckRating(p)
    BY <1>0, <1>3, <1>a, <2>1, TourStepIsOrdered
  <2>2. CASE LockLeave(p) \/ LockLeaveGuide(p) \/ CheckLeaveDays(p)
    BY <1>0, <1>3, <1>a, <2>2, LeaveStepIsOrdered
  <2>3. CASE LockPerson(p) \/ VetPerson(p)
    BY <1>0, <1>3, <1>a, <2>3, PersonStepIsOrdered
  <2>4. CASE \/ CommitCreateTour(p) \/ CommitUpdateTour(p) \/ CommitCancelTour(p) \/ CommitRating(p)
             \/ CommitLeave(p) \/ CommitDeleteLeaves(p) \/ CommitUpdateGuide(p) \/ CommitDeleteGuides(p)
    <3>1. Finish(p)
      BY <2>4 DEF CommitCreateTour, CommitUpdateTour, CommitCancelTour, CommitRating,
         CommitLeave, CommitDeleteLeaves, CommitUpdateGuide, CommitDeleteGuides
    <3> QED BY <1>0, <1>3, <1>a, <3>1, EndedIsOrdered
  <2> QED BY <1>3, <2>1, <2>2, <2>3, <2>4 DEF Work
<1>4. CASE Tick \/ UNCHANGED vars
  <2>1. UNCHANGED <<pc, req, need, tourLock, guideLock, leaveLock>>
    BY <1>4 DEF Tick, vars, locks
  <2> QED BY <1>0, <2>1 DEF LockOrder, LocksOrdered
<1> QED BY <1>1, <1>2, <1>3, <1>4 DEF Next, DeadlockVictim, ConnectionLost

\* Every transaction takes its row locks in the same order: a tour or a leave, then
\* guides by id.
THEOREM RowsLockedInOrder == Spec => []LocksOrdered
<1>1. Init => LocksOrdered
  <2>1. ASSUME Init, NEW p \in Procs PROVE LockOrder(p)
    BY <2>1, NoOneAssumption DEF Init, Blank, LockOrder
  <2> QED BY <2>1 DEF LocksOrdered
<1>2. SchedulingInv /\ LocksOrdered /\ [Next]_vars => LocksOrdered'
  BY StepKeepsOrder
<1> QED BY <1>1, <1>2, SchedulingSafe, PTL DEF Spec

\* A non-empty finite set of numbers has a greatest one: of the finite sets of the
\* elements from one of them on, one is contained in no other.
LEMMA GreatestOf ==
  ASSUME NEW S \in SUBSET Nat, IsFiniteSet(S), S # {}
  PROVE  \E k \in S : \A j \in S : ~(k < j)
<1> DEFINE From(k) == {j \in S : k <= j}
           T == {From(k) : k \in S}
<1>1. T \subseteq FiniteSubsetsOf(S)
  <2> SUFFICES ASSUME NEW k \in S
               PROVE  From(k) \in FiniteSubsetsOf(S)
    OBVIOUS
  <2>1. IsFiniteSet(From(k))
    BY FS_Subset
  <2> QED BY <2>1 DEF FiniteSubsetsOf
<1>2. T # {}
  OBVIOUS
<1>3. PICK s \in T : \A r \in T : <<r, s>> \notin StrictSubsetOrdering(S)
  <2> HIDE DEF T
  <2> QED BY <1>1, <1>2, FS_StrictSubsetOrderingWellFounded, WFMin
<1>4. PICK k \in S : s = From(k)
  OBVIOUS
<1>5. ASSUME NEW j \in S, k < j
      PROVE  FALSE
  <2>1. From(j) \subseteq From(k) /\ k \in From(k) /\ k \notin From(j)
    <3>1. k \in Nat /\ j \in Nat /\ k < j
      BY <1>5
    <3>2. ASSUME NEW i \in From(j) PROVE i \in From(k)
      <4>1. i \in S /\ i \in Nat /\ j <= i
        OBVIOUS
      <4> QED BY <3>1, <4>1
    <3>3. k \in From(k) /\ k \notin From(j)
      BY <3>1
    <3> QED BY <3>2, <3>3
  <2>2. <<From(j), s>> \in StrictSubsetOrdering(S)
    <3> HIDE DEF From
    <3>1. From(j) \subseteq S /\ From(k) \subseteq S
      BY DEF From
    <3> QED BY <2>1, <3>1, <1>4 DEF StrictSubsetOrdering
  <2>3. From(j) \in T
    OBVIOUS
  <2> QED BY <1>3, <2>2, <2>3
<1> QED BY <1>5

\* The row a transaction waits for, and who holds it, at each stage.
LEMMA WaitsForGuide ==
  ASSUME TypeOK, NEW p \in Procs, pc[p] \in {"guides", "leaveGuide", "person"}, Waiting(p)
  PROVE  \E g \in need[p] : guideLock[g] \in Holders(p)
<1>1. Holders(p) = {guideLock[g] : g \in {h \in need[p] : \A k \in need[p] : h <= k}}
  BY DEF Holders
<1> QED BY <1>1 DEF Waiting

\* A transaction that holds a guide and waits is after a guide of a greater id.
LEMMA GuideChain ==
  ASSUME TypeOK, LocksOrdered, NEW group \in SUBSET Procs, Deadlocked(group),
         NEW g \in Guides, guideLock[g] \in group
  PROVE  \E h \in Guides : g < h /\ guideLock[h] \in group
<1>1. PICK q \in group : q = guideLock[g]
  OBVIOUS
<1>2. q \in Procs /\ Waiting(q) /\ Holders(q) \subseteq group /\ LockOrder(q)
  BY <1>1 DEF Deadlocked, LocksOrdered
<1>3. pc[q] \in {"tour", "leave", "guides", "leaveGuide", "person"}
  BY <1>2 DEF Waiting, Holders
<1>4. pc[q] \in {"guides", "person"} /\ \A h \in need[q] : g < h
  BY <1>1, <1>2, <1>3 DEF LockOrder
<1>5. PICK h \in need[q] : guideLock[h] \in Holders(q)
  BY <1>2, <1>4, WaitsForGuide
<1>6. h \in Guides
  BY <1>2, <1>5 DEF TypeOK
<1> QED BY <1>2, <1>4, <1>5, <1>6

\* So nobody in a deadlock waits for a guide: the guides waited for would have no
\* greatest id.
LEMMA NoGuideInDeadlock ==
  ASSUME TypeOK, LocksOrdered, IsFiniteSet(Guides),
         NEW group \in SUBSET Procs, Deadlocked(group), NEW g \in Guides
  PROVE  guideLock[g] \notin group
<1> SUFFICES ASSUME guideLock[g] \in group PROVE FALSE
  OBVIOUS
<1> DEFINE W == {h \in Guides : guideLock[h] \in group}
<1>1. W \in SUBSET Nat /\ IsFiniteSet(W) /\ W # {}
  BY GuidesAssumption, FS_Subset
<1>2. PICK k \in W : \A j \in W : ~(k < j)
  <2> HIDE DEF W
  <2> QED BY <1>1, GreatestOf
<1>3. PICK h \in Guides : k < h /\ guideLock[h] \in group
  BY <1>2, GuideChain
<1> QED BY <1>2, <1>3

\* Nor for a tour, whose holder would wait for a guide: all wait for leaves.
LEMMA OnlyLeavesInDeadlock ==
  ASSUME TypeOK, LocksOrdered, IsFiniteSet(Guides),
         NEW group \in SUBSET Procs, Deadlocked(group), NEW p \in group
  PROVE  pc[p] = "leave"
<1>1. ASSUME NEW q \in group
      PROVE  pc[q] \in {"tour", "leave"} /\ q \in Procs /\ Waiting(q)
             /\ Holders(q) \subseteq group /\ LockOrder(q)
  <2>1. q \in Procs /\ Waiting(q) /\ Holders(q) \subseteq group /\ LockOrder(q)
    BY DEF Deadlocked, LocksOrdered
  <2>2. pc[q] \in {"tour", "leave", "guides", "leaveGuide", "person"}
    BY <2>1 DEF Waiting, Holders
  <2>3. pc[q] \notin {"guides", "leaveGuide", "person"}
    <3> SUFFICES ASSUME pc[q] \in {"guides", "leaveGuide", "person"} PROVE FALSE
      OBVIOUS
    <3>1. PICK g \in need[q] : guideLock[g] \in Holders(q)
      BY <2>1, WaitsForGuide
    <3>2. g \in Guides
      BY <2>1, <3>1 DEF TypeOK
    <3> QED BY <2>1, <3>1, <3>2, NoGuideInDeadlock
  <2> QED BY <2>1, <2>2, <2>3
<1>2. pc[p] # "tour"
  <2> SUFFICES ASSUME pc[p] = "tour" PROVE FALSE
    OBVIOUS
  <2>1. Holders(p) = {tourLock[req[p].tour]} /\ tourLock[req[p].tour] \in group
    BY <1>1 DEF Holders
  <2> DEFINE q == tourLock[req[p].tour]
  <2>2. q \in Procs /\ q # NoOne /\ LockOrder(q) /\ pc[q] \in {"tour", "leave"}
    BY <1>1, <2>1, NoOneAssumption
  <2>3. req[p].tour \in Tours
    BY <1>1 DEF LockOrder
  <2> QED BY <2>2, <2>3 DEF LockOrder
<1> QED BY <1>1, <1>2

\* A leave waited for is held by a bulk deletion that waits for another one.
LEMMA DeletionHolds ==
  ASSUME TypeOK, LocksOrdered, IsFiniteSet(Guides),
         NEW group \in SUBSET Procs, Deadlocked(group), NEW p \in group
  PROVE  \E q \in group : q # p /\ req[q].op = "deleteLeaves"
<1>1. pc[p] = "leave" /\ p \in Procs /\ Waiting(p) /\ Holders(p) \subseteq group
  BY OnlyLeavesInDeadlock DEF Deadlocked
<1>2. Holders(p) = {leaveLock[l] : l \in LeavesToLock(p)}
  BY <1>1 DEF Holders
<1>3. PICK l \in LeavesToLock(p) : leaveLock[l] \in group
  BY <1>1, <1>2 DEF Waiting
<1>4. l \in Leaves /\ leaveLock[l] # p
  BY <1>1, <1>3 DEF LeavesToLock, TypeOK, RequestType
<1>5. pc[leaveLock[l]] = "leave" /\ LockOrder(leaveLock[l])
  BY <1>3, OnlyLeavesInDeadlock DEF LocksOrdered
<1> QED BY <1>3, <1>4, <1>5 DEF LockOrder

\* Row locks are taken in an order that lets only two bulk deletions of leaves, which
\* lock their rows in no order, wait for each other (PostgreSQL then ends one).
THEOREM DeadlocksAreDeletions ==
  ASSUME IsFiniteSet(Guides)
  PROVE  Spec => []OnlyDeletionsDeadlock
<1>1. SchedulingInv /\ LocksOrdered => OnlyDeletionsDeadlock
  <2> SUFFICES ASSUME TypeOK, LocksOrdered, NEW group \in SUBSET Procs, Deadlocked(group)
               PROVE  /\ \A p \in group : pc[p] = "leave"
                      /\ \E p, q \in group : p # q /\ req[p].op = "deleteLeaves"
                                                   /\ req[q].op = "deleteLeaves"
    BY DEF SchedulingInv, OnlyDeletionsDeadlock
  <2>1. \A p \in group : pc[p] = "leave"
    BY OnlyLeavesInDeadlock
  <2>2. PICK r \in group : TRUE
    BY DEF Deadlocked
  <2>3. PICK p \in group : req[p].op = "deleteLeaves"
    BY <2>2, DeletionHolds
  <2>4. PICK q \in group : q # p /\ req[q].op = "deleteLeaves"
    BY <2>3, DeletionHolds
  <2> QED BY <2>1, <2>3, <2>4
<1> QED BY <1>1, SchedulingSafe, RowsLockedInOrder, PTL

\* Without bulk deletions of leaves no set of transactions ever waits for itself:
\* whatever else clients send, PostgreSQL has no deadlock to break.
THEOREM NobodyDeadlocks ==
  ASSUME IsFiniteSet(Guides), "deleteLeaves" \notin Ops
  PROVE  Spec => []NoDeadlock
<1>1. OnlyDeletionsDeadlock /\ LocksOrdered => NoDeadlock
  <2> SUFFICES ASSUME OnlyDeletionsDeadlock, LocksOrdered,
                      NEW group \in SUBSET Procs, Deadlocked(group)
               PROVE  FALSE
    BY DEF NoDeadlock
  <2>1. PICK p \in group : req[p].op = "deleteLeaves"
    BY DEF OnlyDeletionsDeadlock
  <2> QED BY <2>1 DEF LocksOrdered, LockOrder
<1> QED BY <1>1, DeadlocksAreDeletions, RowsLockedInOrder, PTL

=============================================================================
