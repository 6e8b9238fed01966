--------------------------- MODULE InquiryLifecycle ---------------------------
(****************************************************************************)
(* Standard inquiries, their itineraries, the quotes frozen from them and   *)
(* the tours made from the quotes: the transactions of InquiriesService and *)
(* the part of ToursService.insertTour (resolve) that reads an inquiry.     *)
(*                                                                          *)
(* Every transaction locks its inquiry first, checks what it needs, writes, *)
(* and commits.  An itinerary is locked only by transactions that hold its  *)
(* inquiry, so that second lock never waits and is left out.  The content   *)
(* of an inquiry and of an itinerary is one value each; owners, codes,      *)
(* logs and prices are left out.  What content validation refuses ends in a *)
(* rollback, like a lost connection.                                        *)
(*                                                                          *)
(* X_Change, just before a definition X, is a mutant of X: what X would be  *)
(* after a plausible slip in the code.  No specification uses it.           *)
(****************************************************************************)
EXTENDS Naturals

CONSTANTS
  Procs,          \* transactions that may be open at the same time
  Inquiries, Itineraries, Tours,    \* row ids
  Facts,          \* contents of an inquiry
  Plans,          \* contents of an itinerary
  MaxVersion,     \* bound: no update of an inquiry that reached this version
  MaxRevision,    \* bound: no save of an itinerary that reached this version
  MaxConfirms,    \* bound: confirmations requested
  NoOne

ASSUME NoOneAssumption ==
  /\ NoOne \notin Procs \cup Inquiries \cup Itineraries \cup Tours
  /\ NoOne \notin Facts \cup Plans \cup (Plans \X Facts)
ASSUME BoundsAssumption == {MaxVersion, MaxRevision, MaxConfirms} \subseteq Nat

VARIABLES
  inquiries, itineraries,
  quotes,       \* itinerary_quotes, at most one of each itinerary
  tours,        \* tours made from quotes
  clock,        \* counts the confirmations as they start: the created_at of a quote
  pc, req,      \* what each transaction does next, and the request it serves
  lock          \* owner of each inquiry's FOR UPDATE lock

rows == <<inquiries, itineraries, quotes, tours>>
vars == <<inquiries, itineraries, quotes, tours, clock, pc, req, lock>>

-----------------------------------------------------------------------------
NoInquiry == [status |-> "none", facts |-> NoOne, version |-> 0]
NoItinerary == [inquiry |-> NoOne, status |-> "none", plan |-> NoOne, version |-> 0]
NoQuote == [frozen |-> FALSE, at |-> 0, version |-> 0, inquiryVersion |-> 0,
            facts |-> NoOne, plan |-> NoOne, downloaded |-> FALSE]

\* version and inquiryVersion are what the client names, plan and facts what it
\* writes or, in a confirmation, what it has on its screen.
Blank == [op |-> "none", inquiry |-> NoOne, itinerary |-> NoOne, tour |-> NoOne,
          version |-> 0, inquiryVersion |-> 0, plan |-> NoOne, facts |-> NoOne,
          status |-> "none", at |-> 0]

Live(i) == inquiries[i].status \notin {"none", "deleted"}
Closed == {"lost", "archived"}

\* writable: what a lost or archived inquiry refuses.
Writable(i) == inquiries[i].status \notin Closed

ActiveTours(i) == {t \in Tours : tours[t].status = "active" /\ tours[t].inquiry = i}

\* assertNoActiveTour
NoActiveTour_Unchecked(i) == TRUE
NoActiveTour(i) == ActiveTours(i) = {}

QuotesOf(i) == {k \in Itineraries : quotes[k].frozen /\ itineraries[k].inquiry = i}

\* ORDER BY created_at DESC LIMIT 1.
Latest_Any(i, k) == k \in QuotesOf(i)
Latest(i, k) == k \in QuotesOf(i) /\ \A j \in QuotesOf(i) : quotes[j].at <= quotes[k].at

-----------------------------------------------------------------------------
Init ==
  /\ inquiries = [i \in Inquiries |-> NoInquiry]
  /\ itineraries = [k \in Itineraries |-> NoItinerary]
  /\ quotes = [k \in Itineraries |-> NoQuote]
  /\ tours = [t \in Tours |-> [status |-> "none", inquiry |-> NoOne, quote |-> NoOne]]
  /\ clock = 0
  /\ pc = [p \in Procs |-> "idle"]
  /\ req = [p \in Procs |-> Blank]
  /\ lock = [i \in Inquiries |-> NoOne]

-----------------------------------------------------------------------------
(* Requests *)

Begin(p, request) ==
  /\ pc[p] = "idle"
  /\ pc' = [pc EXCEPT ![p] = "lock"]
  /\ req' = [req EXCEPT ![p] = request]
  /\ UNCHANGED <<rows, lock>>

\* create: no row to lock, nothing that another request could change.
CreateInquiry(i) ==
  /\ inquiries[i].status = "none"
  /\ \E f \in Facts :
       inquiries' = [inquiries EXCEPT ![i] = [status |-> "new", facts |-> f, version |-> 1]]
  /\ UNCHANGED <<itineraries, quotes, tours, clock, pc, req, lock>>

\* update (lost is one of its fields), archive, delete and transfer carry the
\* version of the inquiry; createItinerary carries none.
BeginOnInquiry(p) ==
  \E i \in Inquiries, op \in {"update", "archive", "delete", "transfer"} :
    /\ Live(i) /\ inquiries[i].version < MaxVersion
    /\ \E f \in IF op \in {"update", "transfer"} THEN Facts ELSE {NoOne},
          s \in IF op = "update" THEN {inquiries[i].status, "lost"} ELSE {"none"} :
         Begin(p, [Blank EXCEPT !.op = op, !.inquiry = i, !.facts = f, !.status = s,
                                !.inquiryVersion = inquiries[i].version])
    /\ UNCHANGED clock

BeginCreateItinerary(p) ==
  \E i \in Inquiries, k \in Itineraries, d \in Plans :
    /\ Live(i) /\ inquiries[i].version < MaxVersion
    /\ itineraries[k].status = "none"
    /\ \A q \in Procs : req[q].itinerary # k
    /\ Begin(p, [Blank EXCEPT !.op = "createItinerary", !.inquiry = i,
                              !.itinerary = k, !.plan = d])
    /\ UNCHANGED clock

\* plan carries the copied itinerary's id until it is read under the lock.
BeginCopy(p) ==
  \E j, k \in Itineraries :
    /\ itineraries[j].status # "none" /\ itineraries[k].status = "none"
    /\ \A q \in Procs : req[q].itinerary # k
    /\ inquiries[itineraries[j].inquiry].version < MaxVersion
    /\ Begin(p, [Blank EXCEPT !.op = "copy", !.inquiry = itineraries[j].inquiry,
                              !.itinerary = k, !.plan = j,
                              !.version = itineraries[j].version])
    /\ UNCHANGED clock

BeginSaveItinerary(p) ==
  \E k \in Itineraries, d \in Plans :
    /\ itineraries[k].status # "none" /\ itineraries[k].version < MaxRevision
    /\ Begin(p, [Blank EXCEPT !.op = "saveItinerary", !.inquiry = itineraries[k].inquiry,
                              !.itinerary = k, !.version = itineraries[k].version,
                              !.plan = d])
    /\ UNCHANGED clock

\* The client confirms what it has on its screen.
BeginConfirm(p) ==
  \E k \in Itineraries : LET i == itineraries[k].inquiry IN
    /\ itineraries[k].status # "none"
    /\ clock < MaxConfirms
    /\ clock' = clock + 1
    /\ Begin(p, [Blank EXCEPT !.op = "confirm", !.inquiry = i, !.itinerary = k,
                              !.version = itineraries[k].version,
                              !.inquiryVersion = inquiries[i].version,
                              !.plan = itineraries[k].plan,
                              !.facts = inquiries[i].facts, !.at = clock + 1])

BeginCreateTour(p) ==
  \E k \in Itineraries, t \in Tours :
    /\ quotes[k].frozen
    /\ tours[t].status = "none"
    /\ \A q \in Procs : req[q].tour # t
    /\ Begin(p, [Blank EXCEPT !.op = "createTour", !.tour = t, !.itinerary = k,
                              !.inquiry = itineraries[k].inquiry])
    /\ UNCHANGED clock

-----------------------------------------------------------------------------
(* The transaction *)

Finish(p) ==
  /\ pc' = [pc EXCEPT ![p] = "idle"]
  /\ req' = [req EXCEPT ![p] = Blank]
  /\ lock' = [i \in Inquiries |-> IF lock[i] = p THEN NoOne ELSE lock[i]]
  /\ UNCHANGED clock

\* A BusinessException, a refused content, a lost connection.
Rollback(p) == pc[p] # "idle" /\ Finish(p) /\ UNCHANGED rows

Goto(p, next) == pc' = [pc EXCEPT ![p] = next] /\ UNCHANGED <<rows, clock, req>>

LockInquiry_NoLock(p) ==
  /\ pc[p] = "lock"
  /\ Live(req[p].inquiry)
  /\ Goto(p, "check")
  /\ UNCHANGED lock

\* A row deleted while the transaction waited is not found: it rolls back.
LockInquiry(p) ==
  /\ pc[p] = "lock"
  /\ lock[req[p].inquiry] = NoOne
  /\ Live(req[p].inquiry)
  /\ lock' = [lock EXCEPT ![req[p].inquiry] = p]
  /\ Goto(p, "check")

InquirySeen(r) == r.inquiryVersion = inquiries[r.inquiry].version
ItinerarySeen(r, k) == r.version = itineraries[k].version
Draft(k) == itineraries[k].status = "draft"

\* confirmPdf: the quote that this very request, sent before, has frozen.
Replays_AnyVersion(r) == r.op = "confirm" /\ quotes[r.itinerary].frozen
Replays(r) ==
  /\ r.op = "confirm"
  /\ quotes[r.itinerary].frozen
  /\ quotes[r.itinerary].version = r.version
  /\ quotes[r.itinerary].inquiryVersion = r.inquiryVersion

\* What each operation checks under the lock; delete and transfer do not ask
\* whether the inquiry is writable.
Allowed(r) ==
  LET i == r.inquiry  k == r.itinerary
  IN /\ NoActiveTour(i)
     /\ r.op \notin {"delete", "transfer"} => Writable(i)
     /\ r.op \in {"update", "archive", "delete", "transfer", "confirm"} => InquirySeen(r)
     /\ r.op \in {"saveItinerary", "confirm"} => ItinerarySeen(r, k) /\ Draft(k)
     /\ r.op = "copy" => ItinerarySeen(r, r.plan)
     /\ r.op = "transfer" => r.facts # inquiries[i].facts
     /\ r.op = "createTour" => Latest(i, k) /\ quotes[k].downloaded

\* The quote frozen earlier is the answer; nothing is written.
ReplayConfirm(p) == pc[p] = "check" /\ Replays(req[p]) /\ Finish(p) /\ UNCHANGED rows

Check(p) ==
  /\ pc[p] = "check"
  /\ ~Replays(req[p])
  /\ Allowed(req[p])
  /\ Goto(p, "save")
  /\ UNCHANGED lock

\* An unchanged inquiry is not written, and keeps its version.
InquirySaved(i, row) ==
  [inquiries EXCEPT ![i] = IF row = inquiries[i] THEN row
                           ELSE [row EXCEPT !.version = inquiries[i].version + 1]]

\* The itinerary that is copied lends its content, not itself.
NewPlan(r) == IF r.op = "copy" THEN itineraries[r.plan].plan ELSE r.plan

\* planning: creating or copying an itinerary reopens the planning of the inquiry.
Planning_Kept(i) == inquiries
Planning(i) == InquirySaved(i, [inquiries[i] EXCEPT !.status = "planning"])

CommitInquiry(p) ==
  LET r == req[p]  row == inquiries[r.inquiry]
  IN /\ pc[p] = "save"
     /\ r.op \in {"update", "archive", "delete", "transfer"}
     /\ inquiries' = InquirySaved(r.inquiry,
          CASE r.op = "update"   -> [row EXCEPT !.facts = r.facts, !.status = r.status]
            [] r.op = "archive"  -> [row EXCEPT !.status = "archived"]
            [] r.op = "delete"   -> [row EXCEPT !.status = "deleted"]
            [] r.op = "transfer" -> [row EXCEPT !.facts = r.facts])
     /\ Finish(p)
     /\ UNCHANGED <<itineraries, quotes, tours>>

CommitNewItinerary(p) ==
  LET r == req[p]
  IN /\ pc[p] = "save"
     /\ r.op \in {"createItinerary", "copy"}
     /\ itineraries' = [itineraries EXCEPT ![r.itinerary] =
          [inquiry |-> r.inquiry, status |-> "draft", version |-> 1, plan |-> NewPlan(r)]]
     /\ inquiries' = Planning(r.inquiry)
     /\ Finish(p)
     /\ UNCHANGED <<quotes, tours>>

\* A save that changes only details advances the itinerary's version as well.
ItinerarySaved_SameVersion(k, d) == [itineraries[k] EXCEPT !.plan = d]
ItinerarySaved(k, d) ==
  IF d = itineraries[k].plan THEN itineraries[k]
  ELSE [itineraries[k] EXCEPT !.plan = d, !.version = itineraries[k].version + 1]

CommitSaveItinerary(p) ==
  LET k == req[p].itinerary
  IN /\ pc[p] = "save"
     /\ req[p].op = "saveItinerary"
     /\ itineraries' = [itineraries EXCEPT ![k] = ItinerarySaved(k, req[p].plan)]
     /\ Finish(p)
     /\ UNCHANGED <<inquiries, quotes, tours>>

\* An inquiry that is quoted already is written again only for another user.
CommitConfirm(p) ==
  LET r == req[p]  k == r.itinerary  i == r.inquiry
  IN /\ pc[p] = "save"
     /\ r.op = "confirm"
     /\ quotes' = [quotes EXCEPT ![k] =
          [frozen |-> TRUE, at |-> r.at, version |-> itineraries[k].version,
           inquiryVersion |-> inquiries[i].version, facts |-> inquiries[i].facts,
           plan |-> itineraries[k].plan, downloaded |-> FALSE]]
     /\ itineraries' = [itineraries EXCEPT ![k] =
          [itineraries[k] EXCEPT !.status = "quoted",
                                 !.version = itineraries[k].version + 1]]
     /\ \E bump \in {0, 1} :
          /\ inquiries[i].status # "quoted" => bump = 1
          /\ inquiries' = [inquiries EXCEPT ![i] =
               [inquiries[i] EXCEPT !.status = "quoted",
                                    !.version = inquiries[i].version + bump]]
     /\ Finish(p)
     /\ UNCHANGED tours

CommitCreateTour(p) ==
  /\ pc[p] = "save"
  /\ req[p].op = "createTour"
  /\ tours' = [tours EXCEPT ![req[p].tour] =
       [status |-> "active", inquiry |-> req[p].inquiry, quote |-> req[p].itinerary]]
  /\ Finish(p)
  /\ UNCHANGED <<inquiries, itineraries, quotes>>

\* recordDownload: one UPDATE, with nothing locked before it.
RecordDownload(k) ==
  /\ quotes[k].frozen
  /\ quotes' = [quotes EXCEPT ![k] = [quotes[k] EXCEPT !.downloaded = TRUE]]
  /\ UNCHANGED <<inquiries, itineraries, tours, clock, pc, req, lock>>

\* ToursService.cancel locks the tour, never the inquiry.
CancelTour(t) ==
  /\ tours[t].status = "active"
  /\ tours' = [tours EXCEPT ![t] = [tours[t] EXCEPT !.status = "cancelled"]]
  /\ UNCHANGED <<inquiries, itineraries, quotes, clock, pc, req, lock>>

-----------------------------------------------------------------------------
Request(p) ==
  \/ BeginOnInquiry(p) \/ BeginCreateItinerary(p) \/ BeginCopy(p)
  \/ BeginSaveItinerary(p) \/ BeginConfirm(p) \/ BeginCreateTour(p)

Work(p) ==
  \/ LockInquiry(p) \/ ReplayConfirm(p) \/ Check(p) \/ CommitInquiry(p) \/ CommitNewItinerary(p)
  \/ CommitSaveItinerary(p) \/ CommitConfirm(p) \/ CommitCreateTour(p)

Next ==
  \/ \E p \in Procs : Request(p) \/ Work(p) \/ Rollback(p)
  \/ \E i \in Inquiries : CreateInquiry(i)
  \/ \E k \in Itineraries : RecordDownload(k)
  \/ \E t \in Tours : CancelTour(t)

Spec == Init /\ [][Next]_vars

-----------------------------------------------------------------------------
(* Properties *)

\* An active tour is made from the newest quote of an inquiry that is neither closed
\* nor deleted, a quote somebody has downloaded, and no inquiry has two of them.
TourFromLatestQuote ==
  \A t \in Tours : tours[t].status = "active" => LET i == tours[t].inquiry IN
    /\ Live(i) /\ Writable(i)
    /\ tours[t].quote \in QuotesOf(i) /\ quotes[tours[t].quote].downloaded
    /\ \A k \in QuotesOf(i) : quotes[k].at <= quotes[tours[t].quote].at
    /\ ActiveTours(i) = {t}

\* A confirmation freezes, and a repeated one answers with, exactly what its client
\* had on the screen: versions stand for content, of the inquiry and the itinerary.
ConfirmedAsSeen ==
  \A p \in Procs : LET r == req[p] IN
    r.op = "confirm" =>
      /\ pc[p] = "check" /\ Replays(r) =>
           quotes[r.itinerary].plan = r.plan /\ quotes[r.itinerary].facts = r.facts
      /\ pc[p] = "save" =>
           itineraries[r.itinerary].plan = r.plan /\ inquiries[r.inquiry].facts = r.facts

\* The status of an inquiry agrees with its itineraries: a new one has none, a quoted
\* one has a frozen quote, and an itinerary is quoted exactly when it has a quote.
StatusesAgree ==
  /\ \A k \in Itineraries : quotes[k].frozen <=> itineraries[k].status = "quoted"
  /\ \A i \in Inquiries :
       /\ inquiries[i].status = "quoted" => QuotesOf(i) # {}
       /\ inquiries[i].status = "new" => \A k \in Itineraries : itineraries[k].inquiry # i

\* Sales of frozen offers, as FrozenOffers specifies them.
Offers == INSTANCE FrozenOffers WITH
  Offers <- Itineraries, Contents <- Plans \X Facts, NoContent <- NoOne, NotSold <- NoOne,
  offers <- [i \in Inquiries |-> [k \in Itineraries |->
               IF quotes[k].frozen /\ itineraries[k].inquiry = i
               THEN <<quotes[k].plan, quotes[k].facts>> ELSE NoOne]],
  sold <- [i \in Inquiries |->
             IF ActiveTours(i) = {} THEN NoOne
             ELSE tours[CHOOSE t \in Tours : t \in ActiveTours(i)].quote],
  closed <- {i \in Inquiries : inquiries[i].status \in Closed \cup {"deleted"}}

\* The inquiry services implement FrozenOffers: frozen content is never rewritten,
\* nothing is frozen for a sold or closed inquiry, closing is for good, and no
\* inquiry is sold twice.
KeepsOffers == Offers!Spec

-----------------------------------------------------------------------------
(* The invariant behind the properties, for any sets and bounds.            *)

InquiryRow == [status : {"none", "new", "planning", "quoted", "lost", "archived", "deleted"},
               facts : Facts \cup {NoOne}, version : Nat]

ItineraryRow == [inquiry : Inquiries \cup {NoOne}, status : {"none", "draft", "quoted"},
                 plan : Plans \cup {NoOne}, version : Nat]

QuoteRow == [frozen : BOOLEAN, at : Nat, version : Nat, inquiryVersion : Nat,
             facts : Facts \cup {NoOne}, plan : Plans \cup {NoOne}, downloaded : BOOLEAN]

TourRow == [status : {"none", "active", "cancelled"}, inquiry : Inquiries \cup {NoOne},
            quote : Itineraries \cup {NoOne}]

OnInquiry == {"update", "archive", "delete", "transfer"}
NewItinerary == {"createItinerary", "copy"}
OnItinerary == {"saveItinerary", "confirm", "createTour"}

Asked == [op : OnInquiry \cup NewItinerary \cup OnItinerary \cup {"none"},
          inquiry : Inquiries \cup {NoOne}, itinerary : Itineraries \cup {NoOne},
          tour : Tours \cup {NoOne}, version : Nat, inquiryVersion : Nat,
          plan : Plans \cup Itineraries \cup {NoOne}, facts : Facts \cup {NoOne},
          status : {"none", "new", "planning", "quoted", "lost", "archived", "deleted"},
          at : Nat]

InquiryTypes ==
  /\ inquiries \in [Inquiries -> InquiryRow]
  /\ itineraries \in [Itineraries -> ItineraryRow]
  /\ quotes \in [Itineraries -> QuoteRow]
  /\ tours \in [Tours -> TourRow]
  /\ clock \in Nat
  /\ pc \in [Procs -> {"idle", "lock", "check", "save"}]
  /\ req \in [Procs -> Asked]
  /\ lock \in [Inquiries -> Procs \cup {NoOne}]

\* An inquiry that was created has content.
InquirySound(i) ==
  /\ IF inquiries[i].status = "none" THEN inquiries[i] = NoInquiry
     ELSE inquiries[i].facts \in Facts
  /\ inquiries[i].status = "quoted" => QuotesOf(i) # {}
  /\ inquiries[i].status = "new" => \A k \in Itineraries : itineraries[k].inquiry # i

\* An itinerary belongs to a created inquiry, and its quote is older than itself.
ItinerarySound(k) ==
  /\ IF itineraries[k].status = "none" THEN itineraries[k] = NoItinerary
     ELSE /\ itineraries[k].inquiry \in Inquiries /\ itineraries[k].plan \in Plans
          /\ inquiries[itineraries[k].inquiry].status # "none"
  /\ quotes[k].frozen <=> itineraries[k].status = "quoted"
  /\ quotes[k].frozen => /\ quotes[k].version < itineraries[k].version
                         /\ quotes[k].plan \in Plans /\ quotes[k].facts \in Facts

\* TourFromLatestQuote, of one tour.
TourSound(t) ==
  tours[t].status = "active" => LET i == tours[t].inquiry IN
    /\ i \in Inquiries /\ Live(i) /\ Writable(i)
    /\ tours[t].quote \in QuotesOf(i) /\ quotes[tours[t].quote].downloaded
    /\ \A k \in QuotesOf(i) : quotes[k].at <= quotes[tours[t].quote].at
    /\ ActiveTours(i) = {t}

\* What an inquiry or itinerary still is while it has the version a request names.
SeenInquiry(r) ==
  /\ r.inquiryVersion <= inquiries[r.inquiry].version
  /\ InquirySeen(r) => /\ r.op = "update" => r.status \in {inquiries[r.inquiry].status, "lost"}
                       /\ r.op = "confirm" => r.facts = inquiries[r.inquiry].facts

SeenItinerary(r) ==
  /\ r.version <= itineraries[r.itinerary].version
  /\ ItinerarySeen(r, r.itinerary) => r.plan = itineraries[r.itinerary].plan
  /\ Replays(r) => quotes[r.itinerary].plan = r.plan /\ quotes[r.itinerary].facts = r.facts

\* A request names rows that are there, and new rows that are its own.
RequestSound(p) ==
  LET r == req[p]
  IN /\ pc[p] = "idle" <=> r.op = "none"
     /\ r.op = "none" => r = Blank
     /\ r.op # "none" => r.inquiry \in Inquiries /\ inquiries[r.inquiry].status # "none"
     /\ r.op \in {"update", "transfer"} => r.facts \in Facts
     /\ r.op \in OnInquiry \cup {"confirm"} => SeenInquiry(r)
     /\ r.op \in NewItinerary =>
          /\ r.itinerary \in Itineraries /\ itineraries[r.itinerary] = NoItinerary
          /\ \A q \in Procs \ {p} : req[q].itinerary # r.itinerary
     /\ r.op \in {"createItinerary", "saveItinerary"} => r.plan \in Plans
     /\ r.op = "copy" => /\ r.plan \in Itineraries /\ itineraries[r.plan].status # "none"
                         /\ itineraries[r.plan].inquiry = r.inquiry
     /\ r.op \in OnItinerary =>
          /\ r.itinerary \in Itineraries /\ itineraries[r.itinerary].status # "none"
          /\ itineraries[r.itinerary].inquiry = r.inquiry
     /\ r.op = "confirm" => SeenItinerary(r)
     /\ r.op = "createTour" =>
          /\ r.tour \in Tours /\ tours[r.tour].status = "none"
          /\ \A q \in Procs \ {p} : req[q].tour # r.tour

\* A transaction past its lock holds its inquiry, and what it has checked stays true.
HoldsInquiry(p) ==
  /\ pc[p] \in {"check", "save"} => lock[req[p].inquiry] = p /\ Live(req[p].inquiry)
  /\ pc[p] = "save" => Allowed(req[p])

InquiryInv ==
  /\ InquiryTypes
  /\ \A i \in Inquiries : InquirySound(i)
  /\ \A k \in Itineraries : ItinerarySound(k)
  /\ \A t \in Tours : TourSound(t)
  /\ \A p \in Procs : RequestSound(p) /\ HoldsInquiry(p)

=============================================================================
