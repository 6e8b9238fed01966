---------------------------- MODULE InquiryProofs ----------------------------
(****************************************************************************)
(* InquiryInv is inductive, and the transactions of InquiryLifecycle        *)
(* implement FrozenOffers, for any number of transactions, inquiries,       *)
(* itineraries and tours, any contents and any bounds.                      *)
(****************************************************************************)
EXTENDS InquiryLifecycle, TLAPS

-----------------------------------------------------------------------------
(* Types *)

\* The records that rows and requests start as.
LEMMA EmptyRows ==
  /\ NoInquiry \in InquiryRow /\ NoItinerary \in ItineraryRow /\ NoQuote \in QuoteRow
  /\ [status |-> "none", inquiry |-> NoOne, quote |-> NoOne] \in TourRow
  /\ Blank \in Asked
BY DEF NoInquiry, InquiryRow, NoItinerary, ItineraryRow, NoQuote, QuoteRow, TourRow, Blank, Asked

\* The states the system starts in are typed.
LEMMA InitTypes == Init => InquiryTypes
BY EmptyRows DEF Init, InquiryTypes

\* A version is never more than one step from the next.
LEMMA InquirySavedTyped ==
  ASSUME InquiryTypes, NEW i \in Inquiries, NEW row \in InquiryRow
  PROVE  InquirySaved(i, row) \in [Inquiries -> InquiryRow]
<1>1. inquiries[i].version + 1 \in Nat
  BY DEF InquiryTypes, InquiryRow
<1>2. [row EXCEPT !.version = inquiries[i].version + 1] \in InquiryRow
  BY <1>1, Zenon DEF InquiryRow
<1> QED BY <1>2 DEF InquirySaved, InquiryTypes

\* A new request keeps the types.
LEMMA RequestTypes ==
  ASSUME InquiryInv, NEW p \in Procs, Request(p)
  PROVE  InquiryTypes'
<1> USE DEF rows
<1>0. InquiryTypes
  BY DEF InquiryInv
<1>1. ASSUME NEW request \in Asked, Begin(p, request), clock' \in Nat PROVE InquiryTypes'
  BY <1>0, <1>1 DEF Begin, InquiryTypes
<1>2. CASE BeginOnInquiry(p)
  <2>1. PICK i, op, f, s :
          /\ i \in Inquiries /\ op \in OnInquiry /\ f \in Facts \cup {NoOne}
          /\ s \in {inquiries[i].status, "lost", "none"}
          /\ Begin(p, [Blank EXCEPT !.op = op, !.inquiry = i, !.facts = f, !.status = s,
                                    !.inquiryVersion = inquiries[i].version])
    BY <1>2 DEF BeginOnInquiry, OnInquiry
  <2>2. /\ inquiries[i].version \in Nat
        /\ s \in {"none", "new", "planning", "quoted", "lost", "archived", "deleted"}
    BY <1>0, <2>1 DEF InquiryTypes, InquiryRow
  <2>3. [Blank EXCEPT !.op = op, !.inquiry = i, !.facts = f, !.status = s,
                      !.inquiryVersion = inquiries[i].version] \in Asked
    BY <2>1, <2>2, EmptyRows DEF Blank, Asked
  <2> QED BY <1>0, <1>1, <1>2, <2>1, <2>3 DEF BeginOnInquiry, InquiryTypes
<1>3. CASE BeginCreateItinerary(p)
  <2>1. PICK i \in Inquiries, k \in Itineraries, d \in Plans :
          Begin(p, [Blank EXCEPT !.op = "createItinerary", !.inquiry = i,
                                 !.itinerary = k, !.plan = d])
    BY <1>3 DEF BeginCreateItinerary
  <2>2. [Blank EXCEPT !.op = "createItinerary", !.inquiry = i, !.itinerary = k, !.plan = d]
          \in Asked
    BY DEF Blank, Asked, NewItinerary
  <2> QED BY <1>0, <1>1, <1>3, <2>1, <2>2 DEF BeginCreateItinerary, InquiryTypes
<1>4. CASE BeginCopy(p)
  <2>1. PICK j \in Itineraries, k \in Itineraries :
          Begin(p, [Blank EXCEPT !.op = "copy", !.inquiry = itineraries[j].inquiry,
                                 !.itinerary = k, !.plan = j,
                                 !.version = itineraries[j].version])
    BY <1>4 DEF BeginCopy
  <2>2. itineraries[j].version \in Nat /\ itineraries[j].inquiry \in Inquiries \cup {NoOne}
    BY <1>0 DEF InquiryTypes, ItineraryRow
  <2>3. [Blank EXCEPT !.op = "copy", !.inquiry = itineraries[j].inquiry, !.itinerary = k,
                      !.plan = j, !.version = itineraries[j].version] \in Asked
    BY <2>2 DEF Blank, Asked, NewItinerary
  <2> QED BY <1>0, <1>1, <1>4, <2>1, <2>3 DEF BeginCopy, InquiryTypes
<1>5. CASE BeginSaveItinerary(p)
  <2>1. PICK k \in Itineraries, d \in Plans :
          Begin(p, [Blank EXCEPT !.op = "saveItinerary", !.inquiry = itineraries[k].inquiry,
                                 !.itinerary = k, !.version = itineraries[k].version,
                                 !.plan = d])
    BY <1>5 DEF BeginSaveItinerary
  <2>2. itineraries[k].version \in Nat /\ itineraries[k].inquiry \in Inquiries \cup {NoOne}
    BY <1>0 DEF InquiryTypes, ItineraryRow
  <2>3. [Blank EXCEPT !.op = "saveItinerary", !.inquiry = itineraries[k].inquiry,
                      !.itinerary = k, !.version = itineraries[k].version, !.plan = d] \in Asked
    BY <2>2 DEF Blank, Asked, OnItinerary
  <2> QED BY <1>0, <1>1, <1>5, <2>1, <2>3 DEF BeginSaveItinerary, InquiryTypes
<1>6. CASE BeginConfirm(p)
  <2>1. PICK k \in Itineraries :
          /\ itineraries[k].status # "none"
          /\ Begin(p, [Blank EXCEPT !.op = "confirm", !.inquiry = itineraries[k].inquiry,
                                    !.itinerary = k, !.version = itineraries[k].version,
                                    !.inquiryVersion = inquiries[itineraries[k].inquiry].version,
                                    !.plan = itineraries[k].plan,
                                    !.facts = inquiries[itineraries[k].inquiry].facts,
                                    !.at = clock + 1])
    BY <1>6 DEF BeginConfirm
  <2>2. itineraries[k].inquiry \in Inquiries /\ itineraries[k].plan \in Plans
    BY <2>1 DEF InquiryInv, ItinerarySound
  <2>3. /\ itineraries[k].version \in Nat /\ inquiries[itineraries[k].inquiry].version \in Nat
        /\ inquiries[itineraries[k].inquiry].facts \in Facts \cup {NoOne}
        /\ clock + 1 \in Nat
    BY <1>0, <2>2 DEF InquiryTypes, ItineraryRow, InquiryRow
  <2>4. [Blank EXCEPT !.op = "confirm", !.inquiry = itineraries[k].inquiry, !.itinerary = k,
                      !.version = itineraries[k].version,
                      !.inquiryVersion = inquiries[itineraries[k].inquiry].version,
                      !.plan = itineraries[k].plan,
                      !.facts = inquiries[itineraries[k].inquiry].facts,
                      !.at = clock + 1] \in Asked
    BY <2>2, <2>3, EmptyRows DEF Blank, Asked, OnItinerary
  <2>5. clock' \in Nat
    BY <1>6, <2>3 DEF BeginConfirm
  <2> QED BY <1>1, <2>1, <2>4, <2>5
<1>7. CASE BeginCreateTour(p)
  <2>1. PICK k \in Itineraries, t \in Tours :
          Begin(p, [Blank EXCEPT !.op = "createTour", !.tour = t, !.itinerary = k,
                                 !.inquiry = itineraries[k].inquiry])
    BY <1>7 DEF BeginCreateTour
  <2>2. itineraries[k].inquiry \in Inquiries \cup {NoOne}
    BY <1>0 DEF InquiryTypes, ItineraryRow
  <2>3. [Blank EXCEPT !.op = "createTour", !.tour = t, !.itinerary = k,
                      !.inquiry = itineraries[k].inquiry] \in Asked
    BY <2>2 DEF Blank, Asked, OnItinerary
  <2> QED BY <1>0, <1>1, <1>7, <2>1, <2>3 DEF BeginCreateTour, InquiryTypes
<1> QED BY <1>2, <1>3, <1>4, <1>5, <1>6, <1>7 DEF Request

\* The end of a transaction leaves everything typed.
LEMMA FinishTypes ==
  ASSUME InquiryTypes, NEW p \in Procs, Finish(p)
  PROVE  /\ clock' \in Nat
         /\ pc' \in [Procs -> {"idle", "lock", "check", "save"}]
         /\ req' \in [Procs -> Asked]
         /\ lock' \in [Inquiries -> Procs \cup {NoOne}]
BY EmptyRows DEF InquiryTypes, Finish

\* A transaction about to write holds the inquiry it names, and may write.
LEMMA SaveHas ==
  ASSUME InquiryInv, NEW p \in Procs, pc[p] = "save"
  PROVE  /\ req[p].inquiry \in Inquiries /\ req[p] \in Asked
         /\ lock[req[p].inquiry] = p /\ Live(req[p].inquiry)
         /\ Allowed(req[p]) /\ ActiveTours(req[p].inquiry) = {}
         /\ RequestSound(p)
BY ZenonT(40) DEF InquiryInv, InquiryTypes, RequestSound, HoldsInquiry, Allowed, NoActiveTour

\* The steps of a transaction keep the types.
LEMMA WorkTypes ==
  ASSUME InquiryInv, NEW p \in Procs, Work(p) \/ Rollback(p)
  PROVE  InquiryTypes'
<1> DEFINE r == req[p]
<1> USE DEF rows
<1>0. InquiryTypes
  BY DEF InquiryInv
<1>1. CASE Rollback(p) \/ ReplayConfirm(p)
  BY <1>0, <1>1, FinishTypes DEF Rollback, ReplayConfirm, InquiryTypes
<1>2. CASE LockInquiry(p) \/ Check(p)
  BY <1>0, <1>2 DEF LockInquiry, Check, Goto, InquiryTypes
<1>3. CASE CommitInquiry(p)
  <2>1. r.inquiry \in Inquiries /\ r \in Asked
    BY <1>3, SaveHas DEF CommitInquiry
  <2>2. inquiries[r.inquiry] \in InquiryRow
    BY <1>0, <2>1 DEF InquiryTypes
  <2>3. ASSUME NEW s \in {"none", "new", "planning", "quoted", "lost", "archived", "deleted"},
               NEW f \in Facts \cup {NoOne}
        PROVE  /\ [inquiries[r.inquiry] EXCEPT !.facts = f, !.status = s] \in InquiryRow
               /\ [inquiries[r.inquiry] EXCEPT !.status = s] \in InquiryRow
               /\ [inquiries[r.inquiry] EXCEPT !.facts = f] \in InquiryRow
    BY <2>2, Zenon DEF InquiryRow
  <2>4. /\ [inquiries[r.inquiry] EXCEPT !.facts = r.facts, !.status = r.status] \in InquiryRow
        /\ [inquiries[r.inquiry] EXCEPT !.facts = r.facts] \in InquiryRow
        /\ [inquiries[r.inquiry] EXCEPT !.status = "archived"] \in InquiryRow
        /\ [inquiries[r.inquiry] EXCEPT !.status = "deleted"] \in InquiryRow
    BY <2>1, <2>3 DEF Asked
  <2>5. inquiries' \in [Inquiries -> InquiryRow]
    BY <1>0, <1>3, <2>1, <2>4, InquirySavedTyped DEF CommitInquiry
  <2> QED BY <1>0, <1>3, <2>5, FinishTypes DEF CommitInquiry, InquiryTypes
<1>4. CASE CommitNewItinerary(p)
  <2>1. r.inquiry \in Inquiries /\ r \in Asked /\ RequestSound(p)
    BY <1>4, SaveHas DEF CommitNewItinerary
  <2>2. [inquiries[r.inquiry] EXCEPT !.status = "planning"] \in InquiryRow
    <3>1. inquiries[r.inquiry] \in InquiryRow
      BY <1>0, <2>1 DEF InquiryTypes
    <3> QED BY <3>1, Zenon DEF InquiryRow
  <2>3. inquiries' \in [Inquiries -> InquiryRow]
    BY <1>0, <1>4, <2>1, <2>2, InquirySavedTyped DEF CommitNewItinerary, Planning
  <2>4. NewPlan(r) \in Plans \cup {NoOne}
    BY <1>0, <1>4, <2>1 DEF CommitNewItinerary, NewPlan, RequestSound, InquiryTypes, ItineraryRow
  <2>5. itineraries' \in [Itineraries -> ItineraryRow]
    BY <1>0, <1>4, <2>1, <2>4 DEF CommitNewItinerary, InquiryTypes, ItineraryRow
  <2> QED BY <1>0, <1>4, <2>3, <2>5, FinishTypes DEF CommitNewItinerary, InquiryTypes
<1>5. CASE CommitSaveItinerary(p)
  <2>1. r.itinerary \in Itineraries /\ r.plan \in Plans
    BY <1>5, SaveHas DEF CommitSaveItinerary, RequestSound, OnItinerary
  <2>2. itineraries[r.itinerary] \in ItineraryRow /\ itineraries[r.itinerary].version + 1 \in Nat
    BY <1>0, <2>1 DEF InquiryTypes, ItineraryRow
  <2>3. ItinerarySaved(r.itinerary, r.plan) \in ItineraryRow
    BY <2>1, <2>2, Zenon DEF ItinerarySaved, ItineraryRow
  <2> QED BY <1>0, <1>5, <2>3, FinishTypes DEF CommitSaveItinerary, InquiryTypes
<1>6. CASE CommitConfirm(p)
  <2>1. /\ r.inquiry \in Inquiries /\ r \in Asked
        /\ r.itinerary \in Itineraries
    BY <1>6, SaveHas DEF CommitConfirm, RequestSound, OnItinerary
  <2>2. /\ itineraries[r.itinerary] \in ItineraryRow
        /\ itineraries[r.itinerary].version \in Nat /\ itineraries[r.itinerary].version + 1 \in Nat
        /\ itineraries[r.itinerary].plan \in Plans \cup {NoOne}
        /\ inquiries[r.inquiry] \in InquiryRow /\ inquiries[r.inquiry].facts \in Facts \cup {NoOne}
        /\ inquiries[r.inquiry].version \in Nat
        /\ \A bump \in {0, 1} : inquiries[r.inquiry].version + bump \in Nat
        /\ r.at \in Nat
    BY <1>0, <2>1 DEF InquiryTypes, ItineraryRow, InquiryRow, Asked
  <2>3. [itineraries[r.itinerary] EXCEPT !.status = "quoted",
                                         !.version = itineraries[r.itinerary].version + 1]
          \in ItineraryRow
    BY <2>2, Zenon DEF ItineraryRow
  <2>4. \A bump \in {0, 1} :
          [inquiries[r.inquiry] EXCEPT !.status = "quoted",
                                       !.version = inquiries[r.inquiry].version + bump]
            \in InquiryRow
    BY <2>2, Zenon DEF InquiryRow
  <2>5. [frozen |-> TRUE, at |-> r.at, version |-> itineraries[r.itinerary].version,
         inquiryVersion |-> inquiries[r.inquiry].version, facts |-> inquiries[r.inquiry].facts,
         plan |-> itineraries[r.itinerary].plan, downloaded |-> FALSE] \in QuoteRow
    BY <2>2 DEF QuoteRow
  <2>6. inquiries' \in [Inquiries -> InquiryRow]
    BY <1>0, <1>6, <2>4 DEF CommitConfirm, InquiryTypes
  <2> QED BY <1>0, <1>6, <2>3, <2>5, <2>6, FinishTypes DEF CommitConfirm, InquiryTypes
<1>7. CASE CommitCreateTour(p)
  <2>1. r.inquiry \in Inquiries /\ r.itinerary \in Itineraries
    BY <1>7, SaveHas DEF CommitCreateTour, RequestSound, OnItinerary
  <2> QED BY <1>0, <1>7, <2>1, FinishTypes DEF CommitCreateTour, InquiryTypes, TourRow
<1> QED BY <1>1, <1>2, <1>3, <1>4, <1>5, <1>6, <1>7 DEF Work

\* The steps outside transactions keep the types.
LEMMA OutsideTypes ==
  ASSUME InquiryTypes,
         \/ \E i \in Inquiries : CreateInquiry(i)
         \/ \E k \in Itineraries : RecordDownload(k)
         \/ \E t \in Tours : CancelTour(t)
  PROVE  InquiryTypes'
<1>1. ASSUME NEW i \in Inquiries, CreateInquiry(i) PROVE InquiryTypes'
  BY <1>1 DEF CreateInquiry, InquiryTypes, InquiryRow
<1>2. ASSUME NEW k \in Itineraries, RecordDownload(k) PROVE InquiryTypes'
  <2>1. quotes[k] \in QuoteRow
    BY DEF InquiryTypes
  <2>2. [quotes[k] EXCEPT !.downloaded = TRUE] \in QuoteRow
    BY <2>1, Zenon DEF QuoteRow
  <2> QED BY <1>2, <2>2 DEF RecordDownload, InquiryTypes
<1>3. ASSUME NEW t \in Tours, CancelTour(t) PROVE InquiryTypes'
  <2>1. tours[t] \in TourRow
    BY DEF InquiryTypes
  <2>2. [tours[t] EXCEPT !.status = "cancelled"] \in TourRow
    BY <2>1, Zenon DEF TourRow
  <2> QED BY <1>3, <2>2 DEF CancelTour, InquiryTypes
<1> QED BY <1>1, <1>2, <1>3
-----------------------------------------------------------------------------
(* What a step leaves alone *)

\* Rows stay, and keep their content as long as they keep their version; a quote is
\* kept, or frozen from the rows as they are.
Later ==
  /\ \A i \in Inquiries :
       /\ inquiries[i].status # "none" => inquiries'[i].status # "none"
       /\ inquiries[i].version <= inquiries'[i].version
       /\ inquiries[i].status # "none" /\ inquiries'[i].version = inquiries[i].version =>
            /\ inquiries'[i].status = inquiries[i].status
            /\ inquiries'[i].facts = inquiries[i].facts
  /\ \A k \in Itineraries :
       /\ itineraries[k].status # "none" =>
            /\ itineraries'[k].status # "none"
            /\ itineraries'[k].inquiry = itineraries[k].inquiry
            /\ itineraries[k].version <= itineraries'[k].version
            /\ itineraries'[k].version = itineraries[k].version =>
                 itineraries'[k].plan = itineraries[k].plan
       /\ quotes'[k].frozen =>
            \/ /\ quotes[k].frozen /\ quotes'[k].version = quotes[k].version
               /\ quotes'[k].inquiryVersion = quotes[k].inquiryVersion
               /\ quotes'[k].plan = quotes[k].plan /\ quotes'[k].facts = quotes[k].facts
            \/ /\ itineraries[k].inquiry \in Inquiries
               /\ quotes'[k].version = itineraries[k].version
               /\ quotes'[k].plan = itineraries[k].plan
               /\ quotes'[k].inquiryVersion = inquiries[itineraries[k].inquiry].version
               /\ quotes'[k].facts = inquiries[itineraries[k].inquiry].facts

\* Nothing of an inquiry changes but that its quote is downloaded or its tour cancelled.
Untouched(i) ==
  /\ inquiries'[i] = inquiries[i]
  /\ \A k \in Itineraries :
       /\ itineraries'[k].inquiry = i <=> itineraries[k].inquiry = i
       /\ itineraries[k].inquiry = i =>
            /\ itineraries'[k] = itineraries[k]
            /\ quotes'[k].frozen = quotes[k].frozen /\ quotes'[k].at = quotes[k].at
            /\ quotes[k].downloaded => quotes'[k].downloaded
  /\ \A t \in ActiveTours(i)' : t \in ActiveTours(i) /\ tours'[t] = tours[t]

\* Where the rows stay, they are as they were.
LEMMA RowsStay ==
  ASSUME InquiryTypes, UNCHANGED rows
  PROVE  Later /\ \A i \in Inquiries : Untouched(i)
BY DEF InquiryTypes, InquiryRow, ItineraryRow, Later, Untouched, ActiveTours, rows

\* The steps outside transactions change content only where there was none.
LEMMA OutsideKeeps ==
  ASSUME InquiryInv,
         \/ \E i \in Inquiries : CreateInquiry(i)
         \/ \E k \in Itineraries : RecordDownload(k)
         \/ \E t \in Tours : CancelTour(t)
  PROVE  /\ Later
         /\ \A i \in Inquiries :
              inquiries'[i] = inquiries[i] \/ inquiries[i].status # "none" => Untouched(i)
<1>0. /\ \A i \in Inquiries : inquiries[i].version \in Nat
      /\ \A k \in Itineraries : itineraries[k].version \in Nat
      /\ InquiryTypes
  BY DEF InquiryInv, InquiryTypes, InquiryRow, ItineraryRow
<1>1. ASSUME NEW i \in Inquiries, CreateInquiry(i)
      PROVE  /\ Later
             /\ \A j \in Inquiries :
                  inquiries'[j] = inquiries[j] \/ inquiries[j].status # "none" => Untouched(j)
  <2>1. \A j \in Inquiries : j # i => inquiries'[j] = inquiries[j]
    BY <1>0, <1>1 DEF CreateInquiry, InquiryTypes
  <2>2. /\ inquiries'[i].version = 1 /\ inquiries'[i].status # "none"
        /\ inquiries[i] = NoInquiry
    BY <1>0, <1>1 DEF CreateInquiry, InquiryTypes, InquiryInv, InquirySound
  <2>3. UNCHANGED <<itineraries, quotes, tours>>
    BY <1>1 DEF CreateInquiry
  <2>4. Later
    BY <1>0, <1>1, <2>1, <2>2, <2>3 DEF Later, NoInquiry
  <2> QED BY <2>1, <2>2, <2>3, <2>4 DEF Untouched, ActiveTours, NoInquiry
<1>2. ASSUME NEW k \in Itineraries, RecordDownload(k)
      PROVE  Later /\ \A i \in Inquiries : Untouched(i)
  <2>1. /\ \A j \in Itineraries :
             /\ quotes'[j].frozen = quotes[j].frozen /\ quotes'[j].at = quotes[j].at
             /\ quotes'[j].version = quotes[j].version
             /\ quotes'[j].inquiryVersion = quotes[j].inquiryVersion
             /\ quotes'[j].plan = quotes[j].plan /\ quotes'[j].facts = quotes[j].facts
             /\ quotes[j].downloaded => quotes'[j].downloaded
        /\ UNCHANGED <<inquiries, itineraries, tours>>
    BY <1>0, <1>2 DEF RecordDownload, InquiryTypes, QuoteRow
  <2> QED BY <1>0, <2>1 DEF Later, Untouched, ActiveTours
<1>3. ASSUME NEW t \in Tours, CancelTour(t)
      PROVE  Later /\ \A i \in Inquiries : Untouched(i)
  <2>1. /\ \A u \in Tours : tours'[u] = tours[u] \/ tours'[u].status = "cancelled"
        /\ UNCHANGED <<inquiries, itineraries, quotes>>
    BY <1>0, <1>3 DEF CancelTour, InquiryTypes, TourRow
  <2> QED BY <1>0, <2>1 DEF Later, Untouched, ActiveTours
<1> QED BY <1>1, <1>2, <1>3

\* A commit touches no inquiry but the one it holds, and leaves requests their footing.
LEMMA CommitKeeps ==
  ASSUME InquiryInv, NEW p \in Procs,
         \/ CommitInquiry(p) \/ CommitNewItinerary(p) \/ CommitSaveItinerary(p)
         \/ CommitConfirm(p) \/ CommitCreateTour(p)
  PROVE  /\ Later
         /\ \A j \in Inquiries : j # req[p].inquiry => Untouched(j)
<1>0. pc[p] = "save"
  BY DEF CommitInquiry, CommitNewItinerary, CommitSaveItinerary, CommitConfirm, CommitCreateTour
<1> PICK i \in Inquiries : i = req[p].inquiry
  BY <1>0, SaveHas
<1> DEFINE r == req[p]
<1>1. InquiryTypes /\ RequestSound(p) /\ Live(i) /\ r \in Asked
  BY <1>0, SaveHas DEF InquiryInv
<1>2. /\ \A j \in Inquiries : inquiries[j].version \in Nat
      /\ \A k \in Itineraries : itineraries[k].version \in Nat
  BY <1>1 DEF InquiryTypes, InquiryRow, ItineraryRow
<1>3. ASSUME NEW row \in InquiryRow, inquiries' = InquirySaved(i, row)
      PROVE  /\ \A j \in Inquiries : j # i => inquiries'[j] = inquiries[j]
             /\ \/ inquiries'[i] = inquiries[i]
                \/ /\ inquiries'[i].version = inquiries[i].version + 1
                   /\ inquiries'[i].status = row.status /\ inquiries'[i].facts = row.facts
  BY <1>1, <1>3 DEF InquirySaved, InquiryTypes, InquiryRow
<1>4. inquiries[i] \in InquiryRow /\ inquiries[i].status # "none"
  BY <1>1 DEF InquiryTypes, Live
<1>5. CASE CommitInquiry(p)
  <2>1. UNCHANGED <<itineraries, quotes, tours>>
    BY <1>5 DEF CommitInquiry
  <2>2. ASSUME NEW row \in InquiryRow, inquiries' = InquirySaved(i, row), row.status # "none"
        PROVE  /\ Later
               /\ \A j \in Inquiries : j # i => Untouched(j)
    <3>1. /\ \A j \in Inquiries : j # i => inquiries'[j] = inquiries[j]
          /\ inquiries'[i].status # "none"
          /\ \/ inquiries'[i] = inquiries[i]
             \/ inquiries'[i].version = inquiries[i].version + 1
      BY <1>3, <1>4, <2>2
    <3> QED BY <1>2, <2>1, <3>1 DEF Later, Untouched, ActiveTours
  <2>3. /\ r.facts \in Facts \cup {NoOne}
        /\ r.op = "update" => r.status \in {inquiries[i].status, "lost"}
    BY <1>0, <1>1, SaveHas DEF Asked, RequestSound, SeenInquiry, OnInquiry, Allowed
  <2>4. /\ [inquiries[i] EXCEPT !.status = "archived"] \in InquiryRow
        /\ [inquiries[i] EXCEPT !.status = "deleted"] \in InquiryRow
        /\ [inquiries[i] EXCEPT !.facts = r.facts] \in InquiryRow
        /\ r.op = "update" =>
             [inquiries[i] EXCEPT !.facts = r.facts, !.status = r.status] \in InquiryRow
    BY <1>4, <2>3 DEF InquiryRow
  <2>5. /\ [inquiries[i] EXCEPT !.status = "archived"].status # "none"
        /\ [inquiries[i] EXCEPT !.status = "deleted"].status # "none"
        /\ [inquiries[i] EXCEPT !.facts = r.facts].status # "none"
        /\ r.op = "update" =>
             [inquiries[i] EXCEPT !.facts = r.facts, !.status = r.status].status # "none"
    BY <1>4, <2>3 DEF InquiryRow
  <2> QED BY <1>5, <2>2, <2>4, <2>5 DEF CommitInquiry
<1>6. CASE CommitNewItinerary(p)
  <2> DEFINE k == r.itinerary
  <2>1. /\ k \in Itineraries /\ itineraries[k] = NoItinerary
        /\ \A j \in Itineraries : j # k => itineraries'[j] = itineraries[j]
        /\ itineraries'[k].inquiry = i
        /\ UNCHANGED <<quotes, tours>>
    BY <1>1, <1>6 DEF CommitNewItinerary, RequestSound, InquiryTypes, NewItinerary
  <2>2. /\ \A j \in Inquiries : j # i => inquiries'[j] = inquiries[j]
        /\ \/ inquiries'[i] = inquiries[i]
           \/ /\ inquiries'[i].version = inquiries[i].version + 1
              /\ inquiries'[i].status = "planning"
    <3>1. /\ [inquiries[i] EXCEPT !.status = "planning"] \in InquiryRow
          /\ [inquiries[i] EXCEPT !.status = "planning"].status = "planning"
      BY <1>4 DEF InquiryRow
    <3> QED BY <1>3, <1>6, <3>1 DEF CommitNewItinerary, Planning
  <2>3. NoOne \notin Inquiries
    BY NoOneAssumption
  <2>4. Later
    <3>1. \A j \in Inquiries :
            /\ inquiries[j].status # "none" => inquiries'[j].status # "none"
            /\ inquiries[j].version <= inquiries'[j].version
            /\ inquiries[j].status # "none" /\ inquiries'[j].version = inquiries[j].version =>
                 /\ inquiries'[j].status = inquiries[j].status
                 /\ inquiries'[j].facts = inquiries[j].facts
      BY <1>2, <1>4, <2>2
    <3>2. \A j \in Itineraries : itineraries[j].status # "none" =>
            itineraries'[j] = itineraries[j]
      BY <2>1 DEF NoItinerary
    <3> QED BY <1>2, <2>1, <3>1, <3>2 DEF Later
  <2>5. ASSUME NEW j \in Inquiries, j # i PROVE Untouched(j)
    <3>1. \A m \in Itineraries :
            /\ itineraries'[m].inquiry = j <=> itineraries[m].inquiry = j
            /\ itineraries[m].inquiry = j => itineraries'[m] = itineraries[m]
      BY <2>1, <2>3, <2>5 DEF NoItinerary
    <3> QED BY <2>1, <2>2, <2>5, <3>1 DEF Untouched, ActiveTours
  <2> QED BY <2>4, <2>5
<1>7. CASE CommitSaveItinerary(p)
  <2> DEFINE k == r.itinerary
  <2>1. /\ k \in Itineraries /\ itineraries[k].inquiry = i
        /\ \A j \in Itineraries : j # k => itineraries'[j] = itineraries[j]
        /\ itineraries'[k].status = itineraries[k].status
        /\ itineraries'[k].inquiry = i
        /\ \/ itineraries'[k] = itineraries[k]
           \/ itineraries'[k].version = itineraries[k].version + 1
        /\ UNCHANGED <<inquiries, quotes, tours>>
    BY <1>1, <1>7 DEF CommitSaveItinerary, ItinerarySaved, RequestSound, InquiryTypes,
                      OnItinerary, ItineraryRow
  <2>2. Later
    BY <1>2, <2>1 DEF Later
  <2> QED BY <2>1, <2>2 DEF Untouched, ActiveTours
<1>8. CASE CommitConfirm(p)
  <2> DEFINE k == r.itinerary
  <2>1. /\ k \in Itineraries /\ itineraries[k].inquiry = i
        /\ \A j \in Itineraries : j # k => itineraries'[j] = itineraries[j] /\ quotes'[j] = quotes[j]
        /\ itineraries'[k].status = "quoted" /\ itineraries'[k].inquiry = i
        /\ itineraries'[k].version = itineraries[k].version + 1
        /\ quotes'[k].version = itineraries[k].version
        /\ quotes'[k].plan = itineraries[k].plan
        /\ quotes'[k].inquiryVersion = inquiries[i].version
        /\ quotes'[k].facts = inquiries[i].facts
        /\ UNCHANGED tours
    BY SMTT(30), <1>1, <1>8 DEF CommitConfirm, RequestSound, InquiryTypes, OnItinerary, ItineraryRow
  <2>2. /\ \A j \in Inquiries : j # i => inquiries'[j] = inquiries[j]
        /\ inquiries'[i].status = "quoted" /\ inquiries'[i].facts = inquiries[i].facts
        /\ \/ /\ inquiries'[i].version = inquiries[i].version
              /\ inquiries[i].status = "quoted"
           \/ inquiries'[i].version = inquiries[i].version + 1
    <3>1. PICK bump \in {0, 1} :
            /\ inquiries[i].status # "quoted" => bump = 1
            /\ inquiries' = [inquiries EXCEPT ![i] =
                 [inquiries[i] EXCEPT !.status = "quoted",
                                      !.version = inquiries[i].version + bump]]
      BY <1>8 DEF CommitConfirm
    <3>2. inquiries'[i] = [inquiries[i] EXCEPT !.status = "quoted",
                                               !.version = inquiries[i].version + bump]
      BY <1>1, <3>1 DEF InquiryTypes
    <3>3. /\ inquiries'[i].status = "quoted" /\ inquiries'[i].facts = inquiries[i].facts
          /\ inquiries'[i].version = inquiries[i].version + bump
      BY <1>4, <3>2 DEF InquiryRow
    <3> QED BY <1>1, <1>2, <3>1, <3>3 DEF InquiryTypes
  <2>3. Later
    <3>1. \A j \in Inquiries :
            /\ inquiries[j].status # "none" => inquiries'[j].status # "none"
            /\ inquiries[j].version <= inquiries'[j].version
            /\ inquiries[j].status # "none" /\ inquiries'[j].version = inquiries[j].version =>
                 /\ inquiries'[j].status = inquiries[j].status
                 /\ inquiries'[j].facts = inquiries[j].facts
      BY <1>2, <2>2
    <3> DEFINE Older(j) ==
             /\ itineraries[j].status # "none" =>
                  /\ itineraries'[j].status # "none"
                  /\ itineraries'[j].inquiry = itineraries[j].inquiry
                  /\ itineraries[j].version <= itineraries'[j].version
                  /\ itineraries'[j].version = itineraries[j].version =>
                       itineraries'[j].plan = itineraries[j].plan
             /\ quotes'[j].frozen =>
                  \/ /\ quotes[j].frozen /\ quotes'[j].version = quotes[j].version
                     /\ quotes'[j].inquiryVersion = quotes[j].inquiryVersion
                     /\ quotes'[j].plan = quotes[j].plan /\ quotes'[j].facts = quotes[j].facts
                  \/ /\ itineraries[j].inquiry \in Inquiries
                     /\ quotes'[j].version = itineraries[j].version
                     /\ quotes'[j].plan = itineraries[j].plan
                     /\ quotes'[j].inquiryVersion = inquiries[itineraries[j].inquiry].version
                     /\ quotes'[j].facts = inquiries[itineraries[j].inquiry].facts
    <3>2. Older(k)
      BY <1>2, <2>1
    <3>3. \A j \in Itineraries : j # k => Older(j)
      BY <1>2, <2>1
    <3> HIDE DEF k
    <3>4. \A j \in Itineraries : Older(j)
      BY <3>2, <3>3
    <3> QED BY <3>1, <3>4 DEF Later
  <2> QED BY <2>1, <2>2, <2>3 DEF Untouched, ActiveTours
<1>9. CASE CommitCreateTour(p)
  <2>1. /\ UNCHANGED <<inquiries, itineraries, quotes>>
        /\ \A t \in Tours : tours'[t] = tours[t] \/ tours'[t].inquiry = i
    BY <1>1, <1>9 DEF CommitCreateTour, InquiryTypes, RequestSound, OnItinerary
  <2>2. Later
    BY <1>2, <2>1 DEF Later
  <2> QED BY <2>1, <2>2 DEF Untouched, ActiveTours
<1> QED BY <1>5, <1>6, <1>7, <1>8, <1>9

-----------------------------------------------------------------------------
(* What stays sound *)

\* An inquiry nothing happens to stays sound, with its tours.
LEMMA UntouchedSound ==
  ASSUME InquiryInv, NEW i \in Inquiries, Untouched(i)
  PROVE  /\ InquirySound(i)'
         /\ \A t \in Tours : tours'[t].inquiry = i => TourSound(t)'
<1>1. /\ QuotesOf(i)' = QuotesOf(i)
      /\ \A k \in QuotesOf(i) : /\ quotes'[k].at = quotes[k].at
                                /\ quotes[k].downloaded => quotes'[k].downloaded
  BY DEF Untouched, QuotesOf
<1>2. InquirySound(i)'
  BY <1>1 DEF InquiryInv, InquirySound, Untouched
<1>3. ASSUME NEW t \in Tours, tours'[t].inquiry = i, tours'[t].status = "active"
      PROVE  TourSound(t)'
  <2>1. t \in ActiveTours(i)'
    BY <1>3 DEF ActiveTours
  <2>2. tours'[t] = tours[t] /\ tours[t].status = "active" /\ tours[t].inquiry = i
    BY <1>3, <2>1 DEF Untouched
  <2>3. TourSound(t)
    BY DEF InquiryInv
  <2>4. Live(i)' /\ Writable(i)'
    BY <2>2, <2>3 DEF TourSound, Live, Writable, Untouched
  <2>5. /\ tours'[t].quote \in QuotesOf(i)' /\ quotes'[tours'[t].quote].downloaded
        /\ \A k \in QuotesOf(i)' : quotes'[k].at <= quotes'[tours'[t].quote].at
    BY <1>1, <2>2, <2>3 DEF TourSound
  <2>6. ActiveTours(i)' = {t}
    BY <2>1, <2>2, <2>3 DEF TourSound, Untouched
  <2> QED BY <1>3, <2>4, <2>5, <2>6 DEF TourSound
<1>4. \A t \in Tours : tours'[t].status # "active" => TourSound(t)'
  BY DEF TourSound
<1> QED BY <1>2, <1>3, <1>4

\* A request that was not answered, and whose new rows are still its own, stays sound.
LEMMA RequestKept ==
  ASSUME InquiryInv, InquiryTypes', Later, NEW q \in Procs,
         req'[q] = req[q], pc'[q] = "idle" <=> pc[q] = "idle",
         req[q].op \in NewItinerary =>
           /\ itineraries'[req[q].itinerary] = itineraries[req[q].itinerary]
           /\ \A x \in Procs \ {q} : req'[x].itinerary # req[q].itinerary,
         req[q].op = "createTour" =>
           /\ tours'[req[q].tour] = tours[req[q].tour]
           /\ \A x \in Procs \ {q} : req'[x].tour # req[q].tour
  PROVE  RequestSound(q)'
<1> DEFINE r == req[q]
<1>0. RequestSound(q) /\ r \in Asked
  BY DEF InquiryInv, InquiryTypes
<1>1. r.op # "none" => r.inquiry \in Inquiries /\ inquiries'[r.inquiry].status # "none"
  BY <1>0 DEF RequestSound, Later
<1>2. r.op \in OnItinerary =>
        /\ r.itinerary \in Itineraries /\ itineraries'[r.itinerary].status # "none"
        /\ itineraries'[r.itinerary].inquiry = r.inquiry
  BY <1>0 DEF RequestSound, Later
<1>3. r.op = "copy" => /\ r.plan \in Itineraries /\ itineraries'[r.plan].status # "none"
                       /\ itineraries'[r.plan].inquiry = r.inquiry
  BY <1>0 DEF RequestSound, Later
<1>4. ASSUME r.op \in OnInquiry \cup {"confirm"} PROVE SeenInquiry(r)'
  <2>1. r.inquiry \in Inquiries /\ inquiries[r.inquiry].status # "none" /\ SeenInquiry(r)
    BY <1>0, <1>4 DEF RequestSound, OnInquiry
  <2>2. /\ inquiries[r.inquiry].version \in Nat /\ inquiries'[r.inquiry].version \in Nat
        /\ r.inquiryVersion \in Nat
    BY <1>0, <2>1 DEF InquiryInv, InquiryTypes, InquiryRow, Asked
  <2> QED BY <2>1, <2>2 DEF SeenInquiry, InquirySeen, Later
<1>5. ASSUME r.op = "confirm" PROVE SeenItinerary(r)'
  <2>0. r.itinerary \in Itineraries /\ r.inquiry \in Inquiries
    BY <1>0, <1>2, <1>5 DEF RequestSound, OnItinerary
  <2>1. /\ itineraries[r.itinerary].status # "none"
        /\ itineraries[r.itinerary].inquiry = r.inquiry
        /\ SeenItinerary(r) /\ SeenInquiry(r)
    BY <1>0, <1>5 DEF RequestSound, OnItinerary
  <2>2. /\ itineraries[r.itinerary].version \in Nat /\ itineraries'[r.itinerary].version \in Nat
        /\ r.version \in Nat
    BY <1>0, <2>0 DEF InquiryInv, InquiryTypes, ItineraryRow, Asked
  <2>3. /\ r.version <= itineraries'[r.itinerary].version
        /\ ItinerarySeen(r, r.itinerary)' => r.plan = itineraries'[r.itinerary].plan
    BY <2>0, <2>1, <2>2 DEF SeenItinerary, ItinerarySeen, Later
  <2>4. ASSUME Replays(r)'
        PROVE  quotes'[r.itinerary].plan = r.plan /\ quotes'[r.itinerary].facts = r.facts
    <3>1. /\ quotes'[r.itinerary].frozen /\ quotes'[r.itinerary].version = r.version
          /\ quotes'[r.itinerary].inquiryVersion = r.inquiryVersion
      BY <2>4 DEF Replays
    <3>2. CASE /\ quotes[r.itinerary].frozen
               /\ quotes'[r.itinerary].version = quotes[r.itinerary].version
               /\ quotes'[r.itinerary].inquiryVersion = quotes[r.itinerary].inquiryVersion
               /\ quotes'[r.itinerary].plan = quotes[r.itinerary].plan
               /\ quotes'[r.itinerary].facts = quotes[r.itinerary].facts
      BY <1>5, <2>1, <3>1, <3>2 DEF SeenItinerary, Replays
    <3>3. CASE /\ quotes'[r.itinerary].version = itineraries[r.itinerary].version
               /\ quotes'[r.itinerary].plan = itineraries[r.itinerary].plan
               /\ quotes'[r.itinerary].inquiryVersion = inquiries[r.inquiry].version
               /\ quotes'[r.itinerary].facts = inquiries[r.inquiry].facts
      BY <1>5, <2>1, <3>1, <3>3 DEF SeenItinerary, ItinerarySeen, SeenInquiry, InquirySeen
    <3> QED BY <2>0, <2>1, <3>1, <3>2, <3>3 DEF Later
  <2> QED BY <2>3, <2>4 DEF SeenItinerary
<1> QED BY <1>0, <1>1, <1>2, <1>3, <1>4, <1>5 DEF RequestSound, NewItinerary

\* What a transaction has checked stays true while nobody else touches its inquiry.
LEMMA HoldsKept ==
  ASSUME InquiryInv, NEW q \in Procs, req'[q] = req[q], pc'[q] = pc[q],
         pc[q] \in {"check", "save"} =>
           /\ Untouched(req[q].inquiry)
           /\ lock'[req[q].inquiry] = lock[req[q].inquiry]
  PROVE  HoldsInquiry(q)'
<1> DEFINE r == req[q]
           i == req[q].inquiry
<1>0. RequestSound(q) /\ HoldsInquiry(q)
  BY DEF InquiryInv
<1>1. ASSUME pc[q] \in {"check", "save"} PROVE lock'[i] = q /\ Live(i)'
  BY <1>0, <1>1 DEF HoldsInquiry, Live, Untouched
<1>2. ASSUME pc[q] = "save" PROVE Allowed(r)'
  <2>1. i \in Inquiries /\ Untouched(i) /\ Allowed(r) /\ r.op # "none"
    BY <1>0, <1>2 DEF HoldsInquiry, RequestSound
  <2>2. NoActiveTour(i)'
    BY <2>1 DEF Allowed, NoActiveTour, Untouched
  <2>3. r.op \notin {"delete", "transfer"} => Writable(i)'
    BY <2>1 DEF Allowed, Writable, Untouched
  <2>4. /\ r.op \in {"update", "archive", "delete", "transfer", "confirm"} => InquirySeen(r)'
        /\ r.op = "transfer" => r.facts # inquiries'[i].facts
    BY <2>1 DEF Allowed, InquirySeen, Untouched
  <2>5. /\ r.op \in {"saveItinerary", "confirm"} => ItinerarySeen(r, r.itinerary)' /\ Draft(r.itinerary)'
        /\ r.op = "copy" => ItinerarySeen(r, r.plan)'
    BY <1>0, <2>1 DEF Allowed, RequestSound, OnItinerary, ItinerarySeen, Draft, Untouched
  <2>6. r.op = "createTour" => Latest(i, r.itinerary)' /\ quotes'[r.itinerary].downloaded
    <3>1. QuotesOf(i)' = QuotesOf(i)
      BY <2>1 DEF QuotesOf, Untouched
    <3>2. \A k \in QuotesOf(i) : /\ quotes'[k].at = quotes[k].at
                                 /\ quotes[k].downloaded => quotes'[k].downloaded
      BY <2>1 DEF QuotesOf, Untouched
    <3> QED BY <2>1, <3>1, <3>2 DEF Allowed, Latest
  <2> QED BY <2>2, <2>3, <2>4, <2>5, <2>6 DEF Allowed
<1> QED BY <1>1, <1>2 DEF HoldsInquiry

\* Rows that stay as they are stay sound.
LEMMA RowsKept ==
  ASSUME InquiryInv, UNCHANGED rows
  PROVE  /\ \A i \in Inquiries : InquirySound(i)'
         /\ \A k \in Itineraries : ItinerarySound(k)'
         /\ \A t \in Tours : TourSound(t)'
BY DEF InquiryInv, rows, InquirySound, ItinerarySound, TourSound, QuotesOf, ActiveTours,
       Live, Writable

\* A transaction that has ended is at rest; the others go on as they were.
LEMMA FinishKeeps ==
  ASSUME InquiryTypes, NEW p \in Procs, Finish(p)
  PROVE  /\ RequestSound(p)' /\ HoldsInquiry(p)'
         /\ \A q \in Procs : req'[q] = IF q = p THEN Blank ELSE req[q]
         /\ \A q \in Procs : q # p => pc'[q] = pc[q]
         /\ \A i \in Inquiries : lock[i] # p => lock'[i] = lock[i]
<1>1. /\ pc'[p] = "idle" /\ req'[p] = Blank
      /\ \A q \in Procs : req'[q] = IF q = p THEN Blank ELSE req[q]
      /\ \A q \in Procs : q # p => pc'[q] = pc[q]
      /\ \A i \in Inquiries : lock[i] # p => lock'[i] = lock[i]
  BY DEF Finish, InquiryTypes
<1>2. RequestSound(p)' /\ HoldsInquiry(p)'
  BY <1>1 DEF RequestSound, HoldsInquiry, Blank, OnInquiry, NewItinerary, OnItinerary
<1> QED BY <1>1, <1>2

-----------------------------------------------------------------------------
(* The steps *)

\* A new request names rows that are there, as they are, or rows nobody has yet.
LEMMA RequestOwn ==
  ASSUME InquiryInv, NEW p \in Procs, Request(p)
  PROVE  /\ RequestSound(p)' /\ HoldsInquiry(p)'
         /\ \A q \in Procs \ {p} :
              /\ req[q].op \in NewItinerary => req'[p].itinerary # req[q].itinerary
              /\ req[q].op = "createTour" => req'[p].tour # req[q].tour
<1> USE DEF OnInquiry, NewItinerary, OnItinerary
<1> DEFINE Own == /\ RequestSound(p)'
                  /\ \A q \in Procs \ {p} :
                       /\ req[q].op \in NewItinerary => req'[p].itinerary # req[q].itinerary
                       /\ req[q].op = "createTour" => req'[p].tour # req[q].tour
<1>0. /\ InquiryTypes
      /\ \A i \in Inquiries : inquiries[i].version \in Nat
      /\ \A k \in Itineraries : itineraries[k].version \in Nat
      /\ \A q \in Procs : /\ req[q].op \in NewItinerary =>
                               /\ req[q].itinerary \in Itineraries
                               /\ itineraries[req[q].itinerary].status = "none"
                          /\ req[q].op = "createTour" => req[q].tour \in Tours
      /\ \A k \in Itineraries : itineraries[k].status # "none" =>
           /\ itineraries[k].inquiry \in Inquiries
           /\ inquiries[itineraries[k].inquiry].status # "none"
      /\ NoOne \notin Inquiries \cup Itineraries \cup Tours
  BY NoOneAssumption
  DEF InquiryInv, InquiryTypes, InquiryRow, ItineraryRow, RequestSound, NoItinerary,
      ItinerarySound
<1>1. ASSUME NEW request, Begin(p, request)
      PROVE  /\ pc'[p] = "lock" /\ req'[p] = request
             /\ \A q \in Procs : q # p => req'[q] = req[q]
             /\ UNCHANGED rows
  BY <1>0, <1>1 DEF Begin, InquiryTypes
<1>2. CASE BeginOnInquiry(p)
  <2>1. PICK i, op, f, s :
          /\ i \in Inquiries /\ op \in OnInquiry /\ Live(i)
          /\ op \in {"update", "transfer"} => f \in Facts
          /\ op = "update" => s \in {inquiries[i].status, "lost"}
          /\ Begin(p, [Blank EXCEPT !.op = op, !.inquiry = i, !.facts = f, !.status = s,
                                    !.inquiryVersion = inquiries[i].version])
    BY <1>2 DEF BeginOnInquiry
  <2>a. /\ pc'[p] = "lock" /\ UNCHANGED rows
        /\ \A q \in Procs : q # p => req'[q] = req[q]
        /\ req'[p] =
             [Blank EXCEPT !.op = op, !.inquiry = i, !.facts = f, !.status = s,
                           !.inquiryVersion = inquiries[i].version]
    BY <1>1, <2>1
  <2>2. /\ req'[p].op = op /\ req'[p].inquiry = i /\ req'[p].facts = f /\ req'[p].status = s
        /\ req'[p].inquiryVersion = inquiries[i].version
        /\ req'[p].itinerary = NoOne /\ req'[p].tour = NoOne
        /\ pc'[p] = "lock" /\ UNCHANGED rows
    BY <2>a DEF Blank
  <2>3. SeenInquiry(req[p])'
    BY <1>0, <2>1, <2>2 DEF SeenInquiry, InquirySeen, rows
  <2>4. RequestSound(p)'
    BY <2>1, <2>2, <2>3 DEF RequestSound, Live, rows
  <2>5. Own
    BY <1>0, <2>2, <2>4
  <2> QED BY <2>2, <2>5 DEF HoldsInquiry
<1>3. CASE BeginCreateItinerary(p)
  <2>1. PICK i \in Inquiries, k \in Itineraries, d \in Plans :
          /\ Live(i) /\ itineraries[k].status = "none"
          /\ \A q \in Procs : req[q].itinerary # k
          /\ Begin(p, [Blank EXCEPT !.op = "createItinerary", !.inquiry = i,
                                    !.itinerary = k, !.plan = d])
    BY <1>3 DEF BeginCreateItinerary
  <2>a. /\ pc'[p] = "lock" /\ UNCHANGED rows
        /\ \A q \in Procs : q # p => req'[q] = req[q]
        /\ req'[p] =
             [Blank EXCEPT !.op = "createItinerary", !.inquiry = i,
                           !.itinerary = k, !.plan = d]
    BY <1>1, <2>1
  <2>2. /\ req'[p].op = "createItinerary" /\ req'[p].inquiry = i /\ req'[p].itinerary = k
        /\ req'[p].plan = d /\ req'[p].tour = NoOne
        /\ pc'[p] = "lock" /\ UNCHANGED rows
        /\ \A q \in Procs : q # p => req'[q] = req[q]
    BY <2>a DEF Blank
  <2>3. itineraries[k] = NoItinerary
    BY <2>1 DEF InquiryInv, ItinerarySound
  <2>4. RequestSound(p)'
    BY <2>1, <2>2, <2>3 DEF RequestSound, Live, rows
  <2>5. Own
    BY <1>0, <2>1, <2>2, <2>4
  <2> QED BY <2>2, <2>5 DEF HoldsInquiry
<1>4. CASE BeginCopy(p)
  <2>1. PICK j \in Itineraries, k \in Itineraries :
          /\ itineraries[j].status # "none" /\ itineraries[k].status = "none"
          /\ \A q \in Procs : req[q].itinerary # k
          /\ Begin(p, [Blank EXCEPT !.op = "copy", !.inquiry = itineraries[j].inquiry,
                                    !.itinerary = k, !.plan = j,
                                    !.version = itineraries[j].version])
    BY <1>4 DEF BeginCopy
  <2>a. /\ pc'[p] = "lock" /\ UNCHANGED rows
        /\ \A q \in Procs : q # p => req'[q] = req[q]
        /\ req'[p] =
             [Blank EXCEPT !.op = "copy", !.inquiry = itineraries[j].inquiry,
                           !.itinerary = k, !.plan = j,
                           !.version = itineraries[j].version]
    BY <1>1, <2>1
  <2>2. /\ req'[p].op = "copy" /\ req'[p].inquiry = itineraries[j].inquiry
        /\ req'[p].itinerary = k /\ req'[p].plan = j /\ req'[p].tour = NoOne
        /\ pc'[p] = "lock" /\ UNCHANGED rows
        /\ \A q \in Procs : q # p => req'[q] = req[q]
    BY <2>a DEF Blank
  <2>3. itineraries[k] = NoItinerary
    BY <2>1 DEF InquiryInv, ItinerarySound
  <2>4. RequestSound(p)'
    BY <1>0, <2>1, <2>2, <2>3 DEF RequestSound, rows
  <2>5. Own
    BY <1>0, <2>1, <2>2, <2>4
  <2> QED BY <2>2, <2>5 DEF HoldsInquiry
<1>5. CASE BeginSaveItinerary(p)
  <2>1. PICK k \in Itineraries, d \in Plans :
          /\ itineraries[k].status # "none"
          /\ Begin(p, [Blank EXCEPT !.op = "saveItinerary", !.inquiry = itineraries[k].inquiry,
                                    !.itinerary = k, !.version = itineraries[k].version,
                                    !.plan = d])
    BY <1>5 DEF BeginSaveItinerary
  <2>a. /\ pc'[p] = "lock" /\ UNCHANGED rows
        /\ \A q \in Procs : q # p => req'[q] = req[q]
        /\ req'[p] =
             [Blank EXCEPT !.op = "saveItinerary", !.inquiry = itineraries[k].inquiry,
                           !.itinerary = k, !.version = itineraries[k].version,
                           !.plan = d]
    BY <1>1, <2>1
  <2>2. /\ req'[p].op = "saveItinerary" /\ req'[p].inquiry = itineraries[k].inquiry
        /\ req'[p].itinerary = k /\ req'[p].plan = d /\ req'[p].tour = NoOne
        /\ pc'[p] = "lock" /\ UNCHANGED rows
    BY <2>a DEF Blank
  <2>3. RequestSound(p)'
    BY <1>0, <2>1, <2>2 DEF RequestSound, rows
  <2>4. Own
    BY <1>0, <2>1, <2>2, <2>3
  <2> QED BY <2>2, <2>4 DEF HoldsInquiry
<1>6. CASE BeginConfirm(p)
  <2>1. PICK k \in Itineraries :
          /\ itineraries[k].status # "none"
          /\ Begin(p, [Blank EXCEPT !.op = "confirm", !.inquiry = itineraries[k].inquiry,
                                    !.itinerary = k, !.version = itineraries[k].version,
                                    !.inquiryVersion = inquiries[itineraries[k].inquiry].version,
                                    !.plan = itineraries[k].plan,
                                    !.facts = inquiries[itineraries[k].inquiry].facts,
                                    !.at = clock + 1])
    BY <1>6 DEF BeginConfirm
  <2>a. /\ pc'[p] = "lock" /\ UNCHANGED rows
        /\ \A q \in Procs : q # p => req'[q] = req[q]
        /\ req'[p] =
             [Blank EXCEPT !.op = "confirm", !.inquiry = itineraries[k].inquiry,
                           !.itinerary = k, !.version = itineraries[k].version,
                           !.inquiryVersion = inquiries[itineraries[k].inquiry].version,
                           !.plan = itineraries[k].plan,
                           !.facts = inquiries[itineraries[k].inquiry].facts,
                           !.at = clock + 1]
    BY <1>1, <2>1
  <2>2. /\ req'[p].op = "confirm" /\ req'[p].inquiry = itineraries[k].inquiry
        /\ req'[p].itinerary = k /\ req'[p].plan = itineraries[k].plan
        /\ req'[p].tour = NoOne /\ req'[p].version = itineraries[k].version
        /\ req'[p].inquiryVersion = inquiries[itineraries[k].inquiry].version
        /\ req'[p].facts = inquiries[itineraries[k].inquiry].facts
        /\ pc'[p] = "lock" /\ UNCHANGED rows
    BY <2>a DEF Blank
  <2>3. SeenInquiry(req[p])'
    BY <1>0, <2>1, <2>2 DEF SeenInquiry, InquirySeen, rows
  <2>4. SeenItinerary(req[p])'
    <3>1. ~ (quotes[k].frozen /\ quotes[k].version = itineraries[k].version)
      <4>1. quotes[k].frozen => /\ quotes[k].version < itineraries[k].version
                                /\ quotes[k].version \in Nat
        BY <1>0 DEF InquiryInv, ItinerarySound, InquiryTypes, QuoteRow
      <4> QED BY <1>0, <4>1
    <3> QED BY <1>0, <2>1, <2>2, <3>1 DEF SeenItinerary, ItinerarySeen, Replays, rows
  <2>5. RequestSound(p)'
    BY <1>0, <2>1, <2>2, <2>3, <2>4 DEF RequestSound, rows
  <2>6. Own
    BY <1>0, <2>1, <2>2, <2>5
  <2> QED BY <2>2, <2>6 DEF HoldsInquiry
<1>7. CASE BeginCreateTour(p)
  <2>1. PICK k \in Itineraries, t \in Tours :
          /\ quotes[k].frozen /\ tours[t].status = "none"
          /\ \A q \in Procs : req[q].tour # t
          /\ Begin(p, [Blank EXCEPT !.op = "createTour", !.tour = t, !.itinerary = k,
                                    !.inquiry = itineraries[k].inquiry])
    BY <1>7 DEF BeginCreateTour
  <2>a. /\ pc'[p] = "lock" /\ UNCHANGED rows
        /\ \A q \in Procs : q # p => req'[q] = req[q]
        /\ req'[p] =
             [Blank EXCEPT !.op = "createTour", !.tour = t, !.itinerary = k,
                           !.inquiry = itineraries[k].inquiry]
    BY <1>1, <2>1
  <2>2. /\ req'[p].op = "createTour" /\ req'[p].inquiry = itineraries[k].inquiry
        /\ req'[p].itinerary = k /\ req'[p].tour = t
        /\ pc'[p] = "lock" /\ UNCHANGED rows
        /\ \A q \in Procs : q # p => req'[q] = req[q]
    BY <2>a DEF Blank
  <2>3. itineraries[k].status # "none"
    BY <2>1 DEF InquiryInv, ItinerarySound
  <2>4. RequestSound(p)'
    BY <1>0, <2>1, <2>2, <2>3 DEF RequestSound, rows
  <2>5. Own
    BY <1>0, <2>1, <2>2, <2>3, <2>4
  <2> QED BY <2>2, <2>5 DEF HoldsInquiry
<1> QED BY <1>2, <1>3, <1>4, <1>5, <1>6, <1>7 DEF Request

\* A step that writes no row keeps the invariant.
LEMMA QuietStep ==
  ASSUME InquiryInv, NEW p \in Procs,
         Request(p) \/ LockInquiry(p) \/ ReplayConfirm(p) \/ Check(p) \/ Rollback(p)
  PROVE  InquiryInv'
<1>0. InquiryTypes /\ InquiryTypes'
  BY RequestTypes, WorkTypes DEF InquiryInv, Work
<1>1. UNCHANGED rows
  BY DEF Request, BeginOnInquiry, BeginCreateItinerary, BeginCopy, BeginSaveItinerary,
         BeginConfirm, BeginCreateTour, Begin, LockInquiry, Goto, ReplayConfirm, Check, Rollback
<1>2. Later /\ \A i \in Inquiries : Untouched(i)
  BY <1>0, <1>1, RowsStay
<1>3. /\ \A q \in Procs : req[q].op # "none" => req[q].inquiry \in Inquiries
      /\ \A q \in Procs : pc[q] # "idle" => req[q].inquiry \in Inquiries
      /\ \A q \in Procs : /\ req[q].op \in NewItinerary => req[q].itinerary # NoOne
                          /\ req[q].op = "createTour" => req[q].tour # NoOne
  BY NoOneAssumption DEF InquiryInv, RequestSound, NewItinerary
<1>4. /\ \A q \in Procs : q # p => req'[q] = req[q] /\ pc'[q] = pc[q]
      /\ \A i \in Inquiries : lock[i] \in Procs \ {p} => lock'[i] = lock[i]
  <2>1. CASE Request(p)
    BY ZenonT(40), <1>0, <2>1 DEF Request, BeginOnInquiry, BeginCreateItinerary, BeginCopy, BeginSaveItinerary,
                      BeginConfirm, BeginCreateTour, Begin, InquiryTypes
  <2>2. CASE Finish(p)
    BY <1>0, <2>2, FinishKeeps
  <2>3. CASE LockInquiry(p) \/ Check(p)
    BY <1>0, <2>3, NoOneAssumption DEF LockInquiry, Check, Goto, InquiryTypes
  <2> QED BY <2>1, <2>2, <2>3 DEF ReplayConfirm, Rollback
<1>5. \A q \in Procs \ {p} :
        /\ req[q].op \in NewItinerary => req'[p].itinerary # req[q].itinerary
        /\ req[q].op = "createTour" => req'[p].tour # req[q].tour
  <2>1. CASE Request(p)
    BY <2>1, RequestOwn
  <2>2. CASE ~Request(p)
    <3>1. req'[p] \in {req[p], Blank}
      BY <1>0, <2>2, FinishKeeps DEF LockInquiry, Goto, ReplayConfirm, Check, Rollback
    <3> QED BY <1>3, <3>1 DEF InquiryInv, RequestSound, Blank
  <2> QED BY <2>1, <2>2
<1>6. ASSUME NEW q \in Procs, q # p PROVE RequestSound(q)'
  <2>1. \A x \in Procs \ {q} :
          /\ req[q].op \in NewItinerary => req'[x].itinerary # req[q].itinerary
          /\ req[q].op = "createTour" => req'[x].tour # req[q].tour
    BY <1>4, <1>5, <1>6 DEF InquiryInv, RequestSound
  <2> QED BY <1>0, <1>1, <1>2, <1>4, <1>6, <2>1, RequestKept DEF rows
<1>7. ASSUME NEW q \in Procs, q # p PROVE HoldsInquiry(q)'
  <2>1. pc[q] \in {"check", "save"} =>
          /\ Untouched(req[q].inquiry)
          /\ lock'[req[q].inquiry] = lock[req[q].inquiry]
    BY <1>2, <1>3, <1>4, <1>7 DEF InquiryInv, HoldsInquiry
  <2> QED BY <1>4, <1>7, <2>1, HoldsKept
<1>8. RequestSound(p)' /\ HoldsInquiry(p)'
  <2>1. CASE Request(p)
    BY <2>1, RequestOwn
  <2>2. CASE Finish(p)
    BY <1>0, <2>2, FinishKeeps
  <2>3. CASE LockInquiry(p) \/ Check(p)
    <3>1. /\ req' = req /\ pc[p] # "idle"
          /\ pc'[p] \in {"check", "save"}
      BY <1>0, <2>3 DEF LockInquiry, Check, Goto, InquiryTypes
    <3>2. RequestSound(p)'
      BY <1>0, <1>1, <1>2, <3>1, RequestKept DEF rows, InquiryInv, RequestSound
    <3>3. CASE LockInquiry(p)
      <4>1. lock'[req[p].inquiry] = p /\ pc'[p] = "check" /\ Live(req[p].inquiry)'
        BY <1>0, <1>1, <1>3, <3>1, <3>3 DEF LockInquiry, Goto, InquiryTypes, Live, rows
      <4> QED BY <3>1, <3>2, <4>1 DEF HoldsInquiry
    <3>4. CASE Check(p)
      <4>1. pc[p] = "check" /\ Allowed(req[p]) /\ lock' = lock /\ req' = req
        BY <3>4 DEF Check, Goto
      <4>2. Allowed(req[p])' /\ Live(req[p].inquiry)' = Live(req[p].inquiry)
        BY <1>1, <4>1 DEF rows, Allowed, NoActiveTour, ActiveTours, Writable, InquirySeen,
                          ItinerarySeen, Draft, Latest, QuotesOf, Live
      <4> QED BY <3>2, <4>1, <4>2 DEF InquiryInv, HoldsInquiry
    <3> QED BY <2>3, <3>3, <3>4
  <2> QED BY <2>1, <2>2, <2>3 DEF ReplayConfirm, Rollback
<1> QED BY <1>0, <1>1, <1>6, <1>7, <1>8, RowsKept DEF InquiryInv

\* A commit leaves the other transactions what they rely on.
LEMMA CommitOthers ==
  ASSUME InquiryInv, InquiryTypes', NEW p \in Procs,
         \/ CommitInquiry(p) \/ CommitNewItinerary(p) \/ CommitSaveItinerary(p)
         \/ CommitConfirm(p) \/ CommitCreateTour(p)
  PROVE  \A q \in Procs : RequestSound(q)' /\ HoldsInquiry(q)'
<1> USE DEF NewItinerary, OnItinerary
<1>0. pc[p] = "save" /\ Finish(p) /\ InquiryTypes
  BY DEF CommitInquiry, CommitNewItinerary, CommitSaveItinerary, CommitConfirm, CommitCreateTour,
         InquiryInv
<1>1. Later /\ \A j \in Inquiries : j # req[p].inquiry => Untouched(j)
  BY CommitKeeps
<1>2. /\ RequestSound(p)' /\ HoldsInquiry(p)'
      /\ \A q \in Procs : req'[q] = IF q = p THEN Blank ELSE req[q]
      /\ \A q \in Procs : q # p => pc'[q] = pc[q]
      /\ \A i \in Inquiries : lock[i] # p => lock'[i] = lock[i]
  BY <1>0, FinishKeeps
<1> SUFFICES ASSUME NEW q \in Procs, q # p PROVE RequestSound(q)' /\ HoldsInquiry(q)'
  BY <1>2
<1>3. RequestSound(q) /\ HoldsInquiry(q) /\ RequestSound(p)
  BY DEF InquiryInv
<1>4. /\ req[q].op \in NewItinerary => req[q].itinerary \in Itineraries
      /\ req[q].op \in NewItinerary => req[q].itinerary # NoOne
      /\ req[q].op = "createTour" => req[q].tour \in Tours /\ req[q].tour # NoOne
  BY <1>3, NoOneAssumption DEF RequestSound
<1>5. req[q].op \in NewItinerary =>
        /\ itineraries'[req[q].itinerary] = itineraries[req[q].itinerary]
        /\ \A x \in Procs \ {q} : req'[x].itinerary # req[q].itinerary
  <2> SUFFICES ASSUME req[q].op \in NewItinerary
               PROVE  /\ itineraries'[req[q].itinerary] = itineraries[req[q].itinerary]
                      /\ \A x \in Procs \ {q} : req'[x].itinerary # req[q].itinerary
    OBVIOUS
  <2>1. \A x \in Procs \ {q} : req'[x].itinerary # req[q].itinerary
    BY <1>2, <1>3, <1>4 DEF RequestSound, Blank
  <2>2. req[p].itinerary # req[q].itinerary
    BY <1>3 DEF RequestSound
  <2>3. \A k \in Itineraries : k # req[p].itinerary => itineraries'[k] = itineraries[k]
    BY <1>0 DEF CommitInquiry, CommitNewItinerary, CommitSaveItinerary, CommitConfirm,
                CommitCreateTour, InquiryTypes
  <2> QED BY <1>4, <2>1, <2>2, <2>3
<1>6. req[q].op = "createTour" =>
        /\ tours'[req[q].tour] = tours[req[q].tour]
        /\ \A x \in Procs \ {q} : req'[x].tour # req[q].tour
  <2> SUFFICES ASSUME req[q].op = "createTour"
               PROVE  /\ tours'[req[q].tour] = tours[req[q].tour]
                      /\ \A x \in Procs \ {q} : req'[x].tour # req[q].tour
    OBVIOUS
  <2>1. \A x \in Procs \ {q} : req'[x].tour # req[q].tour
    BY <1>2, <1>3, <1>4 DEF RequestSound, Blank
  <2>2. req[p].tour # req[q].tour
    BY <1>3 DEF RequestSound
  <2>3. \A t \in Tours : t # req[p].tour => tours'[t] = tours[t]
    BY <1>0 DEF CommitInquiry, CommitNewItinerary, CommitSaveItinerary, CommitConfirm,
                CommitCreateTour, InquiryTypes
  <2> QED BY <1>4, <2>1, <2>2, <2>3
<1>7. RequestSound(q)'
  BY <1>1, <1>2, <1>5, <1>6, RequestKept
<1>8. pc[q] \in {"check", "save"} =>
        /\ Untouched(req[q].inquiry)
        /\ lock'[req[q].inquiry] = lock[req[q].inquiry]
  <2>1. lock[req[p].inquiry] = p
    BY <1>0, SaveHas
  <2>2. pc[q] # "idle" => req[q].inquiry \in Inquiries
    BY <1>3 DEF RequestSound
  <2> QED BY <1>1, <1>2, <1>3, <2>1, <2>2 DEF HoldsInquiry
<1> QED BY <1>2, <1>7, <1>8, HoldsKept

\* The held inquiry has no active tour: after a commit that makes none, its tours are
\* sound, as are all other inquiries and tours.
LEMMA CommitTours ==
  ASSUME InquiryInv, NEW p \in Procs,
         \/ CommitInquiry(p) \/ CommitNewItinerary(p) \/ CommitSaveItinerary(p)
         \/ CommitConfirm(p)
  PROVE  \A t \in Tours : TourSound(t)'
<1>0. pc[p] = "save" /\ tours' = tours
  BY DEF CommitInquiry, CommitNewItinerary, CommitSaveItinerary, CommitConfirm
<1>1. \A j \in Inquiries : j # req[p].inquiry => Untouched(j)
  BY CommitKeeps
<1>2. ActiveTours(req[p].inquiry) = {}
  BY <1>0, SaveHas
<1> SUFFICES ASSUME NEW t \in Tours, tours'[t].status = "active" PROVE TourSound(t)'
  BY DEF TourSound
<1>3. tours[t].inquiry \in Inquiries /\ tours[t].inquiry # req[p].inquiry
  BY <1>0, <1>2 DEF InquiryInv, TourSound, ActiveTours
<1> QED BY <1>0, <1>1, <1>3, UntouchedSound

\* A write of an inquiry keeps the invariant.
LEMMA CommitInquiryStep ==
  ASSUME InquiryInv, NEW p \in Procs, CommitInquiry(p)
  PROVE  InquiryInv'
<1>0. pc[p] = "save"
  BY DEF CommitInquiry
<1> PICK i \in Inquiries : i = req[p].inquiry
  BY <1>0, SaveHas
<1> DEFINE r == req[p]
<1>1. InquiryTypes /\ InquiryTypes' /\ RequestSound(p) /\ Allowed(r)
  BY <1>0, SaveHas, WorkTypes DEF InquiryInv, Work
<1>2. Later /\ \A j \in Inquiries : j # i => Untouched(j)
  BY CommitKeeps
<1>3. UNCHANGED <<itineraries, quotes, tours>>
  BY DEF CommitInquiry
<1>4. inquiries[i] \in InquiryRow /\ inquiries[i].status # "none" /\ InquirySound(i)
  BY <1>0, <1>1, SaveHas DEF InquiryTypes, Live, InquiryInv
<1>5. /\ inquiries'[i].status \in {inquiries[i].status, "lost", "archived", "deleted"}
      /\ inquiries'[i].facts \in Facts
  <2>1. ASSUME NEW row \in InquiryRow, inquiries' = InquirySaved(i, row)
        PROVE  inquiries'[i].status = row.status /\ inquiries'[i].facts = row.facts
    BY <1>1, <2>1 DEF InquirySaved, InquiryTypes, InquiryRow
  <2>2. /\ r.op \in {"update", "transfer"} => r.facts \in Facts
        /\ r.op = "update" => r.status \in {inquiries[i].status, "lost"}
        /\ inquiries[i].facts \in Facts
    BY <1>1, <1>4 DEF RequestSound, SeenInquiry, OnInquiry, Allowed, InquirySound
  <2>3. CASE r.op = "update"
    <3>1. inquiries' = InquirySaved(i, [inquiries[i] EXCEPT !.facts = r.facts,
                                                            !.status = r.status])
      BY <2>3 DEF CommitInquiry
    <3>2. [inquiries[i] EXCEPT !.facts = r.facts, !.status = r.status] \in InquiryRow
      BY <1>4, <2>2, <2>3 DEF InquiryRow
    <3> QED BY <1>4, <2>1, <2>2, <2>3, <3>1, <3>2 DEF InquiryRow
  <2>4. CASE r.op = "archive"
    <3>1. [inquiries[i] EXCEPT !.status = "archived"] \in InquiryRow
      BY <1>4 DEF InquiryRow
    <3> QED BY <1>4, <2>1, <2>2, <2>4, <3>1 DEF CommitInquiry, InquiryRow
  <2>5. CASE r.op = "delete"
    <3>1. [inquiries[i] EXCEPT !.status = "deleted"] \in InquiryRow
      BY <1>4 DEF InquiryRow
    <3> QED BY <1>4, <2>1, <2>2, <2>5, <3>1 DEF CommitInquiry, InquiryRow
  <2>6. CASE r.op = "transfer"
    <3>1. [inquiries[i] EXCEPT !.facts = r.facts] \in InquiryRow
      BY <1>4, <2>2, <2>6 DEF InquiryRow
    <3> QED BY <1>4, <2>1, <2>2, <2>6, <3>1 DEF CommitInquiry, InquiryRow
  <2> QED BY <2>3, <2>4, <2>5, <2>6 DEF CommitInquiry
<1>6. InquirySound(i)'
  BY <1>3, <1>4, <1>5 DEF InquirySound, QuotesOf
<1>7. \A k \in Itineraries : ItinerarySound(k)'
  BY <1>2, <1>3 DEF InquiryInv, ItinerarySound, Later
<1>8. \A j \in Inquiries : InquirySound(j)'
  BY <1>2, <1>6, UntouchedSound
<1> QED BY <1>1, <1>7, <1>8, CommitTours, CommitOthers DEF InquiryInv

\* A new itinerary keeps it: its inquiry is planned again.
LEMMA CommitNewItineraryStep ==
  ASSUME InquiryInv, NEW p \in Procs, CommitNewItinerary(p)
  PROVE  InquiryInv'
<1>0. pc[p] = "save"
  BY DEF CommitNewItinerary
<1> PICK i \in Inquiries : i = req[p].inquiry
  BY <1>0, SaveHas
<1> DEFINE r == req[p]
<1>1. InquiryTypes /\ InquiryTypes' /\ RequestSound(p)
  BY <1>0, SaveHas, WorkTypes DEF InquiryInv, Work
<1>2. Later /\ \A j \in Inquiries : j # i => Untouched(j)
  BY CommitKeeps
<1>3. PICK k \in Itineraries : k = r.itinerary
  BY <1>1 DEF CommitNewItinerary, RequestSound, NewItinerary
<1>4. /\ itineraries[k] = NoItinerary /\ NewPlan(r) \in Plans
      /\ inquiries[i].status # "none"
  BY <1>1, <1>3 DEF CommitNewItinerary, RequestSound, NewItinerary, NewPlan, InquiryInv, ItinerarySound
<1>5. /\ itineraries' = [itineraries EXCEPT ![k] =
           [inquiry |-> i, status |-> "draft", version |-> 1, plan |-> NewPlan(r)]]
      /\ UNCHANGED <<quotes, tours>>
  BY <1>3 DEF CommitNewItinerary
<1>6. inquiries'[i].status = "planning" /\ inquiries'[i].facts = inquiries[i].facts
  <2>1. inquiries[i] \in InquiryRow
    BY <1>1 DEF InquiryTypes
  <2>2. inquiries' = InquirySaved(i, [inquiries[i] EXCEPT !.status = "planning"])
    BY DEF CommitNewItinerary, Planning
  <2> QED BY <1>1, <2>1, <2>2 DEF InquirySaved, InquiryTypes, InquiryRow
<1>7. InquirySound(i)'
  BY <1>4, <1>6 DEF InquiryInv, InquirySound
<1>8. ASSUME NEW j \in Itineraries PROVE ItinerarySound(j)'
  <2>1. CASE j = k
    <3>1. itineraries'[k] = [inquiry |-> i, status |-> "draft", version |-> 1, plan |-> NewPlan(r)]
      BY <1>1, <1>5 DEF InquiryTypes
    <3>2. ~quotes'[k].frozen
      BY <1>4, <1>5 DEF InquiryInv, ItinerarySound, NoItinerary
    <3> QED BY <1>4, <1>6, <2>1, <3>1, <3>2 DEF ItinerarySound
  <2>2. CASE j # k
    <3>1. itineraries'[j] = itineraries[j] /\ quotes' = quotes
      BY <1>1, <1>5, <2>2 DEF InquiryTypes
    <3> QED BY <1>2, <3>1 DEF InquiryInv, ItinerarySound, Later
  <2> QED BY <2>1, <2>2
<1>9. \A j \in Inquiries : InquirySound(j)'
  BY <1>2, <1>7, UntouchedSound
<1> QED BY <1>1, <1>8, <1>9, CommitTours, CommitOthers DEF InquiryInv

\* So does a save of an itinerary.
LEMMA CommitSaveItineraryStep ==
  ASSUME InquiryInv, NEW p \in Procs, CommitSaveItinerary(p)
  PROVE  InquiryInv'
<1>0. pc[p] = "save"
  BY DEF CommitSaveItinerary
<1> PICK i \in Inquiries : i = req[p].inquiry
  BY <1>0, SaveHas
<1> DEFINE r == req[p]
<1>1. InquiryTypes /\ InquiryTypes' /\ RequestSound(p) /\ Allowed(r)
  BY <1>0, SaveHas, WorkTypes DEF InquiryInv, Work
<1>2. Later /\ \A j \in Inquiries : j # i => Untouched(j)
  BY CommitKeeps
<1>3. PICK k \in Itineraries : k = r.itinerary
  BY <1>1 DEF CommitSaveItinerary, RequestSound, OnItinerary
<1>4. /\ itineraries[k].status = "draft" /\ itineraries[k].inquiry = i /\ r.plan \in Plans
      /\ itineraries[k] \in ItineraryRow
  BY <1>1, <1>3 DEF CommitSaveItinerary, RequestSound, OnItinerary, Allowed, Draft, InquiryTypes
<1>5. /\ itineraries' = [itineraries EXCEPT ![k] = ItinerarySaved(k, r.plan)]
      /\ UNCHANGED <<inquiries, quotes, tours>>
  BY <1>3 DEF CommitSaveItinerary
<1>6. /\ itineraries'[k].status = "draft" /\ itineraries'[k].inquiry = i
      /\ itineraries'[k].plan \in Plans
      /\ \A j \in Itineraries : j # k => itineraries'[j] = itineraries[j]
  BY <1>1, <1>4, <1>5 DEF InquiryTypes, ItinerarySaved, ItineraryRow, InquiryInv, ItinerarySound
<1>7. ASSUME NEW j \in Itineraries PROVE ItinerarySound(j)'
  <2>1. CASE j = k
    BY <1>2, <1>4, <1>5, <1>6, <2>1 DEF InquiryInv, ItinerarySound
  <2>2. CASE j # k
    BY <1>5, <1>6, <2>2 DEF InquiryInv, ItinerarySound
  <2> QED BY <2>1, <2>2
<1>8. InquirySound(i)'
  BY <1>4, <1>5, <1>6 DEF InquiryInv, InquirySound, QuotesOf
<1>9. \A j \in Inquiries : InquirySound(j)'
  BY <1>2, <1>8, UntouchedSound
<1> QED BY <1>1, <1>7, <1>9, CommitTours, CommitOthers DEF InquiryInv

\* A confirmation keeps it: the quote is frozen from the rows it was checked against.
LEMMA CommitConfirmStep ==
  ASSUME InquiryInv, NEW p \in Procs, CommitConfirm(p)
  PROVE  InquiryInv'
<1>0. pc[p] = "save"
  BY DEF CommitConfirm
<1> PICK i \in Inquiries : i = req[p].inquiry
  BY <1>0, SaveHas
<1> DEFINE r == req[p]
<1>1. InquiryTypes /\ InquiryTypes' /\ RequestSound(p) /\ Live(i)
  BY <1>0, SaveHas, WorkTypes DEF InquiryInv, Work
<1>2. Later /\ \A j \in Inquiries : j # i => Untouched(j)
  BY CommitKeeps
<1>3. PICK k \in Itineraries : k = r.itinerary
  BY <1>1 DEF CommitConfirm, RequestSound, OnItinerary
<1>4. /\ itineraries[k].status # "none" /\ itineraries[k].inquiry = i
      /\ itineraries[k] \in ItineraryRow /\ itineraries[k].plan \in Plans
      /\ inquiries[i] \in InquiryRow /\ inquiries[i].facts \in Facts
      /\ itineraries[k].version \in Nat
  BY <1>1, <1>3 DEF CommitConfirm, RequestSound, OnItinerary, InquiryTypes, InquiryInv,
                    ItinerarySound, InquirySound, ItineraryRow, Live
<1>5. /\ quotes'[k].frozen /\ quotes'[k].version = itineraries[k].version
      /\ quotes'[k].plan \in Plans /\ quotes'[k].facts \in Facts
      /\ itineraries'[k].status = "quoted" /\ itineraries'[k].inquiry = i
      /\ itineraries'[k].plan \in Plans
      /\ itineraries'[k].version = itineraries[k].version + 1
      /\ \A j \in Itineraries : j # k => itineraries'[j] = itineraries[j] /\ quotes'[j] = quotes[j]
  BY <1>1, <1>3, <1>4 DEF CommitConfirm, InquiryTypes, ItineraryRow
<1>6. inquiries'[i].status = "quoted" /\ inquiries'[i].facts = inquiries[i].facts
  <2>1. PICK bump \in {0, 1} :
          inquiries' = [inquiries EXCEPT ![i] =
            [inquiries[i] EXCEPT !.status = "quoted", !.version = inquiries[i].version + bump]]
    BY DEF CommitConfirm
  <2>2. inquiries'[i] = [inquiries[i] EXCEPT !.status = "quoted",
                                             !.version = inquiries[i].version + bump]
    BY <1>1, <2>1 DEF InquiryTypes
  <2> QED BY <1>4, <2>2 DEF InquiryRow
<1>7. ASSUME NEW j \in Itineraries PROVE ItinerarySound(j)'
  <2>1. CASE j = k
    BY <1>4, <1>5, <1>6, <2>1 DEF ItinerarySound
  <2>2. CASE j # k
    BY <1>2, <1>5, <2>2 DEF InquiryInv, ItinerarySound, Later
  <2> QED BY <2>1, <2>2
<1>8. InquirySound(i)'
  BY <1>4, <1>5, <1>6 DEF InquirySound, QuotesOf
<1>9. \A j \in Inquiries : InquirySound(j)'
  BY <1>2, <1>8, UntouchedSound
<1> QED BY <1>1, <1>7, <1>9, CommitTours, CommitOthers DEF InquiryInv

\* A new tour keeps it: its quote was checked under the lock that is still held.
LEMMA CommitCreateTourStep ==
  ASSUME InquiryInv, NEW p \in Procs, CommitCreateTour(p)
  PROVE  InquiryInv'
<1>0. pc[p] = "save"
  BY DEF CommitCreateTour
<1> PICK i \in Inquiries : i = req[p].inquiry
  BY <1>0, SaveHas
<1> DEFINE r == req[p]
<1>1. /\ InquiryTypes /\ InquiryTypes' /\ RequestSound(p) /\ Live(i) /\ Allowed(r)
      /\ ActiveTours(i) = {}
  BY <1>0, SaveHas, WorkTypes DEF InquiryInv, Work
<1>2. Later /\ \A j \in Inquiries : j # i => Untouched(j)
  BY CommitKeeps
<1>3. PICK k \in Itineraries, t \in Tours : k = r.itinerary /\ t = r.tour
  BY <1>1 DEF CommitCreateTour, RequestSound, OnItinerary
<1>4. /\ Writable(i) /\ Latest(i, k) /\ quotes[k].downloaded
  BY <1>1, <1>3 DEF CommitCreateTour, Allowed
<1>5. /\ tours'[t] = [status |-> "active", inquiry |-> i, quote |-> k]
      /\ \A u \in Tours : u # t => tours'[u] = tours[u]
      /\ UNCHANGED <<inquiries, itineraries, quotes>>
  BY <1>1, <1>3 DEF CommitCreateTour, InquiryTypes
<1>6. /\ \A j \in Inquiries : InquirySound(j)'
      /\ \A j \in Itineraries : ItinerarySound(j)'
  BY <1>5 DEF InquiryInv, InquirySound, ItinerarySound, QuotesOf
<1>7. ActiveTours(i)' = {t}
  BY <1>1, <1>5 DEF ActiveTours
<1>8. TourSound(t)'
  <2>1. /\ Live(i)' /\ Writable(i)' /\ QuotesOf(i)' = QuotesOf(i)
    BY <1>1, <1>4, <1>5 DEF Live, Writable, QuotesOf
  <2> QED BY <1>4, <1>5, <1>7, <2>1 DEF TourSound, Latest
<1>9. ASSUME NEW u \in Tours, u # t, tours'[u].status = "active" PROVE TourSound(u)'
  <2>1. tours'[u] = tours[u] /\ tours[u].inquiry \in Inquiries /\ tours[u].inquiry # i
    BY <1>1, <1>5, <1>9 DEF InquiryInv, TourSound, ActiveTours
  <2> QED BY <1>2, <2>1, UntouchedSound
<1>10. \A u \in Tours : TourSound(u)'
  BY <1>8, <1>9 DEF TourSound
<1> QED BY <1>1, <1>6, <1>10, CommitOthers DEF InquiryInv

\* Creations of inquiries, downloads and cancellations of tours keep the invariant.
LEMMA OutsideStep ==
  ASSUME InquiryInv,
         \/ \E i \in Inquiries : CreateInquiry(i)
         \/ \E k \in Itineraries : RecordDownload(k)
         \/ \E t \in Tours : CancelTour(t)
  PROVE  InquiryInv'
<1>0. InquiryTypes /\ InquiryTypes'
  BY OutsideTypes DEF InquiryInv
<1>1. /\ Later
      /\ \A i \in Inquiries :
           inquiries'[i] = inquiries[i] \/ inquiries[i].status # "none" => Untouched(i)
  BY OutsideKeeps
<1>2. pc' = pc /\ req' = req /\ lock' = lock /\ itineraries' = itineraries
  BY DEF CreateInquiry, RecordDownload, CancelTour
<1>3. \A t \in Tours : tours[t].status = "none" => tours'[t] = tours[t]
  BY <1>0 DEF CreateInquiry, RecordDownload, CancelTour, InquiryTypes
<1>4. ASSUME NEW q \in Procs PROVE RequestSound(q)'
  <2>1. /\ req[q].op \in NewItinerary =>
             \A x \in Procs \ {q} : req[x].itinerary # req[q].itinerary
        /\ req[q].op = "createTour" =>
             /\ tours'[req[q].tour] = tours[req[q].tour]
             /\ \A x \in Procs \ {q} : req[x].tour # req[q].tour
    BY <1>3 DEF InquiryInv, RequestSound
  <2> QED BY <1>0, <1>1, <1>2, <2>1, RequestKept
<1>5. ASSUME NEW q \in Procs PROVE HoldsInquiry(q)'
  <2>1. pc[q] \in {"check", "save"} => Untouched(req[q].inquiry)
    BY <1>1 DEF InquiryInv, RequestSound
  <2> QED BY <1>2, <2>1, HoldsKept
<1>6. ASSUME NEW t \in Tours PROVE TourSound(t)'
  <2>1. CASE tours'[t].status = "active"
    <3>1. tours'[t] = tours[t]
      BY <1>0, <2>1 DEF CreateInquiry, RecordDownload, CancelTour, InquiryTypes, TourRow
    <3>2. /\ tours[t].inquiry \in Inquiries
          /\ inquiries[tours[t].inquiry].status # "none"
      BY <2>1, <3>1 DEF InquiryInv, TourSound, Live
    <3> QED BY <1>1, <3>1, <3>2, UntouchedSound
  <2> QED BY <2>1 DEF TourSound
<1>7. ASSUME NEW k \in Itineraries PROVE ItinerarySound(k)'
  <2>1. /\ quotes'[k].frozen = quotes[k].frozen /\ quotes'[k].version = quotes[k].version
        /\ quotes'[k].plan = quotes[k].plan /\ quotes'[k].facts = quotes[k].facts
    BY <1>0 DEF CreateInquiry, RecordDownload, CancelTour, InquiryTypes, QuoteRow
  <2> QED BY <1>1, <1>2, <2>1 DEF InquiryInv, ItinerarySound, Later
<1>8. ASSUME NEW i \in Inquiries PROVE InquirySound(i)'
  <2>1. CASE inquiries'[i] = inquiries[i]
    BY <1>1, <2>1, UntouchedSound
  <2>2. CASE inquiries'[i] # inquiries[i]
    <3>1. inquiries[i].status = "none" /\ inquiries'[i].status = "new" /\ inquiries'[i].facts \in Facts
      BY <1>0, <2>2 DEF CreateInquiry, RecordDownload, CancelTour, InquiryTypes
    <3>2. \A k \in Itineraries : itineraries[k].inquiry # i
      BY <3>1, NoOneAssumption DEF InquiryInv, ItinerarySound, NoItinerary
    <3> QED BY <1>2, <3>1, <3>2 DEF InquirySound
  <2> QED BY <2>1, <2>2
<1> QED BY <1>0, <1>4, <1>5, <1>6, <1>7, <1>8 DEF InquiryInv

-----------------------------------------------------------------------------
(* The invariant and the properties it implies *)

\* The system starts without rows or requests.
LEMMA InitInv == Init => InquiryInv
<1> SUFFICES ASSUME Init PROVE InquiryInv
  OBVIOUS
<1>1. InquiryTypes
  BY InitTypes
<1>2. \A i \in Inquiries : InquirySound(i)
  BY NoOneAssumption DEF Init, InquirySound, NoInquiry, NoItinerary
<1>3. \A k \in Itineraries : ItinerarySound(k)
  BY DEF Init, ItinerarySound, NoItinerary, NoQuote
<1>4. \A t \in Tours : TourSound(t)
  BY DEF Init, TourSound
<1>5. \A p \in Procs : RequestSound(p) /\ HoldsInquiry(p)
  BY DEF Init, RequestSound, HoldsInquiry, Blank, OnInquiry, NewItinerary, OnItinerary
<1> QED BY <1>1, <1>2, <1>3, <1>4, <1>5 DEF InquiryInv

\* No step breaks the invariant.
LEMMA NextInv == InquiryInv /\ [Next]_vars => InquiryInv'
<1> SUFFICES ASSUME InquiryInv, [Next]_vars PROVE InquiryInv'
  OBVIOUS
<1>1. ASSUME NEW p \in Procs, Request(p) \/ Work(p) \/ Rollback(p) PROVE InquiryInv'
  BY <1>1, QuietStep, CommitInquiryStep, CommitNewItineraryStep, CommitSaveItineraryStep,
     CommitConfirmStep, CommitCreateTourStep DEF Work
<1>2. CASE UNCHANGED vars
  <2>1. InquiryTypes' /\ UNCHANGED rows
    BY <1>2 DEF vars, rows, InquiryInv, InquiryTypes
  <2>2. Later /\ \A i \in Inquiries : Untouched(i)
    BY <2>1, RowsStay DEF InquiryInv
  <2>3. ASSUME NEW q \in Procs PROVE RequestSound(q)' /\ HoldsInquiry(q)'
    <3>1. /\ req[q].op \in NewItinerary =>
               \A x \in Procs \ {q} : req[x].itinerary # req[q].itinerary
          /\ req[q].op = "createTour" => \A x \in Procs \ {q} : req[x].tour # req[q].tour
          /\ pc[q] # "idle" => req[q].inquiry \in Inquiries
      BY DEF InquiryInv, RequestSound
    <3>2. RequestSound(q)'
      BY <1>2, <2>1, <2>2, <3>1, RequestKept DEF vars
    <3>3. HoldsInquiry(q)'
      BY <1>2, <2>2, <3>1, HoldsKept DEF vars
    <3> QED BY <3>2, <3>3
  <2> QED BY <2>1, <2>3, RowsKept DEF InquiryInv
<1> QED BY <1>1, <1>2, OutsideStep DEF Next

\* InquiryInv holds in every state: what a transaction has checked under its lock stays
\* true until it commits, and versions stand for content.
THEOREM InquiriesSafe == Spec => []InquiryInv
BY InitInv, NextInv, PTL DEF Spec

\* An active tour is made from the newest quote of its inquiry, downloaded, and is the
\* only one, however confirmations, tours and closings are interleaved.
THEOREM ToursFromLatestQuotes == Spec => []TourFromLatestQuote
<1>1. InquiryInv => TourFromLatestQuote
  BY DEF InquiryInv, TourSound, TourFromLatestQuote
<1> QED BY <1>1, InquiriesSafe, PTL

\* A confirmation freezes, or answers with, what its client had on the screen.
THEOREM ConfirmationsAsSeen == Spec => []ConfirmedAsSeen
<1>1. ASSUME InquiryInv, NEW p \in Procs, req[p].op = "confirm", pc[p] = "save"
      PROVE  /\ itineraries[req[p].itinerary].plan = req[p].plan
             /\ inquiries[req[p].inquiry].facts = req[p].facts
  BY <1>1 DEF InquiryInv, RequestSound, HoldsInquiry, Allowed, SeenInquiry, SeenItinerary
<1>2. ASSUME InquiryInv, NEW p \in Procs, req[p].op = "confirm", Replays(req[p])
      PROVE  /\ quotes[req[p].itinerary].plan = req[p].plan
             /\ quotes[req[p].itinerary].facts = req[p].facts
  BY <1>2 DEF InquiryInv, RequestSound, SeenItinerary
<1>3. InquiryInv => ConfirmedAsSeen
  BY <1>1, <1>2 DEF ConfirmedAsSeen
<1> QED BY <1>3, InquiriesSafe, PTL

\* The status of an inquiry agrees with its itineraries, and theirs with their quotes.
THEOREM StatusesStayInStep == Spec => []StatusesAgree
<1>1. InquiryInv => StatusesAgree
  BY DEF InquiryInv, InquirySound, ItinerarySound, StatusesAgree
<1> QED BY <1>1, InquiriesSafe, PTL

-----------------------------------------------------------------------------
(* The refinement of FrozenOffers *)

\* What FrozenOffers sees of an inquiry: its offers, its sale and whether it is closed.
OfferAt(i, k) ==
  IF quotes[k].frozen /\ itineraries[k].inquiry = i
  THEN <<quotes[k].plan, quotes[k].facts>> ELSE NoOne

SoldFrom(i) ==
  IF ActiveTours(i) = {} THEN NoOne
  ELSE tours[CHOOSE t \in Tours : t \in ActiveTours(i)].quote

IsClosed(i) == inquiries[i].status \in Closed \cup {"deleted"}

OffersStay == \A i \in Inquiries, k \in Itineraries : OfferAt(i, k)' = OfferAt(i, k)
SalesStay == \A i \in Inquiries : SoldFrom(i)' = SoldFrom(i)
ClosedStay == \A i \in Inquiries : IsClosed(i)' <=> IsClosed(i)

\* A step that changes none of it is a stutter of FrozenOffers.
LEMMA OffersStutter ==
  ASSUME OffersStay, SalesStay, ClosedStay
  PROVE  UNCHANGED Offers!vars
BY DEF OffersStay, SalesStay, ClosedStay, OfferAt, SoldFrom, IsClosed, Offers!vars

\* A step that gives one offer of an open inquiry a content is a Freeze.
LEMMA OffersFreeze ==
  ASSUME NEW i \in Inquiries, NEW k \in Itineraries,
         ~IsClosed(i), SoldFrom(i) = NoOne, OfferAt(i, k) = NoOne,
         OfferAt(i, k)' \in Plans \X Facts,
         \A j \in Inquiries, m \in Itineraries :
           j # i \/ m # k => OfferAt(j, m)' = OfferAt(j, m),
         SalesStay, ClosedStay
  PROVE  Offers!Next
<1>1. Offers!Open(i)
  BY DEF IsClosed, SoldFrom, Offers!Open
<1>2. Offers!Freeze(i, k)
  <2> DEFINE Frozen == [j \in Inquiries |-> [m \in Itineraries |-> OfferAt(j, m)]]
             Sold == [j \in Inquiries |-> SoldFrom(j)]
             Shut == {j \in Inquiries : IsClosed(j)}
  <2>1. Frozen[i][k] = NoOne /\ Frozen'[i][k] \in Plans \X Facts
    OBVIOUS
  <2>2. Frozen' = [Frozen EXCEPT ![i] = [Frozen[i] EXCEPT ![k] = Frozen'[i][k]]]
    OBVIOUS
  <2>3. Sold' = Sold /\ Shut' = Shut
    BY DEF SalesStay, ClosedStay
  <2> QED BY <1>1, <2>1, <2>2, <2>3, Zenon DEF OfferAt, SoldFrom, IsClosed, Offers!Freeze
<1> QED BY <1>2 DEF Offers!Next

\* A step that makes a frozen offer of an open inquiry its sale is a Sell.
LEMMA OffersSell ==
  ASSUME NEW i \in Inquiries, NEW k \in Itineraries,
         ~IsClosed(i), SoldFrom(i) = NoOne, OfferAt(i, k) # NoOne, SoldFrom(i)' = k,
         \A j \in Inquiries : j # i => SoldFrom(j)' = SoldFrom(j),
         OffersStay, ClosedStay
  PROVE  Offers!Next
<1>1. Offers!Open(i)
  BY DEF IsClosed, SoldFrom, Offers!Open
<1>2. Offers!Sell(i, k)
  <2> DEFINE Frozen == [j \in Inquiries |-> [m \in Itineraries |-> OfferAt(j, m)]]
             Sold == [j \in Inquiries |-> SoldFrom(j)]
             Shut == {j \in Inquiries : IsClosed(j)}
  <2>1. Frozen[i][k] # NoOne
    OBVIOUS
  <2>2. Sold' = [Sold EXCEPT ![i] = k]
    OBVIOUS
  <2>3. Frozen' = Frozen /\ Shut' = Shut
    BY DEF OffersStay, ClosedStay
  <2> QED BY <1>1, <2>1, <2>2, <2>3, Zenon DEF OfferAt, SoldFrom, IsClosed, Offers!Sell
<1> QED BY <1>2 DEF Offers!Next

\* A step that undoes a sale is a Release.
LEMMA OffersRelease ==
  ASSUME NEW i \in Inquiries, SoldFrom(i) # NoOne, SoldFrom(i)' = NoOne,
         \A j \in Inquiries : j # i => SoldFrom(j)' = SoldFrom(j),
         OffersStay, ClosedStay
  PROVE  Offers!Next
<1>1. Offers!Release(i)
  BY DEF OfferAt, SoldFrom, IsClosed, OffersStay, ClosedStay, Offers!Release
<1> QED BY <1>1 DEF Offers!Next

\* A step that closes an open inquiry is a Close.
LEMMA OffersClose ==
  ASSUME NEW i \in Inquiries, ~IsClosed(i), SoldFrom(i) = NoOne, IsClosed(i)',
         \A j \in Inquiries : j # i => (IsClosed(j)' <=> IsClosed(j)),
         OffersStay, SalesStay
  PROVE  Offers!Next
<1>1. Offers!Open(i)
  BY DEF IsClosed, SoldFrom, Offers!Open
<1>2. Offers!Close(i)
  BY <1>1 DEF OfferAt, SoldFrom, IsClosed, OffersStay, SalesStay, Offers!Close
<1> QED BY <1>2 DEF Offers!Next

\* The inquiries start as FrozenOffers does.
LEMMA OffersInit == Init => Offers!Init
<1> SUFFICES ASSUME Init PROVE Offers!Init
  OBVIOUS
<1>1. \A i \in Inquiries : ActiveTours(i) = {}
  BY DEF Init, ActiveTours
<1>2. \A k \in Itineraries : ~quotes[k].frozen
  BY DEF Init, NoQuote
<1>3. \A i \in Inquiries : inquiries[i].status = "none"
  BY DEF Init, NoInquiry
<1> QED BY <1>1, <1>2, <1>3 DEF Offers!Init, Closed

\* A commit keeps the sales, but for a new tour.
LEMMA SalesKept == ASSUME tours' = tours PROVE SalesStay
BY DEF SalesStay, SoldFrom, ActiveTours

\* A write of an inquiry is a Close or a stutter.
LEMMA CommitInquiryOffers ==
  ASSUME InquiryInv, NEW p \in Procs, CommitInquiry(p)
  PROVE  Offers!Next \/ UNCHANGED Offers!vars
<1>0. pc[p] = "save" /\ UNCHANGED <<itineraries, quotes, tours>>
  BY DEF CommitInquiry
<1> PICK i \in Inquiries : i = req[p].inquiry
  BY <1>0, SaveHas
<1>1. \A j \in Inquiries : j # i => inquiries'[j] = inquiries[j]
  BY CommitKeeps DEF Untouched
<1>2. OffersStay /\ SalesStay
  BY <1>0, SalesKept DEF OffersStay, OfferAt
<1>3. SoldFrom(i) = NoOne
  BY <1>0, SaveHas DEF SoldFrom
<1>4. \A j \in Inquiries : j # i => (IsClosed(j)' <=> IsClosed(j))
  BY <1>1 DEF IsClosed
<1>5. CASE IsClosed(i)' <=> IsClosed(i)
  BY <1>2, <1>4, <1>5, OffersStutter DEF ClosedStay
<1>6. CASE ~IsClosed(i) /\ IsClosed(i)'
  BY <1>2, <1>3, <1>4, <1>6, OffersClose
<1>7. IsClosed(i) => IsClosed(i)'
  <2> SUFFICES ASSUME IsClosed(i) PROVE IsClosed(i)'
    OBVIOUS
  <2>1. /\ InquiryTypes /\ inquiries[i] \in InquiryRow /\ Allowed(req[p])
    BY <1>0, SaveHas DEF InquiryInv, InquiryTypes
  <2>2. req[p].op \in {"delete", "transfer"}
    BY <1>0, <2>1, SaveHas DEF Allowed, Writable, IsClosed, Live
  <2>3. CASE req[p].op = "delete"
    <3>1. inquiries' = InquirySaved(i, [inquiries[i] EXCEPT !.status = "deleted"])
      BY <2>3 DEF CommitInquiry
    <3>2. inquiries'[i].status = "deleted"
      BY <2>1, <3>1 DEF InquirySaved, InquiryTypes, InquiryRow
    <3> QED BY <3>2 DEF IsClosed
  <2>4. CASE req[p].op = "transfer"
    <3>1. inquiries' = InquirySaved(i, [inquiries[i] EXCEPT !.facts = req[p].facts])
      BY <2>4 DEF CommitInquiry
    <3>2. inquiries'[i].status = inquiries[i].status
      BY <2>1, <3>1 DEF InquirySaved, InquiryTypes, InquiryRow
    <3> QED BY <3>2 DEF IsClosed
  <2> QED BY <2>2, <2>3, <2>4
<1> QED BY <1>5, <1>6, <1>7

\* A new itinerary freezes nothing, and its inquiry stays open.
LEMMA CommitNewItineraryOffers ==
  ASSUME InquiryInv, NEW p \in Procs, CommitNewItinerary(p)
  PROVE  UNCHANGED Offers!vars
<1>0. pc[p] = "save" /\ UNCHANGED <<quotes, tours>>
  BY DEF CommitNewItinerary
<1> PICK i \in Inquiries : i = req[p].inquiry
  BY <1>0, SaveHas
<1>1. \A j \in Inquiries : j # i => inquiries'[j] = inquiries[j]
  BY CommitKeeps DEF Untouched
<1>2. InquiryTypes /\ inquiries[i] \in InquiryRow /\ Allowed(req[p]) /\ RequestSound(p) /\ Live(i)
  BY <1>0, SaveHas DEF InquiryInv, InquiryTypes
<1>3. ~IsClosed(i)
  BY <1>2 DEF Allowed, Writable, IsClosed, Live, CommitNewItinerary
<1>4. inquiries'[i].status = "planning"
  <2>1. inquiries' = InquirySaved(i, [inquiries[i] EXCEPT !.status = "planning"])
    BY DEF CommitNewItinerary, Planning
  <2> QED BY <1>2, <2>1 DEF InquirySaved, InquiryTypes, InquiryRow
<1>5. ClosedStay
  BY <1>1, <1>3, <1>4 DEF ClosedStay, IsClosed, Closed
<1>6. \A k \in Itineraries : itineraries'[k] = itineraries[k] \/ ~quotes[k].frozen
  <2>1. PICK k \in Itineraries : k = req[p].itinerary /\ itineraries[k] = NoItinerary
    BY <1>2 DEF CommitNewItinerary, RequestSound, NewItinerary
  <2>2. ~quotes[k].frozen
    BY <2>1 DEF InquiryInv, ItinerarySound, NoItinerary
  <2>3. \A j \in Itineraries : j # k => itineraries'[j] = itineraries[j]
    BY <1>2, <2>1 DEF CommitNewItinerary, InquiryTypes
  <2> QED BY <2>2, <2>3
<1>7. OffersStay
  BY <1>0, <1>6 DEF OffersStay, OfferAt
<1> QED BY <1>0, <1>5, <1>7, SalesKept, OffersStutter

\* A save of an itinerary, which is a draft, changes no offer.
LEMMA CommitSaveItineraryOffers ==
  ASSUME InquiryInv, NEW p \in Procs, CommitSaveItinerary(p)
  PROVE  UNCHANGED Offers!vars
<1>0. pc[p] = "save" /\ UNCHANGED <<inquiries, quotes, tours>>
  BY DEF CommitSaveItinerary
<1>1. PICK k \in Itineraries : k = req[p].itinerary
  BY <1>0, SaveHas DEF CommitSaveItinerary, RequestSound, OnItinerary
<1>2. InquiryTypes /\ itineraries[k] \in ItineraryRow
  BY DEF InquiryInv, InquiryTypes
<1>3. itineraries' = [itineraries EXCEPT ![k] = ItinerarySaved(k, req[p].plan)]
  BY <1>1 DEF CommitSaveItinerary
<1>4. \A j \in Itineraries : itineraries'[j].inquiry = itineraries[j].inquiry
  BY <1>2, <1>3 DEF InquiryTypes, ItinerarySaved, ItineraryRow
<1>5. OffersStay
  BY <1>0, <1>4 DEF OffersStay, OfferAt
<1>6. ClosedStay
  BY <1>0 DEF ClosedStay, IsClosed
<1> QED BY <1>0, <1>5, <1>6, SalesKept, OffersStutter

\* A confirmation is a Freeze.
LEMMA CommitConfirmOffers ==
  ASSUME InquiryInv, NEW p \in Procs, CommitConfirm(p)
  PROVE  Offers!Next
<1>0. pc[p] = "save" /\ tours' = tours /\ InquiryInv'
  BY CommitConfirmStep DEF CommitConfirm
<1> PICK i \in Inquiries : i = req[p].inquiry
  BY <1>0, SaveHas
<1>1. \A j \in Inquiries : j # i => inquiries'[j] = inquiries[j]
  BY CommitKeeps DEF Untouched
<1>2. /\ InquiryTypes /\ Allowed(req[p]) /\ RequestSound(p) /\ Live(i)
      /\ ActiveTours(i) = {} /\ req[p].op = "confirm"
  BY <1>0, SaveHas DEF InquiryInv, CommitConfirm
<1>3. PICK k \in Itineraries : k = req[p].itinerary /\ itineraries[k].inquiry = i
  BY <1>2 DEF RequestSound, OnItinerary
<1>4. itineraries[k].status = "draft" /\ ~quotes[k].frozen /\ Writable(i)
  BY <1>2, <1>3 DEF Allowed, Draft, InquiryInv, ItinerarySound
<1>5. /\ quotes'[k].frozen /\ itineraries'[k].inquiry = i
      /\ \A j \in Itineraries : j # k => itineraries'[j] = itineraries[j] /\ quotes'[j] = quotes[j]
  BY <1>2, <1>3 DEF CommitConfirm, InquiryTypes, ItineraryRow
<1>6. quotes'[k].plan \in Plans /\ quotes'[k].facts \in Facts
  BY <1>0, <1>5 DEF InquiryInv, ItinerarySound
<1>7. inquiries'[i].status = "quoted"
  <2>1. PICK bump \in {0, 1} :
          inquiries' = [inquiries EXCEPT ![i] =
            [inquiries[i] EXCEPT !.status = "quoted", !.version = inquiries[i].version + bump]]
    BY DEF CommitConfirm
  <2>2. inquiries'[i] = [inquiries[i] EXCEPT !.status = "quoted",
                                             !.version = inquiries[i].version + bump]
    BY <1>2, <2>1 DEF InquiryTypes
  <2>3. inquiries[i] \in InquiryRow
    BY <1>2 DEF InquiryTypes
  <2> QED BY <2>2, <2>3 DEF InquiryRow
<1>8. ~IsClosed(i) /\ ClosedStay
  BY <1>1, <1>2, <1>4, <1>7 DEF IsClosed, ClosedStay, Writable, Live, Closed
<1>9. OfferAt(i, k) = NoOne /\ OfferAt(i, k)' \in Plans \X Facts
  BY <1>4, <1>5, <1>6 DEF OfferAt
<1>10. \A j \in Inquiries, m \in Itineraries :
         j # i \/ m # k => OfferAt(j, m)' = OfferAt(j, m)
  BY <1>3, <1>5 DEF OfferAt
<1>11. SoldFrom(i) = NoOne
  BY <1>2 DEF SoldFrom
<1> QED BY <1>0, <1>8, <1>9, <1>10, <1>11, SalesKept, OffersFreeze

\* A new tour is a Sell.
LEMMA CommitCreateTourOffers ==
  ASSUME InquiryInv, NEW p \in Procs, CommitCreateTour(p)
  PROVE  Offers!Next
<1>0. pc[p] = "save" /\ UNCHANGED <<inquiries, itineraries, quotes>>
  BY DEF CommitCreateTour
<1> PICK i \in Inquiries : i = req[p].inquiry
  BY <1>0, SaveHas
<1>1. /\ InquiryTypes /\ Allowed(req[p]) /\ RequestSound(p) /\ Live(i)
      /\ ActiveTours(i) = {} /\ req[p].op = "createTour"
  BY <1>0, SaveHas DEF InquiryInv, CommitCreateTour
<1>2. PICK k \in Itineraries, t \in Tours : k = req[p].itinerary /\ t = req[p].tour
  BY <1>1 DEF RequestSound, OnItinerary
<1>3. k \in QuotesOf(i) /\ Writable(i) /\ tours[t].status = "none"
  BY <1>1, <1>2 DEF Allowed, Latest, RequestSound
<1>4. /\ tours'[t] = [status |-> "active", inquiry |-> i, quote |-> k]
      /\ \A u \in Tours : u # t => tours'[u] = tours[u]
  BY <1>1, <1>2 DEF CommitCreateTour, InquiryTypes
<1>5. ~IsClosed(i) /\ SoldFrom(i) = NoOne
  BY <1>1, <1>3 DEF IsClosed, Writable, Live, SoldFrom
<1>6. OfferAt(i, k) # NoOne
  <2>1. quotes[k].frozen /\ itineraries[k].inquiry = i
    BY <1>3 DEF QuotesOf
  <2>2. <<quotes[k].plan, quotes[k].facts>> \in Plans \X Facts
    BY <2>1 DEF InquiryInv, ItinerarySound
  <2> QED BY <2>1, <2>2, NoOneAssumption DEF OfferAt
<1>7. SoldFrom(i)' = k
  <2>1. ActiveTours(i)' = {t}
    BY <1>1, <1>4 DEF ActiveTours
  <2>2. (CHOOSE u \in Tours : u \in {t}) = t
    OBVIOUS
  <2> QED BY <1>4, <2>1, <2>2 DEF SoldFrom
<1>8. ASSUME NEW j \in Inquiries, j # i PROVE SoldFrom(j)' = SoldFrom(j)
  <2>1. ActiveTours(j)' = ActiveTours(j)
    BY <1>3, <1>4, <1>8 DEF ActiveTours
  <2>2. \A u \in ActiveTours(j) : tours'[u] = tours[u]
    BY <1>3, <1>4 DEF ActiveTours
  <2>3. ActiveTours(j) # {} =>
          (CHOOSE u \in Tours : u \in ActiveTours(j)) \in ActiveTours(j)
    BY DEF ActiveTours
  <2> QED BY <2>1, <2>2, <2>3 DEF SoldFrom
<1>9. OffersStay /\ ClosedStay
  BY <1>0 DEF OffersStay, ClosedStay, OfferAt, IsClosed
<1> QED BY <1>5, <1>6, <1>7, <1>8, <1>9, OffersSell

\* A cancelled tour is a Release, and what else happens outside transactions a stutter.
LEMMA OutsideOffers ==
  ASSUME InquiryInv,
         \/ \E i \in Inquiries : CreateInquiry(i)
         \/ \E k \in Itineraries : RecordDownload(k)
         \/ \E t \in Tours : CancelTour(t)
  PROVE  Offers!Next \/ UNCHANGED Offers!vars
<1>0. InquiryTypes
  BY DEF InquiryInv
<1>1. ASSUME NEW i \in Inquiries, CreateInquiry(i) PROVE UNCHANGED Offers!vars
  <2>1. OffersStay /\ SalesStay
    BY <1>1, SalesKept DEF CreateInquiry, OffersStay, OfferAt
  <2>2. ClosedStay
    BY <1>0, <1>1 DEF CreateInquiry, ClosedStay, IsClosed, Closed, InquiryTypes
  <2> QED BY <2>1, <2>2, OffersStutter
<1>2. ASSUME NEW k \in Itineraries, RecordDownload(k) PROVE UNCHANGED Offers!vars
  <2>1. \A j \in Itineraries :
          /\ quotes'[j].frozen = quotes[j].frozen
          /\ quotes'[j].plan = quotes[j].plan /\ quotes'[j].facts = quotes[j].facts
    BY <1>0, <1>2 DEF RecordDownload, InquiryTypes, QuoteRow
  <2>2. OffersStay
    BY <1>2, <2>1 DEF RecordDownload, OffersStay, OfferAt
  <2>3. SalesStay /\ ClosedStay
    BY <1>2, SalesKept DEF RecordDownload, ClosedStay, IsClosed
  <2> QED BY <2>2, <2>3, OffersStutter
<1>3. ASSUME NEW t \in Tours, CancelTour(t) PROVE Offers!Next
  <2>1. PICK i \in Inquiries : i = tours[t].inquiry
    BY <1>3 DEF CancelTour, InquiryInv, TourSound
  <2>2. /\ tours'[t].status = "cancelled"
        /\ \A u \in Tours : u # t => tours'[u] = tours[u]
        /\ UNCHANGED <<inquiries, itineraries, quotes>>
        /\ tours[t].status = "active"
    BY <1>0, <1>3 DEF CancelTour, InquiryTypes, TourRow
  <2>3. ActiveTours(i) = {t} /\ tours[t].quote \in QuotesOf(i)
    BY <2>1, <2>2 DEF InquiryInv, TourSound
  <2>4. SoldFrom(i) # NoOne
    <3>1. (CHOOSE u \in Tours : u \in {t}) = t
      OBVIOUS
    <3> QED BY <2>3, <3>1, NoOneAssumption DEF SoldFrom, QuotesOf
  <2>5. SoldFrom(i)' = NoOne
    <3>1. ActiveTours(i)' = {}
      BY <2>2, <2>3 DEF ActiveTours
    <3> QED BY <3>1 DEF SoldFrom
  <2>6. ASSUME NEW j \in Inquiries, j # i PROVE SoldFrom(j)' = SoldFrom(j)
    <3>1. ActiveTours(j)' = ActiveTours(j)
      BY <2>1, <2>2, <2>6 DEF ActiveTours
    <3>2. \A u \in ActiveTours(j) : tours'[u] = tours[u]
      BY <2>1, <2>2, <2>6 DEF ActiveTours
    <3>3. ActiveTours(j) # {} =>
            (CHOOSE u \in Tours : u \in ActiveTours(j)) \in ActiveTours(j)
      BY DEF ActiveTours
    <3> QED BY <3>1, <3>2, <3>3 DEF SoldFrom
  <2>7. OffersStay /\ ClosedStay
    BY <2>2 DEF OffersStay, ClosedStay, OfferAt, IsClosed
  <2> QED BY <2>4, <2>5, <2>6, <2>7, OffersRelease
<1> QED BY <1>1, <1>2, <1>3

\* Every step is a step of FrozenOffers or a stutter.
LEMMA OffersNext == InquiryInv /\ [Next]_vars => [Offers!Next]_Offers!vars
<1> SUFFICES ASSUME InquiryInv, [Next]_vars
             PROVE  Offers!Next \/ UNCHANGED Offers!vars
  OBVIOUS
<1>1. ASSUME UNCHANGED rows PROVE UNCHANGED Offers!vars
  <2>1. OffersStay /\ SalesStay /\ ClosedStay
    BY <1>1, SalesKept DEF rows, OffersStay, ClosedStay, OfferAt, IsClosed
  <2> QED BY <2>1, OffersStutter
<1>2. ASSUME NEW p \in Procs, Request(p) PROVE UNCHANGED rows
  BY <1>2 DEF Request, BeginOnInquiry, BeginCreateItinerary, BeginCopy, BeginSaveItinerary,
              BeginConfirm, BeginCreateTour, Begin
<1>3. ASSUME NEW p \in Procs, LockInquiry(p) \/ ReplayConfirm(p) \/ Check(p) \/ Rollback(p)
      PROVE  UNCHANGED rows
  BY <1>3 DEF LockInquiry, Goto, ReplayConfirm, Check, Rollback
<1>4. UNCHANGED vars => UNCHANGED rows
  BY DEF vars, rows
<1>5. ASSUME NEW p \in Procs, Work(p) PROVE Offers!Next \/ UNCHANGED Offers!vars
  BY <1>1, <1>3, <1>5, CommitInquiryOffers, CommitNewItineraryOffers,
     CommitSaveItineraryOffers, CommitConfirmOffers, CommitCreateTourOffers DEF Work
<1> QED BY <1>1, <1>2, <1>3, <1>4, <1>5, OutsideOffers DEF Next

\* The transactions implement FrozenOffers: frozen content is never rewritten, nothing
\* is frozen for a sold or closed inquiry, and no inquiry is sold twice or reopened.
THEOREM InquiriesKeepOffers == Spec => KeepsOffers
BY OffersInit, OffersNext, InquiriesSafe, PTL DEF Spec, KeepsOffers, Offers!Spec

=============================================================================
