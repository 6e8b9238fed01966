---------------------------- MODULE WebsiteProofs ----------------------------
(****************************************************************************)
(* WebsiteInv is inductive, a quotation is frozen under the current         *)
(* configuration and a configuration is replaced as intended, and the       *)
(* transactions of Website implement FrozenOffers, for any number of        *)
(* transactions, inquiries, itineraries, records and resources.             *)
(****************************************************************************)
EXTENDS Website, FiniteSetTheorems, TLAPS

-----------------------------------------------------------------------------
(* Types *)

\* The records that rows and requests start as.
LEMMA EmptyRows ==
  /\ NoInquiry \in InquiryRow /\ NoItinerary \in ItineraryRow /\ NoQuotation \in QuotationRow
  /\ Blank \in RequestRow
BY DEF NoInquiry, InquiryRow, NoItinerary, ItineraryRow, NoQuotation, QuotationRow, Blank,
       RequestRow

\* An inquiry that may have an itinerary already, at the start.
LEMMA InitItineraries ==
  ASSUME Init, NEW k \in Itineraries
  PROVE  \/ itineraries[k] = NoItinerary
         \/ \E i \in Inquiries, u \in Plans, s \in {"draft", "quoted"} :
              itineraries[k] = [inquiry |-> i, status |-> s,
                                version |-> IF s = "draft" THEN 1 ELSE 2,
                                uses |-> u, config |-> 1]
BY DEF Init

\* The states the system starts in are typed.
LEMMA InitTypes == Init => WebsiteTypes
<1> SUFFICES ASSUME Init PROVE WebsiteTypes
  OBVIOUS
<1>1. itineraries \in [Itineraries -> ItineraryRow]
  <2>1. \A i \in Inquiries, u \in Plans, s \in {"draft", "quoted"} :
          [inquiry |-> i, status |-> s, version |-> IF s = "draft" THEN 1 ELSE 2,
           uses |-> u, config |-> 1] \in ItineraryRow
    BY RecordsAssumption DEF ItineraryRow
  <2>2. \A k \in Itineraries : itineraries[k] \in ItineraryRow
    <3>1. ASSUME NEW k \in Itineraries PROVE itineraries[k] \in ItineraryRow
      <4>1. CASE itineraries[k] = NoItinerary
        BY <4>1, EmptyRows
      <4>2. CASE itineraries[k] # NoItinerary
        <5>1. PICK i \in Inquiries, u \in Plans, s \in {"draft", "quoted"} :
                itineraries[k] = [inquiry |-> i, status |-> s,
                                  version |-> IF s = "draft" THEN 1 ELSE 2,
                                  uses |-> u, config |-> 1]
          BY <4>2, InitItineraries
        <5> QED BY <2>1, <5>1
      <4> QED BY <4>1, <4>2
    <3> QED BY <3>1
  <2>3. itineraries = [k \in Itineraries |-> itineraries[k]]
    BY DEF Init
  <2> QED BY <2>2, <2>3
<1>2. quotations \in [Itineraries -> QuotationRow]
  <2>1. \A k \in Itineraries : itineraries[k].uses \in SUBSET Records
    BY <1>1 DEF ItineraryRow
  <2>2. \A k \in Itineraries :
          [frozen |-> TRUE, at |-> 1, uses |-> itineraries[k].uses, config |-> 1,
           downloaded |-> TRUE] \in QuotationRow
    BY <2>1 DEF QuotationRow
  <2> QED BY <2>2, EmptyRows DEF Init
<1>3. inquiries \in [Inquiries -> InquiryRow]
  BY EmptyRows DEF Init, InquiryRow
<1>4. config \in [version : Nat, content : [Records -> RecordStates]]
  BY RecordsAssumption DEF Init, RecordStates
<1> QED BY <1>1, <1>2, <1>3, <1>4, EmptyRows, MaxRequestsAssumption DEF Init, WebsiteTypes

\* What is known of a new request.
Begun(p, r) ==
  /\ Begin(p, r) /\ r \in RequestRow /\ r.op # "none"
  /\ RequestSound(p, r) /\ EditSound(r)
  /\ r.op \in NewItinerary => \A q \in Procs : req[q].itinerary # r.itinerary
  /\ r.op \notin NewItinerary \cup OnItinerary => r.itinerary = NoOne

\* A new request is typed and names what exists.
LEMMA RequestBegun ==
  ASSUME WebsiteInv, NEW p \in Procs, Request(p)
  PROVE  \E r \in RequestRow : Begun(p, r)
<1> USE DEF NewItinerary, OnItinerary, OnInquiry, ConfigOps
<1>0. WebsiteTypes /\ \A k \in Itineraries : ItinerarySound(k)
  BY DEF WebsiteInv
<1>a. \A k \in Itineraries :
        itineraries[k].status # "none" => itineraries[k].inquiry \in Inquiries
  BY <1>0 DEF ItinerarySound
<1>v. /\ \A i \in Inquiries : inquiries[i].version \in Nat
      /\ \A k \in Itineraries : itineraries[k].version \in Nat
      /\ config.version \in Nat /\ config.content \in [Records -> RecordStates]
  BY <1>0 DEF WebsiteTypes, InquiryRow, ItineraryRow
<1>1. CASE BeginOnInquiry(p)
  <2>1. PICK i \in Inquiries, op \in OnInquiry :
          Begin(p, [Blank EXCEPT !.op = op, !.inquiry = i,
                                 !.inquiryVersion = inquiries[i].version])
    BY <1>1 DEF BeginOnInquiry
  <2> DEFINE r == [Blank EXCEPT !.op = op, !.inquiry = i,
                                !.inquiryVersion = inquiries[i].version]
  <2>2. r \in RequestRow
    BY <1>v, EmptyRows DEF Blank, RequestRow
  <2>3. r.op = op /\ r.inquiry = i /\ r.itinerary = NoOne
    BY DEF Blank
  <2> HIDE DEF r
  <2>4. Begun(p, r)
    BY <2>1, <2>2, <2>3 DEF Begun, RequestSound, EditSound, r
  <2> QED BY <2>2, <2>4
<1>2. CASE BeginCreateItinerary(p)
  <2>1. PICK i \in Inquiries, k \in Itineraries, u \in Plans, c \in 1..(MaxRequests + 1) :
          /\ Unused(k)
          /\ Begin(p, [Blank EXCEPT !.op = "createItinerary", !.inquiry = i, !.itinerary = k,
                         !.inquiryVersion = inquiries[i].version, !.uses = u, !.config = c])
    BY <1>2 DEF BeginCreateItinerary
  <2> DEFINE r == [Blank EXCEPT !.op = "createItinerary", !.inquiry = i, !.itinerary = k,
                         !.inquiryVersion = inquiries[i].version, !.uses = u, !.config = c]
  <2>2. c \in Nat /\ u \in SUBSET Records
    BY RecordsAssumption, MaxRequestsAssumption
  <2>3. r \in RequestRow
    BY <1>v, <2>2, EmptyRows DEF Blank, RequestRow
  <2>4. r.op = "createItinerary" /\ r.inquiry = i /\ r.itinerary = k
    BY DEF Blank
  <2> HIDE DEF r
  <2>5. Begun(p, r)
    BY <2>1, <2>3, <2>4 DEF Begun, RequestSound, EditSound, Unused, r
  <2> QED BY <2>3, <2>5
<1>3. CASE BeginCopy(p)
  <2>1. PICK j \in Itineraries, k \in Itineraries :
          /\ itineraries[j].status # "none" /\ Unused(k)
          /\ Begin(p, [Blank EXCEPT !.op = "copy", !.inquiry = itineraries[j].inquiry,
                         !.itinerary = k, !.source = j, !.version = itineraries[j].version])
    BY <1>3 DEF BeginCopy
  <2> DEFINE r == [Blank EXCEPT !.op = "copy", !.inquiry = itineraries[j].inquiry,
                         !.itinerary = k, !.source = j, !.version = itineraries[j].version]
  <2>2. itineraries[j].inquiry \in Inquiries
    BY <1>a, <2>1
  <2>3. r \in RequestRow
    BY <1>v, <2>2, EmptyRows DEF Blank, RequestRow
  <2>4. /\ r.op = "copy" /\ r.inquiry = itineraries[j].inquiry /\ r.itinerary = k
        /\ r.source = j
    BY DEF Blank
  <2> HIDE DEF r
  <2>5. Begun(p, r)
    BY <2>1, <2>2, <2>3, <2>4 DEF Begun, RequestSound, EditSound, Unused, r
  <2> QED BY <2>3, <2>5
<1>4. CASE BeginSaveItinerary(p)
  <2>1. PICK k \in Itineraries, u \in Plans, c \in 1..(MaxRequests + 1) :
          /\ itineraries[k].status # "none"
          /\ Begin(p, [Blank EXCEPT !.op = "save", !.inquiry = itineraries[k].inquiry,
                         !.itinerary = k, !.version = itineraries[k].version,
                         !.uses = u, !.config = c])
    BY <1>4 DEF BeginSaveItinerary
  <2> DEFINE r == [Blank EXCEPT !.op = "save", !.inquiry = itineraries[k].inquiry,
                         !.itinerary = k, !.version = itineraries[k].version,
                         !.uses = u, !.config = c]
  <2>2. c \in Nat /\ u \in SUBSET Records /\ itineraries[k].inquiry \in Inquiries
    BY <1>a, <2>1, RecordsAssumption, MaxRequestsAssumption
  <2>3. r \in RequestRow
    BY <1>v, <2>2, EmptyRows DEF Blank, RequestRow
  <2>4. r.op = "save" /\ r.inquiry = itineraries[k].inquiry /\ r.itinerary = k
    BY DEF Blank
  <2> HIDE DEF r
  <2>5. Begun(p, r)
    BY <2>1, <2>2, <2>3, <2>4 DEF Begun, RequestSound, EditSound, r
  <2> QED BY <2>3, <2>5
<1>5. CASE BeginOnItinerary(p)
  <2>1. PICK k \in Itineraries, op \in {"generate", "confirm"} :
          /\ itineraries[k].status # "none"
          /\ Begin(p, [Blank EXCEPT !.op = op, !.inquiry = itineraries[k].inquiry,
                         !.itinerary = k, !.version = itineraries[k].version,
                         !.inquiryVersion = inquiries[itineraries[k].inquiry].version])
    BY <1>5 DEF BeginOnItinerary
  <2> DEFINE r == [Blank EXCEPT !.op = op, !.inquiry = itineraries[k].inquiry,
                         !.itinerary = k, !.version = itineraries[k].version,
                         !.inquiryVersion = inquiries[itineraries[k].inquiry].version]
  <2>2. itineraries[k].inquiry \in Inquiries
    BY <1>a, <2>1
  <2>3. r \in RequestRow
    BY <1>v, <2>2, EmptyRows DEF Blank, RequestRow
  <2>4. r.op = op /\ r.inquiry = itineraries[k].inquiry /\ r.itinerary = k
    BY DEF Blank
  <2> HIDE DEF r
  <2>5. Begun(p, r)
    BY <2>1, <2>2, <2>3, <2>4 DEF Begun, RequestSound, EditSound, r
  <2> QED BY <2>3, <2>5
<1>6. CASE BeginCreateTour(p)
  <2>1. PICK k \in Itineraries :
          /\ quotations[k].frozen
          /\ Begin(p, [Blank EXCEPT !.op = "createTour", !.inquiry = itineraries[k].inquiry,
                         !.itinerary = k])
    BY <1>6 DEF BeginCreateTour
  <2> DEFINE r == [Blank EXCEPT !.op = "createTour", !.inquiry = itineraries[k].inquiry,
                         !.itinerary = k]
  <2>2. itineraries[k].status = "quoted" /\ itineraries[k].inquiry \in Inquiries
    BY <1>0, <1>a, <2>1 DEF ItinerarySound
  <2>3. r \in RequestRow
    BY <1>v, <2>2, EmptyRows DEF Blank, RequestRow
  <2>4. r.op = "createTour" /\ r.inquiry = itineraries[k].inquiry /\ r.itinerary = k
    BY DEF Blank
  <2> HIDE DEF r
  <2>5. Begun(p, r)
    BY <2>1, <2>2, <2>3, <2>4 DEF Begun, RequestSound, EditSound, r
  <2> QED BY <2>3, <2>5
<1>7. CASE BeginEditRecord(p)
  <2>1. PICK c \in Records, s \in RecordStates :
          Begin(p, [Blank EXCEPT !.op = "editRecord", !.record = c, !.status = s,
                      !.config = config.version, !.wanted = [config.content EXCEPT ![c] = s]])
    BY <1>7 DEF BeginEditRecord, RecordStates
  <2> DEFINE d == [config.content EXCEPT ![c] = s]
             r == [Blank EXCEPT !.op = "editRecord", !.record = c, !.status = s,
                      !.config = config.version, !.wanted = d]
  <2>2. d \in [Records -> RecordStates]
    BY <1>v
  <2> HIDE DEF d
  <2>3. r \in RequestRow
    BY <1>v, <2>2, EmptyRows DEF Blank, RequestRow
  <2>4. /\ r.op = "editRecord" /\ r.record = c /\ r.status = s /\ r.config = config.version
        /\ r.wanted = d /\ r.itinerary = NoOne
    BY DEF Blank
  <2>5. Begin(p, r)
    BY <2>1 DEF d
  <2> HIDE DEF r
  <2>6. EditSound(r)
    BY <1>v, <2>4 DEF EditSound, Edited, d
  <2>7. Begun(p, r)
    BY <2>3, <2>4, <2>5, <2>6 DEF Begun, RequestSound
  <2> QED BY <2>3, <2>7
<1>8. CASE BeginSaveConfig(p)
  <2>1. PICK d \in Drafts :
          Begin(p, [Blank EXCEPT !.op = "saveConfig", !.config = config.version, !.wanted = d])
    BY <1>8 DEF BeginSaveConfig
  <2> DEFINE r == [Blank EXCEPT !.op = "saveConfig", !.config = config.version, !.wanted = d]
  <2>2. d \in [Records -> RecordStates]
    BY RecordsAssumption DEF RecordStates
  <2>3. r \in RequestRow
    BY <1>v, <2>2, EmptyRows DEF Blank, RequestRow
  <2>4. /\ r.op = "saveConfig" /\ r.config = config.version /\ r.wanted = d
        /\ r.itinerary = NoOne
    BY DEF Blank
  <2> HIDE DEF r
  <2>5. EditSound(r)
    BY <1>v, <2>4 DEF EditSound, Edited
  <2>6. Begun(p, r)
    BY <2>1, <2>2, <2>3, <2>4, <2>5 DEF Begun, RequestSound, r
  <2> QED BY <2>3, <2>6
<1> QED BY <1>1, <1>2, <1>3, <1>4, <1>5, <1>6, <1>7, <1>8 DEF Request
\* The end of a transaction: its own part is blank, and the others keep theirs.
LEMMA FinishKeeps ==
  ASSUME WebsiteTypes, NEW p \in Procs, Finish(p)
  PROVE  /\ requests' \in 0..MaxRequests /\ resources' = resources
         /\ resources' \in [Resources -> {"enabled", "disabled", "deleted"}]
         /\ pc' \in [Procs -> {"idle", "lock", "config", "resources", "save"}]
         /\ req' \in [Procs -> RequestRow]
         /\ lock' \in [Inquiries -> Procs \cup {NoOne}] /\ writer' \in Procs \cup {NoOne}
         /\ readers' \subseteq Procs /\ sharers' \in [Resources -> SUBSET Procs]
         /\ pc'[p] = "idle" /\ req'[p] = Blank
         /\ \A q \in Procs \ {p} : pc'[q] = pc[q] /\ req'[q] = req[q]
         /\ \A i \in Inquiries, q \in Procs \ {p} : lock[i] = q => lock'[i] = q
         /\ \A q \in Procs \ {p} : /\ writer = q => writer' = q
                                   /\ q \in readers => q \in readers'
                                   /\ \A x \in Resources : q \in sharers[x] => q \in sharers'[x]
         /\ writer' # NoOne => writer # NoOne
         /\ readers' \subseteq readers
BY EmptyRows DEF WebsiteTypes, Finish

\* What a transaction about to write knows.
LEMMA SaveHas ==
  ASSUME WebsiteInv, NEW p \in Procs, pc[p] = "save"
  PROVE  /\ WebsiteTypes /\ req[p] \in RequestRow /\ RequestSound(p, req[p])
         /\ req[p].op # "none"  => req[p].op \in OnInquiry \cup NewItinerary \cup OnItinerary
                                                 \cup ConfigOps
         /\ req[p].op \in OnInquiry \cup NewItinerary \cup OnItinerary =>
              /\ req[p].inquiry \in Inquiries /\ lock[req[p].inquiry] = p
              /\ Live(req[p].inquiry) /\ Allowed(req[p])
         /\ req[p].op \in ConfigOps => writer = p /\ req[p].config = config.version
BY DEF WebsiteInv, WebsiteTypes, RequestRow, RequestSound, InquiryHeld, ConfigHeld,
       OnInquiry, NewItinerary, OnItinerary, ConfigOps

\* The configuration that an edit makes is typed.
LEMMA EditedTyped ==
  ASSUME WebsiteTypes, NEW p \in Procs, NEW r \in RequestRow, RequestSound(p, r),
         r.op \in ConfigOps
  PROVE  Edited(r) \in [Records -> RecordStates]
<1>1. config.content \in [Records -> RecordStates]
  BY DEF WebsiteTypes
<1> QED BY <1>1 DEF RequestSound, Edited, ConfigOps

\* A version is never more than one step from the next.
LEMMA InquirySavedTyped ==
  ASSUME WebsiteTypes, NEW i \in Inquiries,
         NEW s \in {"none", "new", "planning", "quoted", "deleted"} \cup Closed
  PROVE  /\ InquirySaved(i, s) \in InquiryRow
         /\ InquirySaved(i, s).status = s
<1>1. inquiries[i].version + 1 \in Nat
  BY DEF WebsiteTypes, InquiryRow
<1> QED BY <1>1 DEF InquirySaved, InquiryRow

\* A write of the inquiry itself.
LEMMA CommitInquiryWrites ==
  ASSUME WebsiteInv, NEW p \in Procs, CommitInquiry(p)
  PROVE  LET i == req[p].inquiry
         IN /\ i \in Inquiries /\ Finish(p)
            /\ inquiries' \in [Inquiries -> InquiryRow]
            /\ \A j \in Inquiries \ {i} : inquiries'[j] = inquiries[j]
            /\ inquiries'[i].status # "none"
            /\ inquiries[i].status \in Closed =>
                 inquiries'[i].status \in Closed \cup {"deleted"}
            /\ UNCHANGED <<itineraries, quotations, sold, config>>
<1> PICK r \in RequestRow : r = req[p]
  BY SaveHas DEF CommitInquiry
<1> PICK i \in Inquiries : i = r.inquiry
  BY SaveHas DEF CommitInquiry, OnInquiry
<1>1. WebsiteTypes /\ Live(i) /\ Allowed(r)
  BY SaveHas DEF CommitInquiry, OnInquiry
<1>2. r.op \in {"update", "lose", "archive", "delete", "transfer"}
  BY DEF CommitInquiry
<1> DEFINE s == CASE r.op = "lose" -> "lost" [] r.op = "archive" -> "archived"
                  [] r.op = "delete" -> "deleted" [] OTHER -> inquiries[i].status
<1>3. /\ inquiries[i].status \in {"new", "planning", "quoted"} \cup Closed
      /\ r.op # "delete" => inquiries[i].status \notin Closed
  BY <1>1 DEF WebsiteTypes, InquiryRow, Live, Allowed, Mutable
<1>4. /\ s \in {"new", "planning", "quoted", "deleted"} \cup Closed
      /\ inquiries[i].status \in Closed => s = "deleted"
  BY <1>2, <1>3 DEF Closed
<1>5. inquiries' = [inquiries EXCEPT ![i] = InquirySaved(i, s)]
  BY DEF CommitInquiry
<1> HIDE DEF s
<1>6. InquirySaved(i, s) \in InquiryRow /\ InquirySaved(i, s).status = s
  BY <1>1, <1>4, InquirySavedTyped
<1> QED BY <1>1, <1>4, <1>5, <1>6 DEF CommitInquiry, WebsiteTypes, Closed

\* A new itinerary of its inquiry, which may become planning by it.
LEMMA InsertWrites ==
  ASSUME WebsiteInv, NEW p \in Procs, CommitCreateItinerary(p) \/ CommitCopy(p)
  PROVE  LET i == req[p].inquiry  k == req[p].itinerary
         IN /\ i \in Inquiries /\ k \in Itineraries /\ Finish(p)
            /\ req[p].op \in NewItinerary /\ itineraries[k].status = "none"
            /\ itineraries' \in [Itineraries -> ItineraryRow]
            /\ \A j \in Itineraries \ {k} : itineraries'[j] = itineraries[j]
            /\ itineraries'[k].inquiry = i /\ itineraries'[k].status = "draft"
            /\ inquiries' \in [Inquiries -> InquiryRow]
            /\ \A j \in Inquiries \ {i} : inquiries'[j] = inquiries[j]
            /\ inquiries'[i].status \in {"planning", inquiries[i].status}
            /\ inquiries[i].status \notin {"none", "deleted"} \cup Closed
            /\ UNCHANGED <<quotations, sold, config>>
<1> PICK r \in RequestRow : r = req[p]
  BY SaveHas DEF CommitCreateItinerary, CommitCopy
<1>1. pc[p] = "save" /\ r.op \in NewItinerary
  BY DEF CommitCreateItinerary, CommitCopy, NewItinerary
<1>2. /\ WebsiteTypes /\ RequestSound(p, r) /\ r.inquiry \in Inquiries /\ Live(r.inquiry)
      /\ Allowed(r)
  BY <1>1, SaveHas
<1> PICK i \in Inquiries : i = r.inquiry
  BY <1>2
<1> PICK k \in Itineraries : k = r.itinerary
  BY <1>1, <1>2 DEF RequestSound
<1>3. itineraries[k].status = "none"
  BY <1>1, <1>2 DEF RequestSound
<1>4. PICK u \in SUBSET Records, c \in Nat : InsertItinerary(p, u, c)
  <2>1. CASE CommitCreateItinerary(p)
    BY <2>1 DEF CommitCreateItinerary, RequestRow
  <2>2. CASE CommitCopy(p)
    <3>1. r.source \in Itineraries
      BY <1>2, <2>2 DEF CommitCopy, RequestSound
    <3>2. itineraries[r.source] \in ItineraryRow
      BY <1>2, <3>1 DEF WebsiteTypes
    <3> QED BY <2>2, <3>2 DEF CommitCopy, UsesOf, ItineraryRow
  <2> QED BY <2>1, <2>2
<1>5. /\ inquiries[i] \in InquiryRow /\ inquiries[i].status # "none"
      /\ inquiries[i].status # "deleted" /\ inquiries[i].status \notin Closed
  BY <1>1, <1>2 DEF WebsiteTypes, Live, Allowed, Mutable, NewItinerary
<1>6. /\ itineraries' = [itineraries EXCEPT ![k] =
           [inquiry |-> i, status |-> "draft", version |-> 1, uses |-> u, config |-> c]]
      /\ inquiries' = [inquiries EXCEPT ![i] = InquirySaved(i, Planned(i))]
      /\ Finish(p) /\ UNCHANGED <<quotations, sold, config>>
  BY <1>4 DEF InsertItinerary
<1>7. [inquiry |-> i, status |-> "draft", version |-> 1, uses |-> u, config |-> c]
        \in ItineraryRow
  BY DEF ItineraryRow
<1>8. /\ Planned(i) \in {"planning", inquiries[i].status}
      /\ Planned(i) \in {"none", "new", "planning", "quoted", "deleted"} \cup Closed
  BY <1>5 DEF Planned, InquiryRow
<1>9. InquirySaved(i, Planned(i)) \in InquiryRow /\ InquirySaved(i, Planned(i)).status = Planned(i)
  BY <1>2, <1>8, InquirySavedTyped
<1> QED BY <1>1, <1>2, <1>3, <1>5, <1>6, <1>7, <1>8, <1>9 DEF WebsiteTypes

\* A new plan of a draft.
LEMMA PlanWrites ==
  ASSUME WebsiteInv, NEW p \in Procs, CommitPlan(p)
  PROVE  LET k == req[p].itinerary
         IN /\ k \in Itineraries /\ Finish(p)
            /\ itineraries[k].inquiry = req[p].inquiry /\ req[p].inquiry \in Inquiries
            /\ itineraries' \in [Itineraries -> ItineraryRow]
            /\ \A j \in Itineraries \ {k} : itineraries'[j] = itineraries[j]
            /\ itineraries[k].status = "draft" /\ itineraries'[k].status = "draft"
            /\ itineraries'[k].inquiry = itineraries[k].inquiry
            /\ UNCHANGED <<inquiries, quotations, sold, config>>
<1> PICK r \in RequestRow : r = req[p]
  BY SaveHas DEF CommitPlan
<1>1. pc[p] = "save" /\ r.op \in {"save", "generate"}
  BY DEF CommitPlan
<1>2. WebsiteTypes /\ RequestSound(p, r) /\ Allowed(r)
  BY <1>1, SaveHas DEF OnItinerary
<1> PICK k \in Itineraries : k = r.itinerary
  BY <1>1, <1>2 DEF RequestSound, OnItinerary
<1>3. /\ itineraries[k].status = "draft" /\ itineraries[k].inquiry = r.inquiry
      /\ r.inquiry \in Inquiries
  BY <1>1, <1>2 DEF RequestSound, OnItinerary, Allowed, Draft
<1>4. itineraries[k] \in ItineraryRow /\ r.uses \in SUBSET Records /\ r.config \in Nat
  BY <1>2 DEF WebsiteTypes, RequestRow
<1>5. itineraries[k].version + 1 \in Nat
  BY <1>4 DEF ItineraryRow
<1>6. Saved(k, r.uses, r.config) \in ItineraryRow
  BY <1>4, <1>5, Zenon DEF Saved, ItineraryRow
<1>7. /\ Saved(k, r.uses, r.config).status = itineraries[k].status
      /\ Saved(k, r.uses, r.config).inquiry = itineraries[k].inquiry
  BY <1>4 DEF Saved, ItineraryRow
<1> QED BY <1>1, <1>2, <1>3, <1>6, <1>7 DEF CommitPlan, WebsiteTypes

\* A confirmation freezes what its itinerary says.
LEMMA ConfirmWrites ==
  ASSUME WebsiteInv, NEW p \in Procs, CommitConfirm(p)
  PROVE  LET i == req[p].inquiry  k == req[p].itinerary
         IN /\ i \in Inquiries /\ k \in Itineraries /\ Finish(p)
            /\ itineraries[k].inquiry = i
            /\ itineraries' \in [Itineraries -> ItineraryRow]
            /\ \A j \in Itineraries \ {k} : itineraries'[j] = itineraries[j]
            /\ itineraries[k].status = "draft" /\ itineraries'[k].status = "quoted"
            /\ itineraries'[k].inquiry = i
            /\ quotations' \in [Itineraries -> QuotationRow]
            /\ \A j \in Itineraries \ {k} : quotations'[j] = quotations[j]
            /\ ~quotations[k].frozen /\ quotations'[k].frozen
            /\ quotations'[k].uses = UsesOf(k) /\ quotations'[k].config = itineraries[k].config
            /\ inquiries' \in [Inquiries -> InquiryRow]
            /\ \A j \in Inquiries \ {i} : inquiries'[j] = inquiries[j]
            /\ inquiries'[i].status = "quoted"
            /\ inquiries[i].status \notin {"none", "deleted"} \cup Closed
            /\ sold[i] = NoOne
            /\ UNCHANGED <<sold, config>>
<1> PICK r \in RequestRow : r = req[p]
  BY SaveHas DEF CommitConfirm
<1>1. pc[p] = "save" /\ r.op = "confirm"
  BY DEF CommitConfirm
<1>2. /\ WebsiteTypes /\ RequestSound(p, r) /\ Allowed(r) /\ Live(r.inquiry)
      /\ \A j \in Itineraries : ItinerarySound(j)
  BY <1>1, SaveHas DEF OnItinerary, WebsiteInv
<1> PICK k \in Itineraries : k = r.itinerary
  BY <1>1, <1>2 DEF RequestSound, OnItinerary
<1> PICK i \in Inquiries : i = r.inquiry
  BY <1>1, <1>2 DEF RequestSound, OnItinerary
<1>3. /\ itineraries[k].status = "draft" /\ itineraries[k].inquiry = i /\ sold[i] = NoOne
      /\ inquiries[i].status \notin {"none", "deleted"} \cup Closed
  BY <1>1, <1>2 DEF RequestSound, OnItinerary, Allowed, Draft, Live, Mutable
<1>4. ~quotations[k].frozen
  BY <1>2, <1>3 DEF ItinerarySound
<1>5. itineraries[k] \in ItineraryRow
  BY <1>2 DEF WebsiteTypes
<1>6. itineraries[k].version + 1 \in Nat
  BY <1>5 DEF ItineraryRow
<1> DEFINE row == [itineraries[k] EXCEPT !.status = "quoted",
                                         !.version = itineraries[k].version + 1]
           at == Cardinality({j \in Itineraries : quotations[j].frozen}) + 1
           quotation == [frozen |-> TRUE, at |-> at, uses |-> UsesOf(k),
                         config |-> itineraries[k].config, downloaded |-> FALSE]
<1>7. row \in ItineraryRow
  BY <1>5, <1>6, Zenon DEF ItineraryRow
<1>8. row.status = "quoted" /\ row.inquiry = i
  BY <1>3, <1>5 DEF ItineraryRow
<1>9. at \in Nat
  <2>1. Cardinality({j \in Itineraries : quotations[j].frozen}) \in Nat
    BY ItinerariesAssumption, FS_Subset, FS_CardinalityType
  <2> QED BY <2>1
<1> HIDE DEF at
<1>10. quotation \in QuotationRow
  BY <1>5, <1>9 DEF QuotationRow, ItineraryRow, UsesOf
<1>11. /\ quotations' = [quotations EXCEPT ![k] = quotation]
       /\ itineraries' = [itineraries EXCEPT ![k] = row]
       /\ inquiries' = [inquiries EXCEPT ![i] = InquirySaved(i, "quoted")]
       /\ Finish(p) /\ UNCHANGED <<sold, config>>
  BY DEF CommitConfirm, at
<1>12. InquirySaved(i, "quoted") \in InquiryRow /\ InquirySaved(i, "quoted").status = "quoted"
  BY <1>2, InquirySavedTyped
<1>13. /\ quotation.frozen /\ quotation.uses = UsesOf(k)
       /\ quotation.config = itineraries[k].config
  OBVIOUS
<1> HIDE DEF row, quotation
<1> QED BY <1>2, <1>3, <1>4, <1>7, <1>8, <1>10, <1>11, <1>12, <1>13 DEF WebsiteTypes

\* A tour is sold from a frozen quotation of an unsold, open inquiry.
LEMMA CreateTourWrites ==
  ASSUME WebsiteInv, NEW p \in Procs, CommitCreateTour(p)
  PROVE  LET i == req[p].inquiry  k == req[p].itinerary
         IN /\ i \in Inquiries /\ k \in Itineraries /\ Finish(p)
            /\ itineraries[k].inquiry = i /\ quotations[k].frozen
            /\ sold[i] = NoOne /\ inquiries[i].status \notin {"none", "deleted"} \cup Closed
            /\ sold' = [sold EXCEPT ![i] = k]
            /\ sold' \in [Inquiries -> Itineraries \cup {NoOne}]
            /\ UNCHANGED <<inquiries, itineraries, quotations, config>>
<1> PICK r \in RequestRow : r = req[p]
  BY SaveHas DEF CommitCreateTour
<1>1. pc[p] = "save" /\ r.op = "createTour"
  BY DEF CommitCreateTour
<1>2. WebsiteTypes /\ RequestSound(p, r) /\ Allowed(r) /\ Live(r.inquiry)
  BY <1>1, SaveHas DEF OnItinerary
<1>3. /\ r.itinerary \in Itineraries /\ r.inquiry \in Inquiries
      /\ itineraries[r.itinerary].inquiry = r.inquiry /\ quotations[r.itinerary].frozen
  BY <1>1, <1>2 DEF RequestSound, OnItinerary
<1>4. /\ sold[r.inquiry] = NoOne
      /\ inquiries[r.inquiry].status \notin {"none", "deleted"} \cup Closed
  BY <1>1, <1>2 DEF Allowed, Live, Mutable
<1> QED BY <1>2, <1>3, <1>4 DEF CommitCreateTour, WebsiteTypes

\* The configuration is replaced by what the edit wants of the version it saw.
LEMMA ConfigWrites ==
  ASSUME WebsiteInv, NEW p \in Procs, CommitConfig(p)
  PROVE  LET r == req[p]
         IN /\ Finish(p) /\ writer = p /\ r.config = config.version
            /\ config' = [version |-> config.version + 1, content |-> r.wanted]
            /\ r.wanted = Edited(r) /\ Coherent(r.wanted)
            /\ config' \in [version : Nat, content : [Records -> RecordStates]]
            /\ config.version \in Nat /\ config'.version = config.version + 1
            /\ config'.content = r.wanted
            /\ \A x \in ResourcesOf(Present(r.wanted)) : resources[x] # "deleted"
            /\ UNCHANGED <<inquiries, itineraries, quotations, sold>>
<1> PICK r \in RequestRow : r = req[p]
  BY SaveHas DEF CommitConfig
<1>1. pc[p] = "save" /\ r.op \in ConfigOps
  BY DEF CommitConfig
<1>2. /\ WebsiteTypes /\ RequestSound(p, r) /\ writer = p /\ r.config = config.version
      /\ EditSound(r) /\ ResourcesHeld(p)
  BY <1>1, SaveHas DEF WebsiteInv
<1>3. Edited(r) = r.wanted /\ Edited(r) \in [Records -> RecordStates]
  BY <1>1, <1>2, EditedTyped DEF EditSound
<1>4. /\ Coherent(Edited(r))
      /\ \A x \in ResourcesOf(Present(Edited(r))) : resources[x] # "deleted"
  BY <1>1, <1>2 DEF ResourcesHeld, Used, ConfigOps
<1>5. config.version \in Nat /\ config.version + 1 \in Nat
  BY <1>2 DEF WebsiteTypes
<1>6. config' = [version |-> config.version + 1, content |-> r.wanted]
  BY <1>3 DEF CommitConfig
<1> QED BY <1>2, <1>3, <1>4, <1>5, <1>6 DEF CommitConfig

\* A download marks a frozen quotation, and changes nothing else of it.
LEMMA DownloadWrites ==
  ASSUME WebsiteTypes, NEW k \in Itineraries, RecordDownload(k)
  PROVE  /\ quotations' \in [Itineraries -> QuotationRow]
         /\ \A j \in Itineraries :
              /\ quotations'[j].frozen = quotations[j].frozen
              /\ quotations'[j].at = quotations[j].at
              /\ quotations'[j].uses = quotations[j].uses
              /\ quotations'[j].config = quotations[j].config
              /\ quotations[j].downloaded => quotations'[j].downloaded
<1>1. quotations[k] \in QuotationRow
  BY DEF WebsiteTypes
<1>2. [quotations[k] EXCEPT !.downloaded = TRUE] \in QuotationRow
  BY <1>1 DEF QuotationRow
<1> QED BY <1>1, <1>2 DEF RecordDownload, WebsiteTypes, QuotationRow
\* Every step keeps the types.
LEMMA TypesStep == WebsiteInv /\ [Next]_vars => WebsiteTypes'
<1> SUFFICES ASSUME WebsiteInv, [Next]_vars PROVE WebsiteTypes'
  OBVIOUS
<1> USE DEF rows, locks
<1>0. WebsiteTypes
  BY DEF WebsiteInv
<1>1. ASSUME NEW p \in Procs, Request(p) PROVE WebsiteTypes'
  <2>1. PICK r \in RequestRow : Begin(p, r)
    BY <1>1, RequestBegun DEF Begun
  <2>2. requests' \in 0..MaxRequests
    BY <1>0, <2>1, MaxRequestsAssumption DEF Begin, WebsiteTypes
  <2> QED BY <1>0, <2>1, <2>2 DEF Begin, WebsiteTypes
<1>2. ASSUME NEW p \in Procs, LockInquiry(p) PROVE WebsiteTypes'
  BY <1>0, <1>2 DEF LockInquiry, Goto, WebsiteTypes
<1>3. ASSUME NEW p \in Procs, ReadConfig(p) PROVE WebsiteTypes'
  <2>1. PICK u \in Plans :
          req' = [req EXCEPT ![p] = [req[p] EXCEPT !.uses = u, !.config = config.version]]
    BY <1>3 DEF ReadConfig
  <2>2. req[p] \in RequestRow /\ u \in SUBSET Records /\ config.version \in Nat
    BY <1>0, RecordsAssumption DEF WebsiteTypes
  <2>3. [req[p] EXCEPT !.uses = u, !.config = config.version] \in RequestRow
    BY <2>2, Zenon DEF RequestRow
  <2> QED BY <1>0, <1>3, <2>1, <2>3 DEF ReadConfig, Goto, WebsiteTypes
<1>4. ASSUME NEW p \in Procs, ShareConfig(p) \/ LockConfig(p) \/ ShareResources(p)
      PROVE  WebsiteTypes'
  BY <1>0, <1>4 DEF ShareConfig, LockConfig, ShareResources, Goto, WebsiteTypes
<1>5. ASSUME NEW p \in Procs,
             \/ CommitInquiry(p) \/ CommitCreateItinerary(p) \/ CommitCopy(p) \/ CommitPlan(p)
             \/ CommitConfirm(p) \/ CommitCreateTour(p) \/ CommitConfig(p)
      PROVE  WebsiteTypes'
  BY SMTT(30), <1>0, <1>5, CommitInquiryWrites, InsertWrites, PlanWrites, ConfirmWrites,
     CreateTourWrites, ConfigWrites, FinishKeeps DEF WebsiteTypes
<1>6. ASSUME NEW p \in Procs, ReplayConfirm(p) \/ Rollback(p) PROVE WebsiteTypes'
  <2>1. Finish(p) /\ UNCHANGED rows
    BY <1>6 DEF ReplayConfirm, Rollback
  <2> QED BY <1>0, <2>1, FinishKeeps DEF WebsiteTypes
<1>7. ASSUME NEW i \in Inquiries, CreateInquiry(i) \/ CancelTour(i) PROVE WebsiteTypes'
  BY SMTT(30), <1>0, <1>7 DEF CreateInquiry, CancelTour, WebsiteTypes, InquiryRow
<1>8. ASSUME NEW k \in Itineraries, RecordDownload(k) PROVE WebsiteTypes'
  BY <1>0, <1>8, DownloadWrites DEF RecordDownload, WebsiteTypes
<1>9. ASSUME NEW x \in Resources, ChangeResource(x) PROVE WebsiteTypes'
  BY <1>0, <1>9 DEF ChangeResource, WebsiteTypes
<1>10. CASE UNCHANGED vars
  BY <1>0, <1>10 DEF vars, WebsiteTypes
<1> QED BY <1>1, <1>2, <1>3, <1>4, <1>5, <1>6, <1>7, <1>8, <1>9, <1>10 DEF Next, Work

-----------------------------------------------------------------------------
(* What the other transactions keep *)

\* Nothing of an inquiry changes but a tour of it that is cancelled or a download.
Untouched(i) ==
  /\ inquiries'[i] = inquiries[i]
  /\ sold'[i] \in {sold[i], NoOne}
  /\ \A k \in Itineraries :
       /\ itineraries'[k].inquiry = i <=> itineraries[k].inquiry = i
       /\ itineraries[k].inquiry = i =>
            /\ itineraries'[k] = itineraries[k]
            /\ quotations'[k].frozen = quotations[k].frozen /\ quotations'[k].at = quotations[k].at
            /\ quotations[k].downloaded => quotations'[k].downloaded

\* Itineraries stay with their inquiries, and quotations stay frozen.
Later ==
  \A k \in Itineraries :
    /\ itineraries[k].status # "none" =>
         itineraries'[k].status # "none" /\ itineraries'[k].inquiry = itineraries[k].inquiry
    /\ quotations[k].frozen => quotations'[k].frozen

\* What was checked under the lock of an inquiry holds while nothing touches it.
LEMMA AllowedKept ==
  ASSUME NEW p \in Procs, NEW r \in RequestRow, RequestSound(p, r), Allowed(r),
         r.op \notin ConfigOps, r.op # "none", Untouched(r.inquiry)
  PROVE  Allowed(r)'
<1> DEFINE i == r.inquiry
<1>1. /\ inquiries'[i] = inquiries[i] /\ sold'[i] = NoOne
      /\ \A k \in Itineraries : itineraries'[k].inquiry = i <=> itineraries[k].inquiry = i
  BY DEF Untouched, Allowed
<1>2. ASSUME NEW k \in Itineraries, itineraries[k].inquiry = i
      PROVE  /\ itineraries'[k] = itineraries[k]
             /\ quotations'[k].frozen = quotations[k].frozen /\ quotations'[k].at = quotations[k].at
             /\ quotations[k].downloaded => quotations'[k].downloaded
  BY <1>2 DEF Untouched
<1>3. QuotationsOf(i)' = QuotationsOf(i)
  BY <1>1, <1>2 DEF QuotationsOf
<1>4. ASSUME r.op \in OnItinerary
      PROVE  /\ ItinerarySeen(r, r.itinerary)' <=> ItinerarySeen(r, r.itinerary)
             /\ Draft(r.itinerary)' <=> Draft(r.itinerary)
             /\ quotations[r.itinerary].downloaded => quotations'[r.itinerary].downloaded
             /\ Latest(i, r.itinerary) => Latest(i, r.itinerary)'
  <2> PICK k \in Itineraries : k = r.itinerary /\ itineraries[k].inquiry = i
    BY <1>4 DEF RequestSound
  <2>1. /\ ItinerarySeen(r, k)' <=> ItinerarySeen(r, k)
        /\ Draft(k)' <=> Draft(k)
        /\ quotations[k].downloaded => quotations'[k].downloaded
    BY <1>2 DEF ItinerarySeen, Draft
  <2>2. Latest(i, k) => Latest(i, k)'
    BY <1>2, <1>3 DEF Latest, QuotationsOf
  <2> QED BY <2>1, <2>2
<1>5. r.op = "copy" => (ItinerarySeen(r, r.source)' <=> ItinerarySeen(r, r.source))
  BY <1>2 DEF RequestSound, ItinerarySeen
<1>6. /\ Mutable(i)' <=> Mutable(i)
      /\ InquirySeen(r)' <=> InquirySeen(r)
  BY <1>1 DEF Mutable, InquirySeen
<1> HIDE DEF i
<1> QED BY <1>1, <1>4, <1>5, <1>6 DEF Allowed, OnItinerary, i

\* A transaction keeps its footing while its inquiry, the configuration it locked and the
\* resources it shares stay, and nobody takes the itinerary it is to insert.
Keeps(q) ==
  /\ RequestSound(q, req[q])' /\ EditSound(req[q])'
  /\ InquiryHeld(q)' /\ ConfigHeld(q)' /\ ResourcesHeld(q)'
  /\ IF pc'[q] = "idle" THEN req'[q] = Blank ELSE req'[q].op # "none"

LEMMA OthersKeep ==
  ASSUME WebsiteInv, NEW q \in Procs, pc'[q] = pc[q], req'[q] = req[q],
         \A i \in Inquiries : lock[i] = q => lock'[i] = q,
         writer = q => writer' = q,
         q \in readers => q \in readers',
         \A x \in Resources : q \in sharers[x] => q \in sharers'[x] /\ resources'[x] = resources[x],
         Later,
         pc[q] \in {"config", "resources", "save"} /\ req[q].op \notin ConfigOps =>
           Untouched(req[q].inquiry),
         req[q].op \in NewItinerary =>
           /\ itineraries'[req[q].itinerary] = itineraries[req[q].itinerary]
           /\ \A x \in Procs \ {q} : req'[x].itinerary # req[q].itinerary,
         config' = config
  PROVE  Keeps(q)
<1> PICK r \in RequestRow : r = req[q]
  BY DEF WebsiteInv, WebsiteTypes
<1>1. /\ RequestSound(q, r) /\ EditSound(r) /\ InquiryHeld(q) /\ ConfigHeld(q)
      /\ ResourcesHeld(q) /\ WebsiteTypes
      /\ IF pc[q] = "idle" THEN r = Blank ELSE r.op # "none"
      /\ r.op \in {"none"} \cup OnInquiry \cup NewItinerary \cup OnItinerary \cup ConfigOps
  BY DEF WebsiteInv, RequestRow
<1>2. RequestSound(q, r)'
  <2>1. r.op \in OnItinerary =>
          /\ itineraries'[r.itinerary].status # "none"
          /\ itineraries'[r.itinerary].inquiry = r.inquiry
    BY <1>1 DEF RequestSound, Later
  <2>2. r.op = "createTour" => quotations'[r.itinerary].frozen
    BY <1>1 DEF RequestSound, Later, OnItinerary
  <2>3. r.op = "copy" =>
          /\ itineraries'[r.source].status # "none"
          /\ itineraries'[r.source].inquiry = r.inquiry
    BY <1>1 DEF RequestSound, Later
  <2>4. r.op \in NewItinerary =>
          /\ itineraries'[r.itinerary].status = "none"
          /\ \A x \in Procs \ {q} : req'[x].itinerary # r.itinerary
    BY <1>1 DEF RequestSound
  <2> QED BY <1>1, <2>1, <2>2, <2>3, <2>4 DEF RequestSound
<1>3. EditSound(r)'
  BY <1>1 DEF EditSound, Edited
<1>4. ASSUME pc[q] \in {"config", "resources", "save"}, r.op \notin ConfigOps
      PROVE  /\ lock'[r.inquiry] = q /\ Live(r.inquiry)' /\ Allowed(r)' /\ r.op # "none"
             /\ Untouched(r.inquiry)
  <2>1. lock[r.inquiry] = q /\ Live(r.inquiry) /\ Allowed(r) /\ Untouched(r.inquiry)
    BY <1>1, <1>4 DEF InquiryHeld
  <2>2. r.op # "none"
    BY <1>1, <1>4
  <2>3. r.inquiry \in Inquiries
    BY <1>1, <1>4, <2>2 DEF RequestSound
  <2> QED BY <1>1, <1>4, <2>1, <2>2, <2>3, AllowedKept DEF Live, Untouched
<1>5. InquiryHeld(q)'
  BY <1>4 DEF InquiryHeld
<1>6. r.op = "confirm" /\ pc[q] \in {"resources", "save"} =>
        itineraries'[r.itinerary] = itineraries[r.itinerary]
  BY <1>1, <1>4 DEF RequestSound, OnItinerary, Untouched, ConfigOps
<1>7. ConfigHeld(q)'
  BY <1>1, <1>6 DEF ConfigHeld
<1>8. ResourcesHeld(q)'
  <2>1. r.op \in ConfigOps \cup {"confirm"} /\ pc[q] = "save" => Used(r)' = Used(r)
    BY <1>1, <1>6 DEF Used, UsesOf, Edited, ConfigOps
  <2>2. r.op \in ConfigOps => Edited(r)' = Edited(r)
    BY DEF Edited
  <2>3. r.op \in ConfigOps \cup {"confirm"} /\ pc[q] = "save" =>
          \A x \in ResourcesOf(Used(r)) : x \in Resources
    <3>1. r.op \in ConfigOps \cup {"confirm"} => Used(r) \subseteq Records
      <4>1. CASE r.op = "confirm"
        BY <1>1, <4>1 DEF Used, UsesOf, RequestSound, OnItinerary, WebsiteTypes, ItineraryRow
      <4>2. CASE r.op \in ConfigOps
        BY <4>2 DEF Used, Present, ConfigOps
      <4> QED BY <4>1, <4>2
    <3> QED BY <3>1, RecordsAssumption DEF ResourcesOf
  <2>4. pc[q] = "save" => ConfigReady(r)'
    BY <1>1, <2>1 DEF ResourcesHeld, ConfigReady
  <2> QED BY <1>1, <2>1, <2>2, <2>3, <2>4 DEF ResourcesHeld, Coherent, Present
<1> QED BY <1>1, <1>2, <1>3, <1>5, <1>7, <1>8 DEF Keeps
\* A transaction that takes a step of its own keeps what it knew and what it learns.
LEMMA OwnKept ==
  ASSUME WebsiteInv, NEW p \in Procs, UNCHANGED rows, UNCHANGED resources, req'[p] = req[p],
         pc[p] # "idle", pc'[p] # "idle",
         \A q \in Procs \ {p} : req'[q] = req[q]
  PROVE  /\ RequestSound(p, req[p])' /\ EditSound(req[p])'
         /\ IF pc'[p] = "idle" THEN req'[p] = Blank ELSE req'[p].op # "none"
         /\ \A q \in Procs : Later /\ Untouched(req[q].inquiry)
<1> PICK r \in RequestRow : r = req[p]
  BY DEF WebsiteInv, WebsiteTypes
<1>1. RequestSound(p, r) /\ EditSound(r) /\ r.op # "none"
  BY DEF WebsiteInv
<1>2. RequestSound(p, r)'
  BY <1>1 DEF RequestSound, rows
<1>3. EditSound(r)'
  BY <1>1 DEF EditSound, Edited, rows
<1>4. \A q \in Procs : Later /\ Untouched(req[q].inquiry)
  BY DEF Later, Untouched, rows
<1> QED BY <1>1, <1>2, <1>3, <1>4

\* A request that begins finds its transaction and the others as they should be.
LEMMA RequestKeeps ==
  ASSUME WebsiteInv, NEW p \in Procs, Request(p), NEW q \in Procs
  PROVE  Keeps(q)
<1> USE DEF rows, locks
<1>0. WebsiteTypes
  BY DEF WebsiteInv
<1>1. PICK r \in RequestRow : Begun(p, r)
  BY RequestBegun
<1>2. /\ UNCHANGED <<rows, resources, locks>> /\ pc[p] = "idle"
      /\ \A x \in Procs : req'[x] = IF x = p THEN r ELSE req[x]
      /\ \A x \in Procs : pc'[x] = IF x = p THEN "lock" ELSE pc[x]
  BY <1>0, <1>1 DEF Begun, Begin, WebsiteTypes
<1>3. /\ RequestSound(p, r) /\ EditSound(r) /\ r.op # "none"
      /\ r.op \in NewItinerary => \A x \in Procs : req[x].itinerary # r.itinerary
      /\ r.op \notin NewItinerary \cup OnItinerary => r.itinerary = NoOne
  BY <1>1 DEF Begun
<1>4. CASE q = p
  <2>1. RequestSound(p, r)'
    BY <1>2, <1>3 DEF RequestSound
  <2>2. EditSound(r)'
    BY <1>2, <1>3 DEF EditSound, Edited
  <2> QED BY <1>2, <1>3, <1>4, <2>1, <2>2 DEF Keeps, InquiryHeld, ConfigHeld, ResourcesHeld
<1>5. CASE q # p
  <2>1. RequestSound(q, req[q])
    BY DEF WebsiteInv
  <2>2. req[q].op \in NewItinerary =>
          /\ req[q].itinerary \in Itineraries /\ itineraries[req[q].itinerary].status = "none"
          /\ \A x \in Procs \ {q} : req[x].itinerary # req[q].itinerary
    BY <2>1 DEF RequestSound
  <2>3. req[q].op \in NewItinerary => r.itinerary # req[q].itinerary
    BY <1>3, <2>2, NoOneAssumption DEF RequestSound
  <2>4. Later /\ Untouched(req[q].inquiry)
    BY <1>2 DEF Later, Untouched
  <2> QED BY <1>2, <1>5, <2>2, <2>3, <2>4, OthersKeep
<1> QED BY <1>4, <1>5

\* A step between the first and the last of a transaction keeps every transaction sound.
LEMMA MiddleKeeps ==
  ASSUME WebsiteInv, NEW p \in Procs,
         LockInquiry(p) \/ ReadConfig(p) \/ ShareConfig(p) \/ LockConfig(p) \/ ShareResources(p),
         NEW q \in Procs
  PROVE  Keeps(q)
<1> USE DEF rows, locks
<1>0. /\ WebsiteTypes /\ InquiryHeld(p) /\ ConfigHeld(p)
      /\ RequestSound(p, req[p])
      /\ \A x \in Procs : req[x].op \in NewItinerary =>
           \A y \in Procs \ {x} : req[y].itinerary # req[x].itinerary
  BY DEF WebsiteInv, RequestSound
<1>1. /\ UNCHANGED rows /\ resources' = resources
      /\ \A x \in Procs \ {p} : pc'[x] = pc[x] /\ req'[x] = req[x]
      /\ pc[p] # "idle" /\ pc'[p] # "idle"
  BY <1>0 DEF LockInquiry, ReadConfig, ShareConfig, LockConfig, ShareResources, Goto, WebsiteTypes
<1>2. /\ \A i \in Inquiries, x \in Procs : lock[i] = x => lock'[i] = x
      /\ \A x \in Procs : writer = x => writer' = x
      /\ readers \subseteq readers'
      /\ \A x \in Resources : sharers[x] \subseteq sharers'[x]
  <2>1. CASE LockInquiry(p)
    BY <1>0, <2>1, NoOneAssumption DEF LockInquiry, Goto, WebsiteTypes
  <2>2. CASE ReadConfig(p)
    BY <2>2 DEF ReadConfig
  <2>3. CASE ShareConfig(p)
    BY <2>3 DEF ShareConfig
  <2>4. CASE LockConfig(p)
    BY <2>4, NoOneAssumption DEF LockConfig
  <2>5. CASE ShareResources(p)
    BY <1>0, <2>5 DEF ShareResources, WebsiteTypes
  <2> QED BY <2>1, <2>2, <2>3, <2>4, <2>5
<1>3. Later /\ \A x \in Procs : Untouched(req[x].inquiry)
  BY <1>1 DEF Later, Untouched
<1>4. \A x \in Procs : req'[x].itinerary = req[x].itinerary
  <2>1. req[p] \in RequestRow
    BY <1>0 DEF WebsiteTypes
  <2>2. CASE ReadConfig(p)
    <3>1. PICK u \in Plans :
            req' = [req EXCEPT ![p] = [req[p] EXCEPT !.uses = u, !.config = config.version]]
      BY <2>2 DEF ReadConfig
    <3>2. req'[p] = [req[p] EXCEPT !.uses = u, !.config = config.version]
      BY <1>0, <3>1 DEF WebsiteTypes
    <3>3. req'[p].itinerary = req[p].itinerary
      BY <2>1, <3>2 DEF RequestRow
    <3> QED BY <1>1, <3>3
  <2>3. CASE ~ReadConfig(p)
    BY <2>3 DEF LockInquiry, ShareConfig, LockConfig, ShareResources
  <2> QED BY <2>2, <2>3
<1>5. CASE q # p
  <2>1. req[q].op \in NewItinerary =>
          \A x \in Procs \ {q} : req'[x].itinerary # req[q].itinerary
    BY <1>0, <1>4
  <2> QED BY <1>1, <1>2, <1>3, <1>5, <2>1, OthersKeep
<1>6. CASE q = p
  <2> PICK r \in RequestRow : r = req[p]
    BY <1>0 DEF WebsiteTypes
  <2> SUFFICES Keeps(p)
    BY <1>6
  <2>1. ASSUME req'[p] = r
        PROVE  /\ RequestSound(p, req[p])' /\ EditSound(req[p])'
               /\ IF pc'[p] = "idle" THEN req'[p] = Blank ELSE req'[p].op # "none"
    BY <1>1, <2>1, OwnKept
  <2>2. ASSUME NEW n \in RequestRow, n.inquiry = r.inquiry, n.itinerary = r.itinerary,
               n.op = r.op, n.source = r.source, n.version = r.version,
               n.inquiryVersion = r.inquiryVersion, Allowed(r)
        PROVE  Allowed(n)'
    BY <1>1, <2>2 DEF Allowed, InquirySeen, ItinerarySeen, Mutable, Draft, Latest, QuotationsOf
  <2>3. CASE LockInquiry(p)
    <3>1. /\ lock[r.inquiry] = NoOne /\ Live(r.inquiry) /\ Allowed(r) /\ r.op \notin ConfigOps
          /\ lock' = [lock EXCEPT ![r.inquiry] = p] /\ req' = req
          /\ pc' = [pc EXCEPT ![p] = IF r.op \in {"generate", "confirm"} THEN "config" ELSE "save"]
          /\ pc[p] = "lock"
      BY <2>3 DEF LockInquiry, Goto
    <3>2. r.inquiry \in Inquiries
      BY <1>0, <1>1, <3>1 DEF WebsiteInv, RequestSound, RequestRow
    <3>3. lock'[r.inquiry] = p /\ Live(r.inquiry)' /\ Allowed(r)'
      BY <1>0, <1>1, <2>2, <3>1, <3>2 DEF WebsiteTypes, Live
    <3>4. InquiryHeld(p)'
      BY <3>1, <3>3 DEF InquiryHeld
    <3>5. ConfigHeld(p)' /\ ResourcesHeld(p)'
      BY <1>0, <3>1 DEF ConfigHeld, ResourcesHeld, ConfigReady, WebsiteTypes
    <3> QED BY <2>1, <3>1, <3>4, <3>5 DEF Keeps
  <2>4. CASE ReadConfig(p)
    <3>1. PICK u \in Plans :
            req' = [req EXCEPT ![p] = [req[p] EXCEPT !.uses = u, !.config = config.version]]
      BY <2>4 DEF ReadConfig
    <3>2. u \in SUBSET Records /\ config.version \in Nat
      BY <1>0, RecordsAssumption DEF WebsiteTypes
    <3> DEFINE n == [r EXCEPT !.uses = u, !.config = config.version]
    <3>3. n \in RequestRow
      BY <3>2, ZenonT(40) DEF RequestRow
    <3>4. /\ n.inquiry = r.inquiry /\ n.itinerary = r.itinerary /\ n.op = r.op
          /\ n.source = r.source /\ n.version = r.version /\ n.inquiryVersion = r.inquiryVersion
      BY DEF RequestRow
    <3>5. req'[p] = n
      BY <1>0, <3>1 DEF WebsiteTypes
    <3> HIDE DEF n
    <3>6. PICK m \in RequestRow : m = n
      BY <3>3
    <3>7. r.op = "generate" /\ pc[p] = "config" /\ pc'[p] = "save" /\ lock' = lock
      BY <1>0, <2>4 DEF ReadConfig, Goto, WebsiteTypes
    <3>8. lock[r.inquiry] = p /\ Live(r.inquiry) /\ Allowed(r)
      BY <1>0, <3>7 DEF InquiryHeld, ConfigOps
    <3>9. Live(r.inquiry)' /\ Allowed(m)'
      BY <1>1, <2>2, <3>4, <3>6, <3>8 DEF Live
    <3>10. RequestSound(p, m)' /\ EditSound(m)'
      BY <1>0, <1>1, <3>4, <3>6, <3>7
      DEF RequestSound, EditSound, NewItinerary, OnItinerary, OnInquiry, ConfigOps
    <3>11. InquiryHeld(p)' /\ ConfigHeld(p)' /\ ResourcesHeld(p)'
      BY <3>4, <3>5, <3>6, <3>7, <3>8, <3>9
      DEF InquiryHeld, ConfigHeld, ResourcesHeld, ConfigReady, ConfigOps
    <3> QED BY <3>4, <3>5, <3>6, <3>7, <3>10, <3>11 DEF Keeps
  <2>5. CASE ShareConfig(p)
    <3>1. /\ r.op = "confirm" /\ pc[p] = "config" /\ pc'[p] = "resources" /\ req' = req
          /\ p \in readers' /\ config.version = itineraries[r.itinerary].config
          /\ lock' = lock
      BY <1>0, <2>5 DEF ShareConfig, Goto, WebsiteTypes
    <3>2. lock[r.inquiry] = p /\ Live(r.inquiry) /\ Allowed(r)
      BY <1>0, <3>1 DEF InquiryHeld, ConfigOps
    <3>3. Live(r.inquiry)' /\ Allowed(r)'
      BY <1>1, <2>2, <3>2 DEF Live
    <3>4. InquiryHeld(p)' /\ ConfigHeld(p)' /\ ResourcesHeld(p)'
      BY <1>1, <3>1, <3>2, <3>3 DEF InquiryHeld, ConfigHeld, ResourcesHeld, ConfigOps
    <3> QED BY <2>1, <3>1, <3>4 DEF Keeps
  <2>6. CASE LockConfig(p)
    <3>1. /\ r.op \in ConfigOps /\ pc'[p] = "resources" /\ req' = req
          /\ writer' = p /\ config.version = r.config
      BY <1>0, <2>6 DEF LockConfig, Goto, WebsiteTypes
    <3>2. InquiryHeld(p)' /\ ConfigHeld(p)' /\ ResourcesHeld(p)'
      BY <1>1, <3>1 DEF InquiryHeld, ConfigHeld, ResourcesHeld, ConfigOps
    <3> QED BY <2>1, <3>1, <3>2 DEF Keeps
  <2>7. CASE ShareResources(p)
    <3>1. /\ pc[p] = "resources" /\ pc'[p] = "save" /\ req' = req
          /\ ResourcesGood(r) /\ ConfigReady(r) /\ (r.op \in ConfigOps => Coherent(Edited(r)))
          /\ sharers' = [x \in Resources |->
               IF x \in ResourcesOf(Used(r)) THEN sharers[x] \cup {p} ELSE sharers[x]]
          /\ UNCHANGED <<lock, writer, readers>>
      BY <1>0, <2>7 DEF ShareResources, Goto, WebsiteTypes
    <3>2. r.op \notin ConfigOps => lock[r.inquiry] = p /\ Live(r.inquiry) /\ Allowed(r)
      BY <1>0, <3>1 DEF InquiryHeld
    <3>3. r.op \notin ConfigOps => Live(r.inquiry)' /\ Allowed(r)'
      BY <1>1, <2>2, <3>2 DEF Live
    <3>4. InquiryHeld(p)' /\ ConfigHeld(p)'
      BY <1>0, <1>1, <3>1, <3>2, <3>3 DEF InquiryHeld, ConfigHeld
    <3>5. Used(r)' = Used(r) /\ Edited(r)' = Edited(r)
      BY <1>1 DEF Used, UsesOf, Edited
    <3>6. r.op \in ConfigOps \cup {"confirm"} => Used(r) \subseteq Records
      <4>1. CASE r.op = "confirm"
        BY <1>0, <4>1 DEF Used, UsesOf, RequestSound, OnItinerary, WebsiteTypes, ItineraryRow
      <4>2. CASE r.op \in ConfigOps
        BY <4>2 DEF Used, Present, ConfigOps
      <4> QED BY <4>1, <4>2
    <3>7. r.op \in ConfigOps \cup {"confirm"} =>
            \A x \in ResourcesOf(Used(r)) : p \in sharers'[x] /\ resources'[x] # "deleted"
      BY <1>1, <3>1, <3>6, RecordsAssumption DEF ResourcesOf, ResourcesGood
    <3>8. ConfigReady(r)' /\ (r.op \in ConfigOps => Coherent(Edited(r))')
      BY <1>1, <3>1, <3>5 DEF ConfigReady, Coherent, Present
    <3>9. ResourcesHeld(p)'
      BY <3>1, <3>5, <3>7, <3>8 DEF ResourcesHeld
    <3> QED BY <2>1, <3>1, <3>4, <3>9 DEF Keeps
  <2> QED BY <2>3, <2>4, <2>5, <2>6, <2>7
<1> QED BY <1>5, <1>6

\* The end of a transaction keeps the others sound: what it writes is of an inquiry that it
\* has locked, and what it inserts is its own.
LEMMA EndKeeps ==
  ASSUME WebsiteInv, NEW p \in Procs, Finish(p), Later, config' = config,
         \A i \in Inquiries : Untouched(i) \/ lock[i] = p,
         \A k \in Itineraries :
           itineraries'[k] = itineraries[k] \/ itineraries[k].status # "none"
             \/ req[p].itinerary = k,
         NEW q \in Procs
  PROVE  Keeps(q)
<1>0. WebsiteTypes /\ RequestSound(q, req[q]) /\ InquiryHeld(q)
  BY DEF WebsiteInv
<1>1. /\ resources' = resources /\ pc'[p] = "idle" /\ req'[p] = Blank
      /\ \A x \in Procs \ {p} : pc'[x] = pc[x] /\ req'[x] = req[x]
      /\ \A i \in Inquiries, x \in Procs \ {p} : lock[i] = x => lock'[i] = x
      /\ \A x \in Procs \ {p} : /\ writer = x => writer' = x
                                /\ x \in readers => x \in readers'
                                /\ \A y \in Resources : x \in sharers[y] => x \in sharers'[y]
  BY <1>0, FinishKeeps
<1>2. CASE q = p
  <2>1. RequestSound(p, Blank)' /\ EditSound(Blank)'
    BY DEF RequestSound, EditSound, Blank, ConfigOps, OnInquiry, NewItinerary, OnItinerary
  <2> QED BY <1>1, <1>2, <2>1 DEF Keeps, InquiryHeld, ConfigHeld, ResourcesHeld
<1>3. CASE q # p
  <2>1. ASSUME pc[q] \in {"config", "resources", "save"}, req[q].op \notin ConfigOps
        PROVE  Untouched(req[q].inquiry)
    <3>1. lock[req[q].inquiry] = q
      BY <1>0, <2>1 DEF InquiryHeld
    <3>2. req[q].op \in OnInquiry \cup NewItinerary \cup OnItinerary
      BY <2>1 DEF WebsiteInv, WebsiteTypes, RequestRow
    <3>3. req[q].inquiry \in Inquiries
      BY <1>0, <3>2 DEF RequestSound
    <3> QED BY <1>3, <3>1, <3>3
  <2>2. ASSUME req[q].op \in NewItinerary
        PROVE  /\ itineraries'[req[q].itinerary] = itineraries[req[q].itinerary]
               /\ \A x \in Procs \ {q} : req'[x].itinerary # req[q].itinerary
    <3>1. /\ req[q].itinerary \in Itineraries /\ itineraries[req[q].itinerary].status = "none"
          /\ \A x \in Procs \ {q} : req[x].itinerary # req[q].itinerary
      BY <1>0, <2>2 DEF RequestSound
    <3>2. Blank.itinerary # req[q].itinerary
      BY <3>1, NoOneAssumption DEF Blank
    <3> QED BY <1>1, <1>3, <3>1, <3>2
  <2> QED BY <1>1, <1>3, <2>1, <2>2, OthersKeep
<1> QED BY <1>2, <1>3

\* A commit of an inquiry, an itinerary, a quotation or a tour keeps every transaction sound.
LEMMA CommitKeeps ==
  ASSUME WebsiteInv, NEW p \in Procs,
         \/ CommitInquiry(p) \/ CommitCreateItinerary(p) \/ CommitCopy(p) \/ CommitPlan(p)
         \/ CommitConfirm(p) \/ CommitCreateTour(p),
         NEW q \in Procs
  PROVE  Keeps(q)
<1>0. \A k \in Itineraries : itineraries[k].status # "none" => itineraries[k].inquiry \in Inquiries
  BY DEF WebsiteInv, ItinerarySound
<1>1. lock[req[p].inquiry] = p /\ WebsiteTypes
  BY SaveHas DEF CommitInquiry, CommitCreateItinerary, CommitCopy, CommitPlan, CommitConfirm,
                 CommitCreateTour, OnInquiry, NewItinerary, OnItinerary
<1>2. CASE CommitInquiry(p)
  <2>1. /\ Finish(p) /\ UNCHANGED <<itineraries, quotations, sold, config>>
        /\ \A j \in Inquiries \ {req[p].inquiry} : inquiries'[j] = inquiries[j]
    BY <1>2, CommitInquiryWrites
  <2>2. Later /\ \A i \in Inquiries : Untouched(i) \/ lock[i] = p
    BY <1>1, <2>1 DEF Later, Untouched
  <2> QED BY <2>1, <2>2, EndKeeps
<1>3. CASE CommitCreateItinerary(p) \/ CommitCopy(p)
  <2> DEFINE i == req[p].inquiry  k == req[p].itinerary
  <2>1. /\ Finish(p) /\ UNCHANGED <<quotations, sold, config>>
        /\ \A j \in Inquiries \ {i} : inquiries'[j] = inquiries[j]
        /\ \A j \in Itineraries \ {k} : itineraries'[j] = itineraries[j]
        /\ itineraries[k].status = "none" /\ k \in Itineraries
        /\ itineraries'[k].inquiry = i
    BY <1>3, InsertWrites
  <2>2. itineraries[k].inquiry = NoOne
    BY <2>1 DEF WebsiteInv, ItinerarySound, NoItinerary
  <2> HIDE DEF i, k
  <2>3. \A j \in Inquiries : j # i => Untouched(j)
    BY <2>1, <2>2, NoOneAssumption DEF Untouched
  <2>4. Later
    BY <2>1 DEF Later
  <2> QED BY <1>1, <2>1, <2>3, <2>4, EndKeeps DEF i, k
<1>4. CASE CommitPlan(p)
  <2> DEFINE i == req[p].inquiry  k == req[p].itinerary
  <2>1. /\ Finish(p) /\ UNCHANGED <<inquiries, quotations, sold, config>>
        /\ \A j \in Itineraries \ {k} : itineraries'[j] = itineraries[j]
        /\ itineraries[k].status = "draft" /\ k \in Itineraries
        /\ itineraries'[k].inquiry = i /\ itineraries[k].inquiry = i
        /\ itineraries'[k].status = "draft"
    BY <1>4, PlanWrites
  <2> HIDE DEF i, k
  <2>2. \A j \in Inquiries : j # i => Untouched(j)
    BY <2>1 DEF Untouched
  <2>3. Later
    BY <2>1 DEF Later
  <2> QED BY <1>1, <2>1, <2>2, <2>3, EndKeeps DEF i, k
<1>5. CASE CommitConfirm(p)
  <2> DEFINE i == req[p].inquiry  k == req[p].itinerary
  <2>1. /\ Finish(p) /\ UNCHANGED <<sold, config>>
        /\ \A j \in Inquiries \ {i} : inquiries'[j] = inquiries[j]
        /\ \A j \in Itineraries \ {k} : itineraries'[j] = itineraries[j]
        /\ \A j \in Itineraries \ {k} : quotations'[j] = quotations[j]
        /\ itineraries[k].status = "draft" /\ k \in Itineraries
        /\ itineraries'[k].inquiry = i /\ itineraries[k].inquiry = i
        /\ itineraries'[k].status = "quoted" /\ quotations'[k].frozen
    BY <1>5, ConfirmWrites
  <2> HIDE DEF i, k
  <2>2. \A j \in Inquiries : j # i => Untouched(j)
    BY <2>1 DEF Untouched
  <2>3. Later
    BY <2>1 DEF Later
  <2> QED BY <1>1, <2>1, <2>2, <2>3, EndKeeps DEF i, k
<1>6. CASE CommitCreateTour(p)
  <2> DEFINE i == req[p].inquiry
  <2>1. /\ Finish(p) /\ UNCHANGED <<inquiries, itineraries, quotations, config>>
        /\ sold' = [sold EXCEPT ![i] = req[p].itinerary]
    BY <1>6, CreateTourWrites
  <2> HIDE DEF i
  <2>2. \A j \in Inquiries : j # i => Untouched(j)
    BY <1>1, <2>1 DEF Untouched, WebsiteTypes
  <2>3. Later
    BY <2>1 DEF Later
  <2> QED BY <1>1, <2>1, <2>2, <2>3, EndKeeps DEF i
<1> QED BY <1>2, <1>3, <1>4, <1>5, <1>6

\* A new configuration outdates the edits that others saw the last one for; nobody is
\* between its lock of the configuration and its own write.
LEMMA ConfigKeeps ==
  ASSUME WebsiteInv, NEW p \in Procs, CommitConfig(p), NEW q \in Procs
  PROVE  Keeps(q)
<1>1. /\ Finish(p) /\ writer = p /\ config.version \in Nat
      /\ config'.version = config.version + 1
      /\ UNCHANGED <<inquiries, itineraries, quotations, sold>>
  BY ConfigWrites
<1>2. /\ WebsiteTypes /\ RequestSound(q, req[q]) /\ EditSound(req[q]) /\ InquiryHeld(q)
      /\ ConfigHeld(q) /\ readers = {}
      /\ IF pc[q] = "idle" THEN req[q] = Blank ELSE req[q].op # "none"
  BY <1>1, NoOneAssumption DEF WebsiteInv
<1>3. /\ pc'[p] = "idle" /\ req'[p] = Blank
      /\ \A x \in Procs \ {p} : pc'[x] = pc[x] /\ req'[x] = req[x]
      /\ \A i \in Inquiries, x \in Procs \ {p} : lock[i] = x => lock'[i] = x
  BY <1>1, <1>2, FinishKeeps
<1>4. CASE q = p
  <2>1. RequestSound(p, Blank)' /\ EditSound(Blank)'
    BY DEF RequestSound, EditSound, Blank, ConfigOps, OnInquiry, NewItinerary, OnItinerary
  <2> QED BY <1>3, <1>4, <2>1 DEF Keeps, InquiryHeld, ConfigHeld, ResourcesHeld
<1>5. CASE q # p
  <2> PICK r \in RequestRow : r = req[q]
    BY <1>2 DEF WebsiteTypes
  <2>1. req'[q] = r /\ pc'[q] = pc[q]
    BY <1>3, <1>5
  <2>2. r.config \in Nat /\ r.op \in {"none"} \cup OnInquiry \cup NewItinerary \cup OnItinerary
                                      \cup ConfigOps
    BY DEF RequestRow
  <2>3. EditSound(r)'
    BY <1>1, <1>2, <2>2 DEF EditSound
  <2>4. RequestSound(q, r)'
    <3>1. r.op \in NewItinerary =>
            /\ r.itinerary \in Itineraries /\ itineraries[r.itinerary].status = "none"
            /\ \A x \in Procs \ {q} : req[x].itinerary # r.itinerary
      BY <1>2 DEF RequestSound
    <3>2. r.op \in NewItinerary => \A x \in Procs \ {q} : req'[x].itinerary # r.itinerary
      BY <1>3, <3>1, NoOneAssumption DEF Blank
    <3> QED BY <1>1, <1>2, <3>2 DEF RequestSound
  <2>5. pc[q] \in {"resources", "save"} => r.op \notin ConfigOps \cup {"confirm"}
    BY <1>1, <1>2, <1>5 DEF ConfigHeld
  <2>6. ConfigHeld(q)' /\ ResourcesHeld(q)'
    BY <2>1, <2>5 DEF ConfigHeld, ResourcesHeld, ConfigReady, ConfigOps
  <2>7. ASSUME pc[q] \in {"config", "resources", "save"}, r.op \notin ConfigOps
        PROVE  lock'[r.inquiry] = q /\ Live(r.inquiry)' /\ Allowed(r)'
    <3>1. lock[r.inquiry] = q /\ Live(r.inquiry) /\ Allowed(r) /\ r.op # "none"
      BY <1>2, <2>7 DEF InquiryHeld
    <3>2. r.inquiry \in Inquiries
      BY <1>2, <2>2, <2>7, <3>1 DEF RequestSound
    <3>3. Untouched(r.inquiry)
      BY <1>1 DEF Untouched
    <3>4. Allowed(r)'
      BY <1>2, <2>7, <3>1, <3>3, AllowedKept
    <3> QED BY <1>1, <1>3, <1>5, <3>1, <3>2, <3>4 DEF Live
  <2>8. InquiryHeld(q)'
    BY <2>1, <2>7 DEF InquiryHeld
  <2> QED BY <1>2, <2>1, <2>3, <2>4, <2>6, <2>8 DEF Keeps
<1> QED BY <1>4, <1>5

\* A request of one statement keeps every transaction sound.
LEMMA StatementKeeps ==
  ASSUME WebsiteInv,
         \/ \E i \in Inquiries : CreateInquiry(i) \/ CancelTour(i)
         \/ \E k \in Itineraries : RecordDownload(k)
         \/ \E x \in Resources : ChangeResource(x),
         NEW q \in Procs
  PROVE  Keeps(q)
<1> USE DEF rows, locks
<1>1. WebsiteTypes /\ InquiryHeld(q) /\ RequestSound(q, req[q])
  BY DEF WebsiteInv
<1>2. /\ UNCHANGED <<pc, req, lock, writer, readers, sharers, itineraries, config>>
      /\ \A x \in Resources : q \in sharers[x] => resources'[x] = resources[x]
  BY <1>1 DEF CreateInquiry, CancelTour, RecordDownload, ChangeResource, WebsiteTypes
<1>3. /\ \A k \in Itineraries : /\ quotations'[k].frozen = quotations[k].frozen
                                /\ quotations'[k].at = quotations[k].at
                                /\ quotations[k].downloaded => quotations'[k].downloaded
      /\ \A i \in Inquiries : /\ sold'[i] \in {sold[i], NoOne}
                              /\ Live(i) => inquiries'[i] = inquiries[i]
  <2>1. ASSUME NEW i \in Inquiries, CreateInquiry(i) \/ CancelTour(i) PROVE <1>3!1 /\ <1>3!2
    BY <1>1, <2>1 DEF CreateInquiry, CancelTour, Live, WebsiteTypes
  <2>2. ASSUME NEW k \in Itineraries, RecordDownload(k) PROVE <1>3!1 /\ <1>3!2
    BY <1>1, <2>2, DownloadWrites DEF RecordDownload
  <2>3. ASSUME NEW x \in Resources, ChangeResource(x) PROVE <1>3!1 /\ <1>3!2
    BY <2>3 DEF ChangeResource
  <2> QED BY <2>1, <2>2, <2>3
<1>4. Later
  BY <1>2, <1>3 DEF Later
<1>5. ASSUME pc[q] \in {"config", "resources", "save"}, req[q].op \notin ConfigOps
      PROVE  Untouched(req[q].inquiry)
  <2>1. Live(req[q].inquiry)
    BY <1>1, <1>5 DEF InquiryHeld
  <2>2. req[q].op \in OnInquiry \cup NewItinerary \cup OnItinerary
    BY <1>5 DEF WebsiteInv, WebsiteTypes, RequestRow
  <2>3. req[q].inquiry \in Inquiries
    BY <1>1, <2>2 DEF RequestSound
  <2> QED BY <1>2, <1>3, <2>1, <2>3 DEF Untouched
<1>6. req[q].op \in NewItinerary => \A x \in Procs \ {q} : req'[x].itinerary # req[q].itinerary
  BY <1>1, <1>2 DEF RequestSound
<1> QED BY <1>2, <1>4, <1>5, <1>6, OthersKeep

\* Every step keeps every transaction sound.
LEMMA KeepsStep ==
  ASSUME WebsiteInv, [Next]_vars, NEW q \in Procs
  PROVE  Keeps(q)
<1> USE DEF rows, locks
<1>1. CASE \E p \in Procs : Request(p)
  BY <1>1, RequestKeeps
<1>2. ASSUME NEW p \in Procs, Work(p) PROVE Keeps(q)
  <2>1. CASE ReplayConfirm(p)
    <3>1. Finish(p) /\ UNCHANGED rows
      BY <2>1 DEF ReplayConfirm
    <3>2. Later /\ \A i \in Inquiries : Untouched(i)
      BY <3>1 DEF Later, Untouched
    <3> QED BY <3>1, <3>2, EndKeeps
  <2>2. CASE CommitConfig(p)
    BY <2>2, ConfigKeeps
  <2> QED BY <1>2, <2>1, <2>2, MiddleKeeps, CommitKeeps DEF Work
<1>3. ASSUME NEW p \in Procs, Rollback(p) PROVE Keeps(q)
  <2>1. Finish(p) /\ UNCHANGED rows
    BY <1>3 DEF Rollback
  <2>2. Later /\ \A i \in Inquiries : Untouched(i)
    BY <2>1 DEF Later, Untouched
  <2> QED BY <2>1, <2>2, EndKeeps
<1>4. CASE UNCHANGED vars
  <2>1. Later /\ Untouched(req[q].inquiry)
    BY <1>4 DEF vars, Later, Untouched
  <2>2. req[q].op \in NewItinerary => \A x \in Procs \ {q} : req[x].itinerary # req[q].itinerary
    BY DEF WebsiteInv, RequestSound
  <2> QED BY <1>4, <2>1, <2>2, OthersKeep DEF vars
<1> QED BY <1>1, <1>2, <1>3, <1>4, StatementKeeps DEF Next

-----------------------------------------------------------------------------
(* The invariant *)

\* Every step keeps each itinerary with its inquiry, quoted just when its quotation is frozen.
LEMMA ItineraryStep ==
  ASSUME WebsiteInv, [Next]_vars, NEW k \in Itineraries
  PROVE  ItinerarySound(k)'
<1> USE DEF rows, locks
<1>0. WebsiteTypes /\ ItinerarySound(k)
  BY DEF WebsiteInv
<1>1. ASSUME itineraries'[k] = itineraries[k],
             quotations'[k].frozen = quotations[k].frozen,
             \A i \in Inquiries : inquiries[i].status # "none" => inquiries'[i].status # "none"
      PROVE  ItinerarySound(k)'
  BY <1>0, <1>1 DEF ItinerarySound
<1>2. ASSUME NEW p \in Procs, CommitInquiry(p) PROVE ItinerarySound(k)'
  BY <1>1, <1>2, CommitInquiryWrites
<1>3. ASSUME NEW p \in Procs, CommitCreateItinerary(p) \/ CommitCopy(p) PROVE ItinerarySound(k)'
  <2>1. \A i \in Inquiries : inquiries[i].status # "none" => inquiries'[i].status # "none"
    BY <1>3, InsertWrites
  <2>2. CASE req[p].itinerary = k
    <3>1. /\ itineraries'[k].inquiry = req[p].inquiry /\ req[p].inquiry \in Inquiries
          /\ itineraries'[k].status = "draft" /\ itineraries[k].status = "none"
          /\ inquiries[req[p].inquiry].status # "none" /\ quotations' = quotations
      BY <1>3, <2>2, InsertWrites
    <3> QED BY <1>0, <2>1, <3>1 DEF ItinerarySound
  <2>3. CASE req[p].itinerary # k
    BY <1>1, <1>3, <2>1, <2>3, InsertWrites
  <2> QED BY <2>2, <2>3
<1>4. ASSUME NEW p \in Procs, CommitPlan(p) PROVE ItinerarySound(k)'
  <2>1. CASE req[p].itinerary = k
    BY <1>0, <1>4, <2>1, PlanWrites DEF ItinerarySound
  <2>2. CASE req[p].itinerary # k
    BY <1>1, <1>4, <2>2, PlanWrites
  <2> QED BY <2>1, <2>2
<1>5. ASSUME NEW p \in Procs, CommitConfirm(p) PROVE ItinerarySound(k)'
  <2>1. CASE req[p].itinerary = k
    BY <1>0, <1>5, <2>1, ConfirmWrites DEF ItinerarySound
  <2>2. CASE req[p].itinerary # k
    BY <1>1, <1>5, <2>2, ConfirmWrites
  <2> QED BY <2>1, <2>2
<1>6. ASSUME NEW p \in Procs, CommitCreateTour(p) \/ CommitConfig(p) PROVE ItinerarySound(k)'
  BY <1>1, <1>6, CreateTourWrites, ConfigWrites
<1>7. ASSUME NEW p \in Procs,
             \/ LockInquiry(p) \/ ReplayConfirm(p) \/ ReadConfig(p) \/ ShareConfig(p)
             \/ LockConfig(p) \/ ShareResources(p) \/ Rollback(p)
      PROVE  ItinerarySound(k)'
  BY <1>1, <1>7 DEF LockInquiry, ReplayConfirm, ReadConfig, ShareConfig, LockConfig,
                    ShareResources, Rollback, Goto
<1>8. ASSUME NEW p \in Procs, Request(p) PROVE ItinerarySound(k)'
  BY <1>1, <1>8, RequestBegun DEF Begun, Begin
<1>9. ASSUME NEW i \in Inquiries, CreateInquiry(i) \/ CancelTour(i) PROVE ItinerarySound(k)'
  BY <1>0, <1>1, <1>9 DEF CreateInquiry, CancelTour, WebsiteTypes
<1>10. ASSUME NEW j \in Itineraries, RecordDownload(j) PROVE ItinerarySound(k)'
  BY <1>0, <1>1, <1>10, DownloadWrites DEF RecordDownload
<1>11. CASE (\E x \in Resources : ChangeResource(x)) \/ UNCHANGED vars
  BY <1>1, <1>11 DEF ChangeResource, vars
<1> QED BY <1>2, <1>3, <1>4, <1>5, <1>6, <1>7, <1>8, <1>9, <1>10, <1>11 DEF Next, Work

\* Every step leaves a coherent configuration, locked by a writer or by readers.
LEMMA ConfigStep ==
  ASSUME WebsiteInv, [Next]_vars
  PROVE  Coherent(config.content)' /\ (writer' # NoOne => readers' = {})
<1> USE DEF rows, locks
<1>0. WebsiteTypes /\ Coherent(config.content) /\ (writer # NoOne => readers = {})
  BY DEF WebsiteInv
<1>1. ASSUME config' = config PROVE Coherent(config.content)'
  BY <1>0, <1>1 DEF Coherent, Present
<1>2. ASSUME NEW p \in Procs, Finish(p) PROVE writer' # NoOne => readers' = {}
  <2>1. (writer' # NoOne => writer # NoOne) /\ readers' \subseteq readers
    BY <1>0, <1>2, FinishKeeps
  <2> QED BY <1>0, <2>1
<1>3. ASSUME NEW p \in Procs,
             \/ CommitInquiry(p) \/ CommitCreateItinerary(p) \/ CommitCopy(p) \/ CommitPlan(p)
             \/ CommitConfirm(p) \/ CommitCreateTour(p) \/ ReplayConfirm(p) \/ Rollback(p)
      PROVE  Finish(p) /\ config' = config
  BY <1>3 DEF CommitInquiry, CommitCreateItinerary, CommitCopy, CommitPlan, InsertItinerary,
              CommitConfirm, CommitCreateTour, ReplayConfirm, Rollback
<1>4. ASSUME NEW p \in Procs, CommitConfig(p) PROVE Finish(p) /\ Coherent(config.content)'
  BY <1>4, ConfigWrites DEF Coherent, Present
<1>5. ASSUME NEW p \in Procs, LockInquiry(p) \/ ReadConfig(p) \/ ShareConfig(p) \/ LockConfig(p)
                               \/ ShareResources(p)
      PROVE  config' = config /\ (writer' # NoOne => readers' = {})
  BY <1>0, <1>5 DEF LockInquiry, ReadConfig, ShareConfig, LockConfig, ShareResources, Goto
<1>6. ASSUME NEW p \in Procs, Request(p) PROVE UNCHANGED <<config, writer, readers>>
  BY <1>6, RequestBegun DEF Begun, Begin
<1>7. ASSUME \/ \E i \in Inquiries : CreateInquiry(i) \/ CancelTour(i)
             \/ \E k \in Itineraries : RecordDownload(k)
             \/ \E x \in Resources : ChangeResource(x)
             \/ UNCHANGED vars
      PROVE  UNCHANGED <<config, writer, readers>>
  BY <1>7 DEF CreateInquiry, CancelTour, RecordDownload, ChangeResource, vars
<1> QED BY <1>0, <1>1, <1>2, <1>3, <1>4, <1>5, <1>6, <1>7 DEF Next, Work

\* The invariant holds at the start.
LEMMA InvInit == Init => WebsiteInv
<1> SUFFICES ASSUME Init PROVE WebsiteInv
  OBVIOUS
<1>1. Coherent(config.content)
  BY RecordsAssumption DEF Init, Coherent, Present
<1>2. ASSUME NEW k \in Itineraries PROVE ItinerarySound(k)
  <2>1. quotations[k].frozen <=> itineraries[k].status = "quoted"
    BY <1>2 DEF Init, NoQuotation
  <2>2. CASE itineraries[k] = NoItinerary
    BY <2>1, <2>2 DEF ItinerarySound, NoItinerary
  <2>3. CASE itineraries[k] # NoItinerary
    <3>0. PICK i \in Inquiries, u \in Plans, s \in {"draft", "quoted"} :
            itineraries[k] = [inquiry |-> i, status |-> s,
                              version |-> IF s = "draft" THEN 1 ELSE 2,
                              uses |-> u, config |-> 1]
      BY <2>3, InitItineraries
    <3>1. itineraries[k].inquiry = i /\ itineraries[k].status = s
      BY <3>0
    <3>2. inquiries[i].status # "none"
      BY <3>1 DEF Init
    <3> QED BY <2>1, <3>1, <3>2 DEF ItinerarySound
  <2> QED BY <2>2, <2>3
<1>3. /\ writer = NoOne
      /\ \A p \in Procs : pc[p] = "idle" /\ req[p] = Blank
  BY DEF Init
<1>4. \A p \in Procs : RequestSound(p, req[p]) /\ EditSound(req[p])
  BY <1>3 DEF RequestSound, EditSound, Blank, ConfigOps, OnInquiry, NewItinerary, OnItinerary
<1> QED BY InitTypes, <1>1, <1>2, <1>3, <1>4
     DEF WebsiteInv, InquiryHeld, ConfigHeld, ResourcesHeld

\* Every step keeps it.
LEMMA InvStep == WebsiteInv /\ [Next]_vars => WebsiteInv'
BY TypesStep, ItineraryStep, ConfigStep, KeepsStep DEF WebsiteInv, Keeps

\* Every reachable state is sound: transactions hold the locks of what they checked, and
\* what they checked still holds when they write (WebsiteService's transactions).
THEOREM WebsiteSafe == Spec => []WebsiteInv
BY InvInit, InvStep, PTL DEF Spec

-----------------------------------------------------------------------------
(* Quotations and configurations *)

\* A step that is no commit of a confirmation freezes nothing.
LEMMA OnlyConfirmFreezes ==
  ASSUME WebsiteInv, [Next]_vars, NEW k \in Itineraries,
         ~quotations[k].frozen, quotations'[k].frozen
  PROVE  \E p \in Procs : CommitConfirm(p) /\ req[p].itinerary = k
<1> USE DEF rows, locks
<1>0. WebsiteTypes
  BY DEF WebsiteInv
<1>1. ASSUME NEW p \in Procs, Request(p) PROVE FALSE
  BY <1>1, RequestBegun DEF Begun, Begin
<1>2. ASSUME NEW p \in Procs, Work(p) PROVE CommitConfirm(p) /\ req[p].itinerary = k
  <2>1. CommitConfirm(p)
    BY <1>2 DEF Work, LockInquiry, ReplayConfirm, ReadConfig, ShareConfig, LockConfig,
                ShareResources, Goto, CommitInquiry, CommitCreateItinerary, CommitCopy,
                InsertItinerary, CommitPlan, CommitCreateTour, CommitConfig
  <2> QED BY <2>1, ConfirmWrites
<1>3. ASSUME NEW p \in Procs, Rollback(p) PROVE FALSE
  BY <1>3 DEF Rollback
<1>4. ASSUME NEW j \in Itineraries, RecordDownload(j) PROVE FALSE
  BY <1>0, <1>4, DownloadWrites
<1>5. ASSUME \/ \E i \in Inquiries : CreateInquiry(i) \/ CancelTour(i)
             \/ \E x \in Resources : ChangeResource(x)
             \/ UNCHANGED vars
      PROVE  FALSE
  BY <1>5 DEF CreateInquiry, CancelTour, ChangeResource, vars
<1> QED BY <1>1, <1>2, <1>3, <1>4, <1>5 DEF Next

\* Only the commit of an edit writes the configuration.
LEMMA OnlyEditsConfigure ==
  ASSUME WebsiteInv, [Next]_vars, config' # config
  PROVE  \E p \in Procs : CommitConfig(p)
<1> USE DEF rows, locks
<1>1. ASSUME NEW p \in Procs, Request(p) PROVE FALSE
  BY <1>1, RequestBegun DEF Begun, Begin
<1>2. ASSUME NEW p \in Procs, Work(p) \/ Rollback(p) PROVE CommitConfig(p)
  BY <1>2 DEF Work, LockInquiry, ReplayConfirm, ReadConfig, ShareConfig, LockConfig,
              ShareResources, Goto, CommitInquiry, CommitCreateItinerary, CommitCopy,
              InsertItinerary, CommitPlan, CommitConfirm, CommitCreateTour, Rollback
<1>3. ASSUME \/ \E i \in Inquiries : CreateInquiry(i) \/ CancelTour(i)
             \/ \E k \in Itineraries : RecordDownload(k)
             \/ \E x \in Resources : ChangeResource(x)
             \/ UNCHANGED vars
      PROVE  FALSE
  BY <1>3 DEF CreateInquiry, CancelTour, RecordDownload, ChangeResource, vars
<1> QED BY <1>1, <1>2, <1>3 DEF Next

\* What a quotation is frozen with is current, enabled and there.
LEMMA FreezeStep ==
  ASSUME WebsiteInv, [Next]_vars, NEW k \in Itineraries,
         ~quotations[k].frozen, quotations'[k].frozen
  PROVE  /\ quotations'[k].config = config.version
         /\ \A c \in quotations'[k].uses : config.content[c] = "enabled"
         /\ \A x \in ResourcesOf(quotations'[k].uses) : resources[x] # "deleted"
<1>1. PICK p \in Procs : CommitConfirm(p) /\ req[p].itinerary = k
  BY OnlyConfirmFreezes
<1>2. pc[p] = "save" /\ req[p].op = "confirm"
  BY <1>1 DEF CommitConfirm
<1>3. quotations'[k].uses = UsesOf(k) /\ quotations'[k].config = itineraries[k].config
  BY <1>1, ConfirmWrites
<1>4. ConfigHeld(p) /\ ResourcesHeld(p)
  BY DEF WebsiteInv
<1>5. itineraries[k].config = config.version
  BY <1>1, <1>2, <1>4 DEF ConfigHeld
<1>6. /\ \A c \in UsesOf(k) : config.content[c] = "enabled"
      /\ \A x \in ResourcesOf(UsesOf(k)) : resources[x] # "deleted"
  BY <1>1, <1>2, <1>4 DEF ResourcesHeld, ConfigReady, Used
<1> QED BY <1>3, <1>5, <1>6

\* What a configuration is replaced by is what its editor wanted of the current one.
LEMMA EditStep ==
  ASSUME WebsiteInv, [Next]_vars, config' # config
  PROVE  /\ \E p \in Procs : req[p].config = config.version /\ config'.content = req[p].wanted
         /\ \A x \in ResourcesOf(Present(config'.content)) : resources[x] # "deleted"
<1>1. PICK p \in Procs : CommitConfig(p)
  BY OnlyEditsConfigure
<1>2. /\ req[p].config = config.version /\ config'.content = req[p].wanted
      /\ \A x \in ResourcesOf(Present(req[p].wanted)) : resources[x] # "deleted"
  BY <1>1, ConfigWrites
<1> QED BY <1>2

\* A quotation is frozen under the configuration that is current at that moment, with
\* only its enabled records and no deleted resource; and a configuration becomes what its
\* editor wanted of the version on the screen (confirm, saveConfig, mutateConfigRecord).
THEOREM ConfigIsRespected == Spec => ConfigRespected
<1>1. WebsiteInv /\ [Next]_vars =>
        [\A k \in Itineraries : ~quotations[k].frozen /\ quotations'[k].frozen =>
           /\ quotations'[k].config = config.version
           /\ \A c \in quotations'[k].uses : config.content[c] = "enabled"
           /\ \A x \in ResourcesOf(quotations'[k].uses) : resources[x] # "deleted"]_vars
  BY FreezeStep
<1>2. WebsiteInv /\ [Next]_vars =>
        [config' # config =>
           /\ \E p \in Procs : /\ req[p].config = config.version
                               /\ config'.content = req[p].wanted
           /\ \A x \in ResourcesOf(Present(config'.content)) : resources[x] # "deleted"]_vars
  BY EditStep
<1> QED BY <1>1, <1>2, WebsiteSafe, PTL DEF Spec, ConfigRespected, FrozenUnderCurrent,
           ConfigAsIntended

-----------------------------------------------------------------------------
(* The refinement of FrozenOffers *)

\* What FrozenOffers sees of an inquiry besides its sale: its offers and whether it is closed.
OfferAt(i, k) ==
  IF quotations[k].frozen /\ itineraries[k].inquiry = i
  THEN <<quotations[k].uses, quotations[k].config>> ELSE NoOne

IsClosed(i) == inquiries[i].status \in Closed \cup {"deleted"}

OffersStay == \A i \in Inquiries, k \in Itineraries : OfferAt(i, k)' = OfferAt(i, k)
ClosedStay == \A i \in Inquiries : IsClosed(i)' <=> IsClosed(i)

\* A step that changes none of it is a stutter of FrozenOffers.
LEMMA OffersStutter ==
  ASSUME OffersStay, ClosedStay, sold' = sold
  PROVE  UNCHANGED Offers!vars
BY DEF OffersStay, ClosedStay, OfferAt, IsClosed, Offers!vars

\* A step that gives one offer of an open inquiry a content is a Freeze.
LEMMA OffersFreeze ==
  ASSUME NEW i \in Inquiries, NEW k \in Itineraries,
         ~IsClosed(i), sold[i] = NoOne, OfferAt(i, k) = NoOne,
         OfferAt(i, k)' \in (SUBSET Records) \X Nat,
         \A j \in Inquiries, m \in Itineraries :
           j # i \/ m # k => OfferAt(j, m)' = OfferAt(j, m),
         sold' = sold, ClosedStay
  PROVE  Offers!Next
<1>1. Offers!Open(i)
  BY DEF IsClosed, Offers!Open
<1>2. Offers!Freeze(i, k)
  <2> DEFINE Frozen == [j \in Inquiries |-> [m \in Itineraries |-> OfferAt(j, m)]]
             Shut == {j \in Inquiries : IsClosed(j)}
  <2>1. Frozen[i][k] = NoOne /\ Frozen'[i][k] \in (SUBSET Records) \X Nat
    OBVIOUS
  <2>2. Frozen' = [Frozen EXCEPT ![i] = [Frozen[i] EXCEPT ![k] = Frozen'[i][k]]]
    OBVIOUS
  <2>3. Shut' = Shut
    BY DEF ClosedStay
  <2> QED BY <1>1, <2>1, <2>2, <2>3, Zenon DEF OfferAt, IsClosed, Offers!Freeze
<1> QED BY <1>2 DEF Offers!Next

\* A step that makes a frozen offer of an open inquiry its sale is a Sell.
LEMMA OffersSell ==
  ASSUME NEW i \in Inquiries, NEW k \in Itineraries,
         ~IsClosed(i), sold[i] = NoOne, OfferAt(i, k) # NoOne,
         sold' = [sold EXCEPT ![i] = k], OffersStay, ClosedStay
  PROVE  Offers!Next
<1>1. Offers!Open(i)
  BY DEF IsClosed, Offers!Open
<1>2. Offers!Sell(i, k)
  BY <1>1 DEF OfferAt, IsClosed, OffersStay, ClosedStay, Offers!Sell
<1> QED BY <1>2 DEF Offers!Next

\* A step that undoes a sale is a Release.
LEMMA OffersRelease ==
  ASSUME NEW i \in Inquiries, sold[i] # NoOne, sold' = [sold EXCEPT ![i] = NoOne],
         OffersStay, ClosedStay
  PROVE  Offers!Next
<1>1. Offers!Release(i)
  BY DEF OfferAt, IsClosed, OffersStay, ClosedStay, Offers!Release
<1> QED BY <1>1 DEF Offers!Next

\* A step that closes an open inquiry is a Close.
LEMMA OffersClose ==
  ASSUME NEW i \in Inquiries, ~IsClosed(i), sold[i] = NoOne, IsClosed(i)',
         \A j \in Inquiries : j # i => (IsClosed(j)' <=> IsClosed(j)),
         OffersStay, sold' = sold
  PROVE  Offers!Next
<1>1. Offers!Open(i)
  BY DEF IsClosed, Offers!Open
<1>2. Offers!Close(i)
  BY <1>1 DEF OfferAt, IsClosed, OffersStay, Offers!Close
<1> QED BY <1>2 DEF Offers!Next

\* The inquiries start as FrozenOffers does; some offers may be frozen by then.
LEMMA OffersInit == Init => Offers!Init
<1> SUFFICES ASSUME Init PROVE Offers!Init
  OBVIOUS
<1>1. \A k \in Itineraries : quotations[k].uses \in SUBSET Records /\ quotations[k].config \in Nat
  BY InitTypes DEF WebsiteTypes, QuotationRow
<1>2. \A i \in Inquiries : ~IsClosed(i)
  BY DEF Init, IsClosed, Closed, NoInquiry
<1>3. \A i \in Inquiries, k \in Itineraries :
        OfferAt(i, k) \in ((SUBSET Records) \X Nat) \cup {NoOne}
  BY <1>1 DEF OfferAt
<1> QED BY <1>2, <1>3 DEF Init, OfferAt, IsClosed, Offers!Init

\* A commit of an inquiry closes it, or leaves it open or closed as it was.
LEMMA CommitInquiryOffers ==
  ASSUME WebsiteInv, NEW p \in Procs, CommitInquiry(p)
  PROVE  Offers!Next \/ UNCHANGED Offers!vars
<1> PICK i \in Inquiries : i = req[p].inquiry
  BY CommitInquiryWrites
<1>1. /\ \A j \in Inquiries \ {i} : inquiries'[j] = inquiries[j]
      /\ inquiries[i].status \in Closed => inquiries'[i].status \in Closed \cup {"deleted"}
      /\ UNCHANGED <<itineraries, quotations, sold, config>>
  BY CommitInquiryWrites
<1>2. sold[i] = NoOne /\ inquiries[i].status # "deleted"
  BY SaveHas DEF CommitInquiry, OnInquiry, Allowed, Live
<1>3. OffersStay
  BY <1>1 DEF OffersStay, OfferAt
<1>4. CASE IsClosed(i)' <=> IsClosed(i)
  <2>1. ClosedStay
    BY <1>1, <1>4 DEF ClosedStay, IsClosed
  <2> QED BY <1>1, <1>3, <2>1, OffersStutter
<1>5. CASE ~(IsClosed(i)' <=> IsClosed(i))
  <2>1. ~IsClosed(i) /\ IsClosed(i)'
    BY <1>1, <1>2, <1>5 DEF IsClosed
  <2>2. \A j \in Inquiries : j # i => (IsClosed(j)' <=> IsClosed(j))
    BY <1>1 DEF IsClosed
  <2> QED BY <1>1, <1>2, <1>3, <2>1, <2>2, OffersClose
<1> QED BY <1>4, <1>5

\* A new itinerary, and a new plan of a draft, are no offers yet.
LEMMA PlanOffers ==
  ASSUME WebsiteInv, NEW p \in Procs,
         CommitCreateItinerary(p) \/ CommitCopy(p) \/ CommitPlan(p)
  PROVE  UNCHANGED Offers!vars
<1> DEFINE k == req[p].itinerary  i == req[p].inquiry
<1>1. /\ k \in Itineraries /\ UNCHANGED <<quotations, sold>>
      /\ \A j \in Itineraries \ {k} : itineraries'[j] = itineraries[j]
      /\ itineraries[k].status \in {"none", "draft"}
  BY InsertWrites, PlanWrites
<1>2. /\ i \in Inquiries
      /\ \A j \in Inquiries \ {i} : inquiries'[j] = inquiries[j]
      /\ inquiries'[i].status = inquiries[i].status
           \/ /\ inquiries'[i].status = "planning"
              /\ inquiries[i].status \notin Closed \cup {"deleted"}
  BY InsertWrites, PlanWrites
<1>3. ~quotations[k].frozen
  BY <1>1 DEF WebsiteInv, ItinerarySound
<1> HIDE DEF k, i
<1>4. OffersStay
  BY <1>1, <1>3 DEF OffersStay, OfferAt
<1>5. ClosedStay
  BY <1>2 DEF ClosedStay, IsClosed, Closed
<1> QED BY <1>1, <1>4, <1>5, OffersStutter

\* A confirmation freezes one offer of an open inquiry.
LEMMA ConfirmOffers ==
  ASSUME WebsiteInv, NEW p \in Procs, CommitConfirm(p)
  PROVE  Offers!Next
<1> PICK i \in Inquiries : i = req[p].inquiry
  BY ConfirmWrites
<1> PICK k \in Itineraries : k = req[p].itinerary
  BY ConfirmWrites
<1>1. /\ itineraries[k].inquiry = i /\ itineraries'[k].inquiry = i
      /\ \A j \in Itineraries \ {k} : itineraries'[j] = itineraries[j]
      /\ \A j \in Itineraries \ {k} : quotations'[j] = quotations[j]
      /\ ~quotations[k].frozen /\ quotations'[k].frozen
      /\ quotations' \in [Itineraries -> QuotationRow]
      /\ \A j \in Inquiries \ {i} : inquiries'[j] = inquiries[j]
      /\ inquiries'[i].status = "quoted"
      /\ inquiries[i].status \notin {"none", "deleted"} \cup Closed
      /\ sold[i] = NoOne /\ sold' = sold
  BY ConfirmWrites
<1>2. quotations'[k].uses \in SUBSET Records /\ quotations'[k].config \in Nat
  BY <1>1 DEF QuotationRow
<1>3. OfferAt(i, k) = NoOne /\ OfferAt(i, k)' \in (SUBSET Records) \X Nat
  BY <1>1, <1>2 DEF OfferAt
<1>4. \A j \in Inquiries, m \in Itineraries :
        j # i \/ m # k => OfferAt(j, m)' = OfferAt(j, m)
  BY <1>1 DEF OfferAt
<1>5. ~IsClosed(i) /\ ClosedStay
  BY <1>1 DEF IsClosed, ClosedStay, Closed
<1> QED BY <1>1, <1>3, <1>4, <1>5, OffersFreeze

\* A tour is sold from a frozen offer of an open inquiry.
LEMMA CreateTourOffers ==
  ASSUME WebsiteInv, NEW p \in Procs, CommitCreateTour(p)
  PROVE  Offers!Next
<1> PICK i \in Inquiries : i = req[p].inquiry
  BY CreateTourWrites
<1> PICK k \in Itineraries : k = req[p].itinerary
  BY CreateTourWrites
<1>1. /\ itineraries[k].inquiry = i /\ quotations[k].frozen /\ sold[i] = NoOne
      /\ inquiries[i].status \notin {"none", "deleted"} \cup Closed
      /\ sold' = [sold EXCEPT ![i] = k]
      /\ UNCHANGED <<inquiries, itineraries, quotations, config>>
  BY CreateTourWrites
<1>2. quotations[k].uses \in SUBSET Records /\ quotations[k].config \in Nat
  BY DEF WebsiteInv, WebsiteTypes, QuotationRow
<1>3. OfferAt(i, k) # NoOne
  <2>1. <<quotations[k].uses, quotations[k].config>> \in (SUBSET Records) \X Nat
    BY <1>2
  <2> QED BY <1>1, <2>1, NoOneAssumption DEF OfferAt
<1>4. ~IsClosed(i) /\ OffersStay /\ ClosedStay
  BY <1>1 DEF IsClosed, OffersStay, OfferAt, ClosedStay
<1> QED BY <1>1, <1>3, <1>4, OffersSell

\* Every step is a step of FrozenOffers or a stutter.
LEMMA OffersNext == WebsiteInv /\ [Next]_vars => [Offers!Next]_Offers!vars
<1> SUFFICES ASSUME WebsiteInv, [Next]_vars
             PROVE  Offers!Next \/ UNCHANGED Offers!vars
  OBVIOUS
<1>0. WebsiteTypes
  BY DEF WebsiteInv
<1>1. ASSUME UNCHANGED <<inquiries, itineraries, quotations, sold>> PROVE UNCHANGED Offers!vars
  <2>1. OffersStay /\ ClosedStay
    BY <1>1 DEF OffersStay, ClosedStay, OfferAt, IsClosed
  <2> QED BY <1>1, <2>1, OffersStutter
<1>2. ASSUME NEW p \in Procs, Request(p) PROVE UNCHANGED Offers!vars
  BY <1>1, <1>2, RequestBegun DEF Begun, Begin, rows
<1>3. ASSUME NEW p \in Procs,
             \/ LockInquiry(p) \/ ReplayConfirm(p) \/ ReadConfig(p) \/ ShareConfig(p)
             \/ LockConfig(p) \/ ShareResources(p) \/ CommitConfig(p) \/ Rollback(p)
      PROVE  UNCHANGED Offers!vars
  BY <1>1, <1>3 DEF LockInquiry, ReplayConfirm, ReadConfig, ShareConfig, LockConfig,
                    ShareResources, Rollback, CommitConfig, Goto, rows
<1>4. ASSUME NEW i \in Inquiries, CreateInquiry(i) PROVE UNCHANGED Offers!vars
  <2>1. OffersStay /\ ClosedStay /\ sold' = sold
    BY <1>0, <1>4 DEF CreateInquiry, OffersStay, ClosedStay, OfferAt, IsClosed, Closed,
                      WebsiteTypes
  <2> QED BY <2>1, OffersStutter
<1>5. ASSUME NEW i \in Inquiries, CancelTour(i) PROVE Offers!Next
  <2>1. OffersStay /\ ClosedStay
    BY <1>5 DEF CancelTour, OffersStay, ClosedStay, OfferAt, IsClosed
  <2> QED BY <1>5, <2>1, OffersRelease DEF CancelTour
<1>6. ASSUME NEW k \in Itineraries, RecordDownload(k) PROVE UNCHANGED Offers!vars
  <2>1. OffersStay /\ ClosedStay /\ sold' = sold
    BY <1>0, <1>6, DownloadWrites
    DEF RecordDownload, OffersStay, ClosedStay, OfferAt, IsClosed
  <2> QED BY <2>1, OffersStutter
<1>7. ASSUME (\E x \in Resources : ChangeResource(x)) \/ UNCHANGED vars
      PROVE  UNCHANGED Offers!vars
  BY <1>1, <1>7 DEF ChangeResource, vars, rows
<1> QED BY <1>2, <1>3, <1>4, <1>5, <1>6, <1>7, CommitInquiryOffers, PlanOffers, ConfirmOffers,
           CreateTourOffers DEF Next, Work

\* The website services implement FrozenOffers: what a quotation says is never written
\* again, and nothing is frozen for, and no second tour sold to, a sold or closed inquiry.
THEOREM WebsiteKeepsOffers == Spec => KeepsOffers
BY OffersInit, OffersNext, WebsiteSafe, PTL DEF Spec, KeepsOffers, Offers!Spec

=============================================================================
