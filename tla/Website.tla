------------------------------- MODULE Website -------------------------------
(****************************************************************************)
(* Website inquiries, their itineraries and quotations, the configuration   *)
(* and the shared resources that quotations are frozen under: the           *)
(* transactions of WebsiteService, the deletion and the disabling of a      *)
(* resource, and the part of ToursService.insertTour that sells a quotation.*)
(*                                                                          *)
(* A configuration is the set of its records, cities and attractions, each  *)
(* enabled or disabled.  An itinerary is the set of the records it uses and *)
(* the version of the configuration it was planned with.  Old versions of a *)
(* configuration are never written again and nothing modelled here reads    *)
(* their records, so only the current one is kept.  One business unit;      *)
(* owners, codes, logs, prices and wording are left out.                    *)
(*                                                                          *)
(* X_Change, just before a definition X, is a mutant of X: what X would be  *)
(* after a plausible slip in the code.  No specification uses it.           *)
(****************************************************************************)
EXTENDS Naturals, FiniteSets

CONSTANTS
  Procs,        \* transactions that may be open at the same time
  Inquiries, Itineraries,     \* row ids
  Records,      \* ids of configuration records
  Resources,    \* shared resources: cities, attractions, hotels
  CityOf,       \* the city record that a record belongs to, or NoOne
  ResourceOf,   \* the shared resource that a record refers to, or NoOne
  Plans,        \* sets of records that an itinerary may use
  Drafts,       \* configurations that an editor may submit as a whole
  MaxRequests,  \* bound: requests served in a behaviour
  NoOne

ASSUME NoOneAssumption ==
  /\ NoOne \notin Procs \cup Inquiries \cup Itineraries \cup Records \cup Resources
  /\ NoOne \notin (SUBSET Records) \X Nat
ASSUME ItinerariesAssumption == IsFiniteSet(Itineraries)
ASSUME RecordsAssumption ==
  /\ CityOf \in [Records -> Records \cup {NoOne}]
  /\ ResourceOf \in [Records -> Resources \cup {NoOne}]
  /\ Plans \subseteq SUBSET Records
  /\ Drafts \subseteq [Records -> {"absent", "disabled", "enabled"}]
  /\ \A d \in Drafts, c \in Records :
       d[c] # "absent" /\ CityOf[c] # NoOne => d[CityOf[c]] # "absent"
ASSUME MaxRequestsAssumption == MaxRequests \in Nat

VARIABLES
  inquiries, itineraries,
  quotations,     \* website_quotations, at most one of each itinerary
  sold,           \* the itinerary of each inquiry's active tour
  config,         \* the current configuration
  resources,      \* the status of each shared resource
  requests,       \* counts the requests
  pc, req,        \* what each transaction does next, and the request it serves
  lock,           \* owner of each inquiry's FOR UPDATE lock
  writer, readers,   \* FOR UPDATE and FOR SHARE locks of the current configuration
  sharers         \* FOR SHARE locks of each resource

rows == <<inquiries, itineraries, quotations, sold, config>>
locks == <<lock, writer, readers, sharers>>
vars == <<inquiries, itineraries, quotations, sold, config, resources, requests,
          pc, req, lock, writer, readers, sharers>>

-----------------------------------------------------------------------------
Present(content) == {c \in Records : content[c] # "absent"}

\* validateWebsiteConfig: what a record refers to is in the same configuration.
Coherent(content) ==
  \A c \in Present(content) : CityOf[c] # NoOne => CityOf[c] \in Present(content)

Contents == {d \in [Records -> {"absent", "disabled", "enabled"}] : Coherent(d)}

ResourcesOf(used) == {ResourceOf[c] : c \in used} \ {NoOne}

NoInquiry == [status |-> "none", version |-> 0]
NoItinerary == [inquiry |-> NoOne, status |-> "none", version |-> 0, uses |-> {}, config |-> 0]
NoQuotation == [frozen |-> FALSE, at |-> 0, uses |-> {}, config |-> 0, downloaded |-> FALSE]

\* wanted: the configuration as its editor's screen shows it with the edit made.
Blank == [op |-> "none", inquiry |-> NoOne, itinerary |-> NoOne, source |-> NoOne,
          version |-> 0, inquiryVersion |-> 0, config |-> 0, uses |-> {}, status |-> "kept",
          record |-> NoOne, wanted |-> NoOne]

ConfigOps == {"editRecord", "saveConfig"}
Live(i) == inquiries[i].status \notin {"none", "deleted"}
Closed == {"lost", "archived"}

\* mutable, next to assertNoActiveTour.
Mutable(i) == inquiries[i].status \notin Closed

\* loadWebsiteDetails
UsesOf(k) == itineraries[k].uses

QuotationsOf(i) == {k \in Itineraries : quotations[k].frozen /\ itineraries[k].inquiry = i}

\* ORDER BY confirmed_at DESC LIMIT 1.
Latest(i, k) ==
  k \in QuotationsOf(i) /\ \A j \in QuotationsOf(i) : quotations[j].at <= quotations[k].at

-----------------------------------------------------------------------------
\* An inquiry may be planned, and its itinerary quoted and downloaded, already when the
\* behaviour starts.
Init ==
  /\ itineraries \in {[j \in Itineraries |-> NoItinerary]} \cup
       {[[j \in Itineraries |-> NoItinerary] EXCEPT ![k] =
           [inquiry |-> i, status |-> s, version |-> IF s = "draft" THEN 1 ELSE 2,
            uses |-> u, config |-> 1]] :
        i \in Inquiries, k \in Itineraries, u \in Plans, s \in {"draft", "quoted"}}
  /\ quotations = [k \in Itineraries |->
       IF itineraries[k].status = "quoted"
       THEN [frozen |-> TRUE, at |-> 1, uses |-> itineraries[k].uses, config |-> 1,
             downloaded |-> TRUE]
       ELSE NoQuotation]
  /\ inquiries = [i \in Inquiries |->
       IF QuotationsOf(i) # {} THEN [status |-> "quoted", version |-> 3]
       ELSE IF \E k \in Itineraries : itineraries[k].inquiry = i
       THEN [status |-> "planning", version |-> 2] ELSE NoInquiry]
  /\ config \in {[version |-> 1, content |-> d] : d \in Drafts}
  /\ sold = [i \in Inquiries |-> NoOne]
  /\ resources = [x \in Resources |-> "enabled"]
  /\ requests = 0
  /\ pc = [p \in Procs |-> "idle"]
  /\ req = [p \in Procs |-> Blank]
  /\ lock = [i \in Inquiries |-> NoOne]
  /\ writer = NoOne
  /\ readers = {}
  /\ sharers = [x \in Resources |-> {}]

-----------------------------------------------------------------------------
(* Requests: each names the versions its client has on the screen. *)

Begin(p, request) ==
  /\ pc[p] = "idle" /\ requests < MaxRequests
  /\ requests' = requests + 1
  /\ pc' = [pc EXCEPT ![p] = "lock"]
  /\ req' = [req EXCEPT ![p] = request]
  /\ UNCHANGED <<rows, resources, locks>>

\* create locks nothing that another request could change here.
CreateInquiry(i) ==
  /\ inquiries[i].status = "none"
  /\ inquiries' = [inquiries EXCEPT ![i] = [status |-> "new", version |-> 1]]
  /\ UNCHANGED <<itineraries, quotations, sold, config, resources, requests, pc, req, locks>>

BeginOnInquiry(p) ==
  \E i \in Inquiries, op \in {"update", "lose", "archive", "delete", "transfer"} :
    /\ Live(i)
    /\ Begin(p, [Blank EXCEPT !.op = op, !.inquiry = i,
                              !.inquiryVersion = inquiries[i].version])

\* preparePlan, not asked to validate: the version exists, and the rest of the content is
\* well-formed.  Versions are never removed, so it may be asked here.
Prepared(version) == version <= config.version

Unused(k) == itineraries[k].status = "none" /\ \A q \in Procs : req[q].itinerary # k

\* Any version of the configuration may be planned with.
BeginCreateItinerary(p) ==
  \E i \in Inquiries, k \in Itineraries, u \in Plans, c \in 1..(MaxRequests + 1) :
    /\ Live(i) /\ Unused(k) /\ Prepared(c)
    /\ Begin(p, [Blank EXCEPT !.op = "createItinerary", !.inquiry = i, !.itinerary = k,
                   !.inquiryVersion = inquiries[i].version, !.uses = u, !.config = c])

BeginCopy(p) ==
  \E j, k \in Itineraries :
    /\ itineraries[j].status # "none" /\ Unused(k)
    /\ Begin(p, [Blank EXCEPT !.op = "copy", !.inquiry = itineraries[j].inquiry,
                   !.itinerary = k, !.source = j, !.version = itineraries[j].version])

BeginSaveItinerary(p) ==
  \E k \in Itineraries, u \in Plans, c \in 1..(MaxRequests + 1) :
    /\ itineraries[k].status # "none" /\ Prepared(c)
    /\ Begin(p, [Blank EXCEPT !.op = "save", !.inquiry = itineraries[k].inquiry,
                   !.itinerary = k, !.version = itineraries[k].version,
                   !.uses = u, !.config = c])

BeginOnItinerary(p) ==
  \E k \in Itineraries, op \in {"generate", "confirm"} :
    /\ itineraries[k].status # "none"
    /\ Begin(p, [Blank EXCEPT !.op = op, !.inquiry = itineraries[k].inquiry,
                   !.itinerary = k, !.version = itineraries[k].version,
                   !.inquiryVersion = inquiries[itineraries[k].inquiry].version])

BeginCreateTour(p) ==
  \E k \in Itineraries :
    /\ quotations[k].frozen
    /\ Begin(p, [Blank EXCEPT !.op = "createTour", !.inquiry = itineraries[k].inquiry,
                   !.itinerary = k])

\* create, update and delete of one record: the record takes status s.
BeginEditRecord(p) ==
  \E c \in Records, s \in {"absent", "disabled", "enabled"} :
    /\ s # config.content[c]
    /\ Begin(p, [Blank EXCEPT !.op = "editRecord", !.record = c, !.status = s,
                   !.config = config.version, !.wanted = [config.content EXCEPT ![c] = s]])

BeginSaveConfig(p) ==
  \E d \in Drafts :
    Begin(p, [Blank EXCEPT !.op = "saveConfig", !.config = config.version, !.wanted = d])

-----------------------------------------------------------------------------
(* The transaction *)

Finish(p) ==
  /\ pc' = [pc EXCEPT ![p] = "idle"]
  /\ req' = [req EXCEPT ![p] = Blank]
  /\ lock' = [i \in Inquiries |-> IF lock[i] = p THEN NoOne ELSE lock[i]]
  /\ writer' = IF writer = p THEN NoOne ELSE writer
  /\ readers' = readers \ {p}
  /\ sharers' = [x \in Resources |-> sharers[x] \ {p}]
  /\ UNCHANGED <<resources, requests>>

\* A BusinessException, a refused content, a lost connection.
Rollback(p) == pc[p] # "idle" /\ Finish(p) /\ UNCHANGED rows

Goto(p, next) == pc' = [pc EXCEPT ![p] = next] /\ UNCHANGED <<rows, resources, requests>>

InquirySeen(r) == r.inquiryVersion = inquiries[r.inquiry].version
ItinerarySeen(r, k) == r.version = itineraries[k].version
Draft(k) == itineraries[k].status = "draft"

\* confirm: an itinerary quoted before answers with its quotation, whatever the
\* versions the client names.
Replays(r) == r.op = "confirm" /\ quotations[r.itinerary].frozen

\* What each operation checks under the inquiry's lock; archiving an archived inquiry
\* writes nothing.
Allowed(r) ==
  LET i == r.inquiry
  IN /\ r.op # "delete" => Mutable(i)
     /\ sold[i] = NoOne
     /\ r.op \in {"update", "lose", "archive", "delete", "transfer", "createItinerary", "confirm"}
          => InquirySeen(r)
     /\ r.op \in {"save", "generate", "confirm"}
          => ItinerarySeen(r, r.itinerary) /\ Draft(r.itinerary)
     /\ r.op = "copy" => ItinerarySeen(r, r.source)
     /\ r.op = "createTour" =>
          Latest(i, r.itinerary) /\ quotations[r.itinerary].downloaded

\* The checks read only rows that the lock protects.
LockInquiry_NoLock(p) ==
  LET r == req[p]
  IN /\ pc[p] = "lock" /\ r.op \notin ConfigOps
     /\ Live(r.inquiry) /\ ~Replays(r) /\ Allowed(r)
     /\ Goto(p, IF r.op \in {"generate", "confirm"} THEN "config" ELSE "save")
     /\ UNCHANGED <<req, locks>>

LockInquiry(p) ==
  LET r == req[p]
  IN /\ pc[p] = "lock" /\ r.op \notin ConfigOps
     /\ lock[r.inquiry] = NoOne
     /\ Live(r.inquiry) /\ ~Replays(r) /\ Allowed(r)
     /\ lock' = [lock EXCEPT ![r.inquiry] = p]
     /\ Goto(p, IF r.op \in {"generate", "confirm"} THEN "config" ELSE "save")
     /\ UNCHANGED <<req, writer, readers, sharers>>

ReplayConfirm(p) ==
  /\ pc[p] = "lock" /\ Replays(req[p])
  /\ lock[req[p].inquiry] = NoOne
  /\ Live(req[p].inquiry)
  /\ Finish(p) /\ UNCHANGED rows

\* generateWebsiteDraft refuses what is not enabled.
Generated(u) == \A c \in u : config.content[c] = "enabled"

\* generate reads the current configuration and plans with its enabled records.
ReadConfig(p) ==
  /\ pc[p] = "config" /\ req[p].op = "generate"
  /\ config.version = itineraries[req[p].itinerary].config
  /\ \E u \in Plans :
       /\ Generated(u)
       /\ req' = [req EXCEPT ![p] = [req[p] EXCEPT !.uses = u, !.config = config.version]]
  /\ Goto(p, "save")
  /\ UNCHANGED locks

\* confirm: FOR SHARE, then the itinerary must be planned with the current version.
ShareConfig_NoLock(p) ==
  /\ pc[p] = "config" /\ req[p].op = "confirm"
  /\ writer = NoOne
  /\ config.version = itineraries[req[p].itinerary].config
  /\ Goto(p, "resources")
  /\ UNCHANGED <<req, locks>>

ShareConfig(p) ==
  /\ pc[p] = "config" /\ req[p].op = "confirm"
  /\ writer = NoOne
  /\ readers' = readers \cup {p}
  /\ config.version = itineraries[req[p].itinerary].config
  /\ Goto(p, "resources")
  /\ UNCHANGED <<req, lock, writer, sharers>>

\* saveConfig and mutateConfigRecord: FOR UPDATE, then the version must be current.
LockConfig_NoLock(p) ==
  /\ pc[p] = "lock" /\ req[p].op \in ConfigOps
  /\ config.version = req[p].config
  /\ Goto(p, "resources")
  /\ UNCHANGED <<req, locks>>

LockConfig(p) ==
  /\ pc[p] = "lock" /\ req[p].op \in ConfigOps
  /\ writer = NoOne /\ readers = {}
  /\ writer' = p
  /\ config.version = req[p].config
  /\ Goto(p, "resources")
  /\ UNCHANGED <<req, lock, readers, sharers>>

\* The configuration that an edit makes of the one it read under the lock.
Edited(r) ==
  IF r.op = "saveConfig" THEN r.wanted ELSE [config.content EXCEPT ![r.record] = r.status]

Used(r) == IF r.op = "confirm" THEN UsesOf(r.itinerary) ELSE Present(Edited(r))

\* resourceIssues: a deleted resource is refused; a disabled one too, unless the
\* record that refers to it was there before.
ResourcesGood(r) ==
  \A c \in Used(r) : ResourceOf[c] # NoOne =>
    /\ resources[ResourceOf[c]] # "deleted"
    /\ r.op \in ConfigOps /\ config.content[c] = "absent" =>
         resources[ResourceOf[c]] = "enabled"

\* previewData: what the itinerary uses is enabled.
ConfigReady(r) == r.op = "confirm" => \A c \in Used(r) : config.content[c] = "enabled"

\* resourceIssues reads FOR SHARE in a transaction.
ShareResources_NoLock(p) ==
  LET r == req[p]
  IN /\ pc[p] = "resources"
     /\ ResourcesGood(r) /\ ConfigReady(r) /\ (r.op \in ConfigOps => Coherent(Edited(r)))
     /\ Goto(p, "save")
     /\ UNCHANGED <<req, locks>>

ShareResources(p) ==
  LET r == req[p]
  IN /\ pc[p] = "resources"
     /\ ResourcesGood(r) /\ ConfigReady(r) /\ (r.op \in ConfigOps => Coherent(Edited(r)))
     /\ sharers' = [x \in Resources |->
          IF x \in ResourcesOf(Used(r)) THEN sharers[x] \cup {p} ELSE sharers[x]]
     /\ Goto(p, "save")
     /\ UNCHANGED <<req, lock, writer, readers>>

InquirySaved(i, status) == [status |-> status, version |-> inquiries[i].version + 1]

CommitInquiry(p) ==
  LET r == req[p]  i == r.inquiry
  IN /\ pc[p] = "save"
     /\ r.op \in {"update", "lose", "archive", "delete", "transfer"}
     /\ inquiries' = [inquiries EXCEPT ![i] = InquirySaved(i,
          CASE r.op = "lose"    -> "lost"
            [] r.op = "archive" -> "archived"
            [] r.op = "delete"  -> "deleted"
            [] OTHER            -> inquiries[i].status)]
     /\ Finish(p)
     /\ UNCHANGED <<itineraries, quotations, sold, config>>

\* Only a new inquiry becomes planning.
Planned(i) == IF inquiries[i].status = "new" THEN "planning" ELSE inquiries[i].status

\* insertItinerary
InsertItinerary(p, uses, planned) ==
  LET r == req[p]  i == r.inquiry
  IN /\ itineraries' = [itineraries EXCEPT ![r.itinerary] =
          [inquiry |-> i, status |-> "draft", version |-> 1, uses |-> uses, config |-> planned]]
     /\ inquiries' = [inquiries EXCEPT ![i] = InquirySaved(i, Planned(i))]
     /\ Finish(p)
     /\ UNCHANGED <<quotations, sold, config>>

CommitCreateItinerary(p) ==
  /\ pc[p] = "save" /\ req[p].op = "createItinerary"
  /\ InsertItinerary(p, req[p].uses, req[p].config)

\* A copy is the source as it is, with the configuration that it was planned with.
CommitCopy(p) ==
  LET source == req[p].source
  IN /\ pc[p] = "save" /\ req[p].op = "copy"
     /\ InsertItinerary(p, UsesOf(source), itineraries[source].config)

\* saveWebsiteDetails: what is there is replaced.
Saved(k, uses, planned) ==
  [itineraries[k] EXCEPT !.uses = uses, !.config = planned, !.version = itineraries[k].version + 1]

\* savePlan: the inquiry keeps its version.
CommitPlan(p) ==
  LET r == req[p]
  IN /\ pc[p] = "save"
     /\ r.op \in {"save", "generate"}
     /\ itineraries' = [itineraries EXCEPT ![r.itinerary] = Saved(r.itinerary, r.uses, r.config)]
     /\ Finish(p)
     /\ UNCHANGED <<inquiries, quotations, sold, config>>

CommitConfirm(p) ==
  LET k == req[p].itinerary  i == req[p].inquiry
  IN /\ pc[p] = "save"
     /\ req[p].op = "confirm"
     /\ quotations' = [quotations EXCEPT ![k] =
          [frozen |-> TRUE, at |-> Cardinality({j \in Itineraries : quotations[j].frozen}) + 1,
           uses |-> UsesOf(k), config |-> itineraries[k].config, downloaded |-> FALSE]]
     /\ itineraries' = [itineraries EXCEPT ![k] =
          [itineraries[k] EXCEPT !.status = "quoted",
                                 !.version = itineraries[k].version + 1]]
     /\ inquiries' = [inquiries EXCEPT ![i] = InquirySaved(i, "quoted")]
     /\ Finish(p)
     /\ UNCHANGED <<sold, config>>

CommitCreateTour(p) ==
  /\ pc[p] = "save"
  /\ req[p].op = "createTour"
  /\ sold' = [sold EXCEPT ![req[p].inquiry] = req[p].itinerary]
  /\ Finish(p)
  /\ UNCHANGED <<inquiries, itineraries, quotations, config>>

\* writeConfig
CommitConfig(p) ==
  /\ pc[p] = "save"
  /\ req[p].op \in ConfigOps
  /\ config' = [version |-> config.version + 1, content |-> Edited(req[p])]
  /\ Finish(p)
  /\ UNCHANGED <<inquiries, itineraries, quotations, sold>>

-----------------------------------------------------------------------------
(* Requests that are one statement, or lock one row and nothing else *)

RecordDownload(k) ==
  /\ quotations[k].frozen
  /\ quotations' = [quotations EXCEPT ![k] = [quotations[k] EXCEPT !.downloaded = TRUE]]
  /\ UNCHANGED <<inquiries, itineraries, sold, config, resources, requests, pc, req, locks>>

\* ToursService.cancel locks the tour, never the inquiry.
CancelTour(i) ==
  /\ sold[i] # NoOne
  /\ sold' = [sold EXCEPT ![i] = NoOne]
  /\ UNCHANGED <<inquiries, itineraries, quotations, config, resources, requests, pc, req, locks>>

\* update and delete of a resource write its row, which waits for its sharers; who
\* refers to the resource is not asked.
ChangeResource(x) ==
  /\ resources[x] # "deleted"
  /\ sharers[x] = {}
  /\ \E s \in {"enabled", "disabled", "deleted"} \ {resources[x]} :
       resources' = [resources EXCEPT ![x] = s]
  /\ UNCHANGED <<rows, requests, pc, req, locks>>

-----------------------------------------------------------------------------
Request(p) ==
  \/ BeginOnInquiry(p) \/ BeginCreateItinerary(p) \/ BeginCopy(p) \/ BeginSaveItinerary(p)
  \/ BeginOnItinerary(p) \/ BeginCreateTour(p) \/ BeginEditRecord(p) \/ BeginSaveConfig(p)

Work(p) ==
  \/ LockInquiry(p) \/ ReplayConfirm(p) \/ ReadConfig(p) \/ ShareConfig(p) \/ LockConfig(p)
  \/ ShareResources(p) \/ CommitInquiry(p) \/ CommitCreateItinerary(p) \/ CommitCopy(p) \/ CommitPlan(p)
  \/ CommitConfirm(p) \/ CommitCreateTour(p) \/ CommitConfig(p)

Next ==
  \/ \E p \in Procs : Request(p) \/ Work(p) \/ Rollback(p)
  \/ \E i \in Inquiries : CreateInquiry(i) \/ CancelTour(i)
  \/ \E k \in Itineraries : RecordDownload(k)
  \/ \E x \in Resources : ChangeResource(x)

Spec == Init /\ [][Next]_vars

-----------------------------------------------------------------------------
(* Properties *)

\* A quotation is frozen under the configuration that is current at that moment, uses
\* only its enabled records, and refers to no resource that is deleted by then
\* (confirm: the configuration and the resources stay locked to the commit).
FrozenUnderCurrent ==
  [][\A k \in Itineraries : ~quotations[k].frozen /\ quotations'[k].frozen =>
       /\ quotations'[k].config = config.version
       /\ \A c \in quotations'[k].uses : config.content[c] = "enabled"
       /\ \A x \in ResourcesOf(quotations'[k].uses) : resources[x] # "deleted"]_vars

\* A configuration replaces the version its editor saw with what the editor wanted,
\* whatever other edits were made meanwhile, and refers to no deleted resource then
\* (mutateConfigRecord, saveConfig, writeConfig).
ConfigAsIntended ==
  [][config' # config =>
       /\ \E p \in Procs : /\ req[p].config = config.version
                           /\ config'.content = req[p].wanted
       /\ \A x \in ResourcesOf(Present(config'.content)) : resources[x] # "deleted"]_vars

\* A quotation and a configuration each follow the other's latest version.
ConfigRespected == FrozenUnderCurrent /\ ConfigAsIntended

\* Sales of frozen offers, as FrozenOffers specifies them.
Offers == INSTANCE FrozenOffers WITH
  Offers <- Itineraries, Contents <- (SUBSET Records) \X Nat,
  NoContent <- NoOne, NotSold <- NoOne,
  offers <- [i \in Inquiries |-> [k \in Itineraries |->
               IF quotations[k].frozen /\ itineraries[k].inquiry = i
               THEN <<quotations[k].uses, quotations[k].config>> ELSE NoOne]],
  closed <- {i \in Inquiries : inquiries[i].status \in Closed \cup {"deleted"}}

\* The website services implement FrozenOffers: what a quotation says is never written
\* again, and nothing is frozen for, and no second tour sold to, a sold or closed inquiry.
KeepsOffers == Offers!Spec
-----------------------------------------------------------------------------
(* What every reachable state satisfies. *)

RecordStates == {"absent", "disabled", "enabled"}
NewItinerary == {"createItinerary", "copy"}
OnItinerary == {"save", "generate", "confirm", "createTour"}
OnInquiry == {"update", "lose", "archive", "delete", "transfer"}

InquiryRow == [status : {"none", "new", "planning", "quoted", "deleted"} \cup Closed,
               version : Nat]
ItineraryRow == [inquiry : Inquiries \cup {NoOne}, status : {"none", "draft", "quoted"},
                 version : Nat, uses : SUBSET Records, config : Nat]
QuotationRow == [frozen : BOOLEAN, at : Nat, uses : SUBSET Records, config : Nat,
                 downloaded : BOOLEAN]
RequestRow ==
  [op : {"none"} \cup OnInquiry \cup NewItinerary \cup OnItinerary \cup ConfigOps,
   inquiry : Inquiries \cup {NoOne}, itinerary : Itineraries \cup {NoOne},
   source : Itineraries \cup {NoOne}, version : Nat, inquiryVersion : Nat, config : Nat,
   uses : SUBSET Records, status : RecordStates \cup {"kept"},
   record : Records \cup {NoOne}, wanted : [Records -> RecordStates] \cup {NoOne}]

WebsiteTypes ==
  /\ inquiries \in [Inquiries -> InquiryRow]
  /\ itineraries \in [Itineraries -> ItineraryRow]
  /\ quotations \in [Itineraries -> QuotationRow]
  /\ sold \in [Inquiries -> Itineraries \cup {NoOne}]
  /\ config \in [version : Nat, content : [Records -> RecordStates]]
  /\ resources \in [Resources -> {"enabled", "disabled", "deleted"}]
  /\ requests \in 0..MaxRequests
  /\ pc \in [Procs -> {"idle", "lock", "config", "resources", "save"}]
  /\ req \in [Procs -> RequestRow]
  /\ lock \in [Inquiries -> Procs \cup {NoOne}]
  /\ writer \in Procs \cup {NoOne}
  /\ readers \subseteq Procs
  /\ sharers \in [Resources -> SUBSET Procs]

\* An itinerary is of an inquiry, and quoted when its quotation is frozen.
ItinerarySound(k) ==
  /\ IF itineraries[k].status = "none" THEN itineraries[k] = NoItinerary
     ELSE /\ itineraries[k].inquiry \in Inquiries
          /\ inquiries[itineraries[k].inquiry].status # "none"
  /\ quotations[k].frozen <=> itineraries[k].status = "quoted"

\* What a request names exists, and a new itinerary is its request's alone.
RequestSound(p, r) ==
  /\ r.op \in OnInquiry \cup NewItinerary \cup OnItinerary => r.inquiry \in Inquiries
  /\ r.op \in OnItinerary =>
       /\ r.itinerary \in Itineraries /\ itineraries[r.itinerary].status # "none"
       /\ itineraries[r.itinerary].inquiry = r.inquiry
  /\ r.op = "createTour" => quotations[r.itinerary].frozen
  /\ r.op \in NewItinerary =>
       /\ r.itinerary \in Itineraries /\ itineraries[r.itinerary].status = "none"
       /\ \A q \in Procs \ {p} : req[q].itinerary # r.itinerary
  /\ r.op = "copy" =>
       /\ r.source \in Itineraries /\ itineraries[r.source].status # "none"
       /\ itineraries[r.source].inquiry = r.inquiry
  /\ r.op = "editRecord" => r.record \in Records /\ r.status \in RecordStates
  /\ r.op = "saveConfig" => r.wanted \in [Records -> RecordStates]

\* An edit of the configuration wants what its editor saw with the edit made.
EditSound(r) ==
  r.op \in ConfigOps =>
    /\ r.config <= config.version
    /\ r.config = config.version => Edited(r) = r.wanted

\* Past the first step, the inquiry is locked and everything checked under the lock
\* holds; past the second, the configuration is locked as well.
InquiryHeld(p) ==
  pc[p] \in {"config", "resources", "save"} /\ req[p].op \notin ConfigOps =>
    /\ lock[req[p].inquiry] = p
    /\ Live(req[p].inquiry) /\ Allowed(req[p])

ConfigHeld(p) ==
  pc[p] \in {"resources", "save"} =>
    /\ req[p].op = "confirm" => /\ p \in readers
                                /\ itineraries[req[p].itinerary].config = config.version
    /\ req[p].op \in ConfigOps => writer = p /\ req[p].config = config.version

\* At the write, every resource referred to is locked and there.
ResourcesHeld(p) ==
  pc[p] = "save" =>
    /\ req[p].op \in ConfigOps \cup {"confirm"} =>
         \A x \in ResourcesOf(Used(req[p])) : p \in sharers[x] /\ resources[x] # "deleted"
    /\ ConfigReady(req[p])
    /\ req[p].op \in ConfigOps => Coherent(Edited(req[p]))

WebsiteInv ==
  /\ WebsiteTypes
  /\ Coherent(config.content)
  /\ writer # NoOne => readers = {}
  /\ \A k \in Itineraries : ItinerarySound(k)
  /\ \A p \in Procs :
       /\ IF pc[p] = "idle" THEN req[p] = Blank ELSE req[p].op # "none"
       /\ RequestSound(p, req[p]) /\ EditSound(req[p])
       /\ InquiryHeld(p) /\ ConfigHeld(p) /\ ResourcesHeld(p)

=============================================================================
