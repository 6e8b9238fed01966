---------------------------- MODULE LynxVisits ----------------------------
(***************************************************************************)
(* The registry of visits to the website (who clicked a WhatsApp link, and *)
(* where that visitor came from) and the conversion of a visit into a      *)
(* website inquiry.  The public site registers a reference together with   *)
(* its evidence and may send it again; staff read the registry through a   *)
(* connection of its own that may be down, mark visits as confirmed, take  *)
(* the draft of an inquiry from one and create the inquiry.                *)
(* A client is one such conversion: the read of the registry and the       *)
(* transaction are separate, and the transaction's statements are steps.   *)
(***************************************************************************)
EXTENDS Naturals

CONSTANTS References,   \* the WhatsApp references, one visit each
          Bodies,       \* the bodies the public site may send
          VisitClients, \* conversions that may be under way
          MaxInquiries  \* bound: inquiries created from visits

ASSUME BodiesAssumption == \A b \in Bodies : b = [landing |-> b.landing, source |-> b.source]

VARIABLES registry,     \* reference -> its row, or NoRow
          expired,      \* the references registered more than 180 days ago
          told,         \* <<reference, body>> answered "recorded"
          marked,       \* the visits marked as confirmed
          links,        \* visit -> the inquiry created from it, 0 for none
          inquiryCount, \* inquiries committed so far
          clients       \* client -> its step and its visit

visitVars == <<registry, expired, told, marked, links, inquiryCount, clients>>

Null == "null"
NoRow == [landing |-> Null, source |-> Null]
IdleClient == [step |-> "idle", visit |-> Null]

(* An address in a text, and a landing page that is no http URL, are       *)
(* refused; what is left out is stored as the empty text.                  *)
Refused(b) == b.landing \in {"mail", "nourl"} \/ b.source = "mail"
Normalize(b) == [f \in DOMAIN b |-> IF b[f] = Null THEN "" ELSE b[f]]
Fingerprint(row) == [f \in DOMAIN row |-> IF row[f] = Null THEN "" ELSE row[f]]

(* What the resolver answers for a reference: its row until it expires.    *)
Resolve(r) == IF r \in expired THEN NoRow ELSE registry[r]

(* The row of the list: whether the visit is confirmed, and converted.     *)
Listing(v) == [confirmed |-> v \in marked, converted |-> links[v] # 0]

VisitInit ==
    /\ registry = [r \in References |-> NoRow]
    /\ expired = {}
    /\ told = {}
    /\ marked = {}
    /\ links = [r \in References |-> 0]
    /\ inquiryCount = 0
    /\ clients = [c \in VisitClients |-> IdleClient]

(* The insert, and on a conflict of the reference the comparison with the  *)
(* row that is there, expired or not: another evidence is an error.        *)
Register(r, b) ==
    /\ ~Refused(b)
    /\ IF registry[r] = NoRow
         THEN registry' = [registry EXCEPT ![r] = Normalize(b)]
         ELSE Fingerprint(registry[r]) = Fingerprint(Normalize(b)) /\ UNCHANGED registry
    /\ told' = told \union {<<r, b>>}
    /\ UNCHANGED <<expired, marked, links, inquiryCount, clients>>

Expire(r) ==
    /\ registry[r] # NoRow
    /\ expired' = expired \union {r}
    /\ UNCHANGED <<registry, told, marked, links, inquiryCount, clients>>

(* INSERT ... ON CONFLICT DO NOTHING, of a visit the registry shows.       *)
Confirm(v) ==
    /\ registry[v] # NoRow
    /\ marked' = marked \union {v}
    /\ UNCHANGED <<registry, expired, told, links, inquiryCount, clients>>

Goto(c, step) == clients' = [clients EXCEPT ![c].step = step]
Leave(c) == clients' = [clients EXCEPT ![c] = IdleClient]

(* The client sees a visit in the list that is not converted.              *)
ListVisits(c, v) ==
    /\ clients[c].step = "idle"
    /\ registry[v] # NoRow
    /\ ~Listing(v).converted
    /\ clients' = [clients EXCEPT ![c] = [step |-> "listed", visit |-> v]]
    /\ UNCHANGED <<registry, expired, told, marked, links, inquiryCount>>

(* The draft is refused for a visit converted meanwhile.                   *)
Draft(c) ==
    /\ clients[c].step = "listed"
    /\ IF links[clients[c].visit] = 0 THEN Goto(c, "drafted") ELSE Leave(c)
    /\ UNCHANGED <<registry, expired, told, marked, links, inquiryCount>>

(* create reads the row through the registry's own connection, before its  *)
(* transaction begins; when that connection is down the call is refused.   *)
ReadVisit(c, up) ==
    /\ clients[c].step = "drafted"
    /\ inquiryCount < MaxInquiries
    /\ IF up THEN Goto(c, "lock") ELSE Leave(c)
    /\ UNCHANGED <<registry, expired, told, marked, links, inquiryCount>>

InsideLock == {"check", "create", "link"}

(* Mutant: no lock.                                                        *)
LockVisit_NoWait(c) ==
    /\ clients[c].step = "lock"
    /\ Goto(c, "check")
    /\ UNCHANGED <<registry, expired, told, marked, links, inquiryCount>>

(* pg_advisory_xact_lock on the visit, held to the end of the transaction. *)
LockVisit(c) ==
    /\ clients[c].step = "lock"
    /\ \A d \in VisitClients \ {c} :
         clients[d].visit = clients[c].visit => clients[d].step \notin InsideLock
    /\ Goto(c, "check")
    /\ UNCHANGED <<registry, expired, told, marked, links, inquiryCount>>

CheckLink(c) ==
    /\ clients[c].step = "check"
    /\ IF links[clients[c].visit] = 0 THEN Goto(c, "create") ELSE Leave(c)
    /\ UNCHANGED <<registry, expired, told, marked, links, inquiryCount>>

(* WebsiteService.create inside the transaction; refused, it rolls back.   *)
CreateInquiry(c, accepted) ==
    /\ clients[c].step = "create"
    /\ IF accepted THEN Goto(c, "link") ELSE Leave(c)
    /\ UNCHANGED <<registry, expired, told, marked, links, inquiryCount>>

(* The link and the commit.  A second link of the visit breaks the primary *)
(* key: the inquiry is rolled back and the caller gets a server error.     *)
LinkInquiry(c) ==
    /\ clients[c].step = "link"
    /\ LET v == clients[c].visit IN
       IF links[v] # 0
         THEN Goto(c, "collided") /\ UNCHANGED <<links, inquiryCount>>
         ELSE /\ links' = [links EXCEPT ![v] = inquiryCount + 1]
              /\ inquiryCount' = inquiryCount + 1
              /\ Leave(c)
    /\ UNCHANGED <<registry, expired, told, marked>>

(* The process ends, or the connection breaks: the transaction is undone.  *)
Break(c) ==
    /\ clients[c].step \in InsideLock
    /\ Leave(c)
    /\ UNCHANGED <<registry, expired, told, marked, links, inquiryCount>>

VisitNext ==
    \/ \E r \in References, b \in Bodies : Register(r, b)
    \/ \E r \in References : Expire(r) \/ Confirm(r)
    \/ \E c \in VisitClients, v \in References : ListVisits(c, v)
    \/ \E c \in VisitClients : Draft(c) \/ LockVisit(c) \/ CheckLink(c) \/ LinkInquiry(c) \/ Break(c)
    \/ \E c \in VisitClients, answer \in BOOLEAN : ReadVisit(c, answer) \/ CreateInquiry(c, answer)

-----------------------------------------------------------------------------
(* A conversion that has seen its visit free never meets the unique key.   *)
ConvertedOnce == \A c \in VisitClients : clients[c].step # "collided"

(* Every caller told that its visit is recorded finds its own evidence     *)
(* under the reference until the reference expires, whoever registered the *)
(* reference first, however often and in whatever form it was sent again.  *)
EvidenceKept == \A t \in told : t[1] \notin expired => Resolve(t[1]) = Fingerprint(t[2])

(* The visits as the site, the registry and the conversions leave them.    *)
VisitsSound == ConvertedOnce /\ EvidenceKept

-----------------------------------------------------------------------------
(* What every reachable state satisfies: a row is the evidence of everyone *)
(* who was told that it is recorded, and the transactions that have locked *)
(* a visit and seen it free are alone with it.                             *)
Texts == {b.landing : b \in Bodies} \union {b.source : b \in Bodies} \union {Null, ""}
Evidence == [landing : Texts, source : Texts]
ClientSteps == {"idle", "listed", "drafted", "lock", "collided"} \union InsideLock

VisitTypes ==
    /\ registry \in [References -> Evidence]
    /\ told \subseteq References \X Bodies
    /\ links \in [References -> Nat]
    /\ inquiryCount \in Nat
    /\ clients \in [VisitClients -> [step : ClientSteps, visit : References \union {Null}]]

Recorded(r) == registry[r] = NoRow \/ Null \notin {registry[r].landing, registry[r].source}

ToldRecorded == \A t \in told : registry[t[1]] = Normalize(t[2])

LocksVisit(c) == clients[c].step \in InsideLock

ConversionSound(c) ==
    /\ clients[c].step # "idle" => clients[c].visit \in References
    /\ clients[c].step \in {"create", "link"} => links[clients[c].visit] = 0
    /\ \A d \in VisitClients \ {c} :
         LocksVisit(c) /\ LocksVisit(d) => clients[c].visit # clients[d].visit

VisitInv ==
    /\ VisitTypes
    /\ \A r \in References : Recorded(r)
    /\ ToldRecorded
    /\ \A c \in VisitClients : ConversionSound(c)
    /\ ConvertedOnce

=============================================================================
