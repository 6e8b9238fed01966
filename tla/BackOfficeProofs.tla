--------------------------- MODULE BackOfficeProofs ---------------------------
(***************************************************************************)
(* The parts of the back office keep what they promise, for any sets of    *)
(* rows and any number of transactions.  Each part has an invariant of its *)
(* own; the steps of the other parts leave its variables alone.            *)
(***************************************************************************)
EXTENDS BackOffice, FiniteSetTheorems, SequenceTheorems, TLAPS

-----------------------------------------------------------------------------
(* Visits to the website *)

\* A step of the back office is a step of the visits or leaves them as they are.
LEMMA VisitsAlone == [BackOfficeNext]_backVars => VisitNext \/ UNCHANGED visitVars
BY DEF BackOfficeNext, AgenciesStep, NumbersStep, AlertsStep, ReportsStep, VisitsStep,
       ShengxuStep, DictionariesStep, ResourcesStep, ReleaseStep, backVars

\* What is stored of a body is complete, and is its own fingerprint.
LEMMA NormalizedEvidence ==
  ASSUME NEW b \in Bodies
  PROVE  /\ Normalize(b) \in Evidence
         /\ Null \notin {Normalize(b).landing, Normalize(b).source}
         /\ Fingerprint(Normalize(b)) = Normalize(b)
<1>1. /\ b = [landing |-> b.landing, source |-> b.source]
      /\ b.landing \in Texts /\ b.source \in Texts /\ "" \in Texts
  BY BodiesAssumption DEF Texts
<1> DEFINE n == [landing |-> IF b.landing = Null THEN "" ELSE b.landing,
                 source |-> IF b.source = Null THEN "" ELSE b.source]
<1>2. Normalize(b) = n
  <2>1. Normalize(b) = [f \in {"landing", "source"} |-> IF b[f] = Null THEN "" ELSE b[f]]
    BY <1>1, DOMAIN b = {"landing", "source"} DEF Normalize
  <2> QED BY <2>1
<1>3. "" # Null
  BY DEF Null
<1>4. n \in Evidence
  BY <1>1 DEF Evidence
<1>5. Null \notin {n.landing, n.source}
  BY <1>3
<1>6. Fingerprint(n) = n
  <2>1. n = [f \in {"landing", "source"} |-> n[f]]
    OBVIOUS
  <2>2. DOMAIN n = {"landing", "source"}
    OBVIOUS
  <2>3. n["landing"] # Null /\ n["source"] # Null
    BY <1>3
  <2> HIDE DEF n
  <2> QED BY <2>1, <2>2, <2>3 DEF Fingerprint
<1> QED BY <1>2, <1>4, <1>5, <1>6

\* A complete row is its own fingerprint.
LEMMA CompleteFingerprint ==
  ASSUME NEW row \in Evidence, Null \notin {row.landing, row.source}
  PROVE  Fingerprint(row) = row
BY DEF Evidence, Fingerprint

\* The invariant gives what the visits promise.
LEMMA VisitsKept == VisitInv => VisitsSound
<1> SUFFICES ASSUME VisitInv PROVE EvidenceKept
  BY DEF VisitInv, VisitsSound
<1> SUFFICES ASSUME NEW t \in told, t[1] \notin expired
             PROVE  Resolve(t[1]) = Fingerprint(t[2])
  BY DEF EvidenceKept
<1>1. t[1] \in References /\ t[2] \in Bodies /\ registry[t[1]] = Normalize(t[2])
  BY DEF VisitInv, VisitTypes, ToldRecorded
<1>2. Normalize(t[2]) = Fingerprint(t[2])
  BY DEF Normalize, Fingerprint
<1> QED BY <1>1, <1>2 DEF Resolve

\* The registry starts empty and nobody converts.
LEMMA VisitStart == VisitInit => VisitInv
<1> SUFFICES ASSUME VisitInit PROVE VisitInv
  OBVIOUS
<1>1. VisitTypes
  <2>0. Null \in Texts
    BY DEF Texts
  <2>1. NoRow \in Evidence
    BY <2>0 DEF NoRow, Evidence
  <2>2. IdleClient \in [step : ClientSteps, visit : References \union {Null}]
    BY DEF IdleClient, ClientSteps
  <2> QED BY <2>1, <2>2 DEF VisitInit, VisitTypes
<1>2. ToldRecorded /\ ConvertedOnce
  BY DEF VisitInit, ToldRecorded, ConvertedOnce, IdleClient
<1>3. \A c \in VisitClients : ConversionSound(c)
  BY DEF VisitInit, ConversionSound, IdleClient, LocksVisit, InsideLock
<1> QED BY <1>1, <1>2, <1>3 DEF VisitInit, VisitInv, Recorded

\* A registration records evidence that nobody was told otherwise of.
LEMMA RegisterKeeps ==
  ASSUME VisitInv, NEW r \in References, NEW b \in Bodies, Register(r, b)
  PROVE  VisitInv'
<1>1. VisitTypes /\ Recorded(r) /\ ToldRecorded /\ ConvertedOnce
  BY DEF VisitInv
<1>2. Normalize(b) \in Evidence /\ Null \notin {Normalize(b).landing, Normalize(b).source}
  BY NormalizedEvidence
<1>3. VisitTypes'
  BY <1>1, <1>2 DEF Register, VisitTypes
<1>4. \A x \in References : Recorded(x)'
  BY <1>1, <1>2 DEF Register, VisitTypes, VisitInv, Recorded
<1>5. registry'[r] = Normalize(b)
  <2>1. CASE registry[r] = NoRow
    BY <1>1, <2>1 DEF Register, VisitTypes
  <2>2. CASE registry[r] # NoRow
    <3>1. /\ Fingerprint(registry[r]) = Fingerprint(Normalize(b)) /\ registry' = registry
          /\ registry[r] \in Evidence
      BY <1>1, <2>2 DEF Register, VisitTypes
    <3>2. Fingerprint(registry[r]) = registry[r]
      BY <1>1, <2>2, <3>1, CompleteFingerprint DEF Recorded
    <3> QED BY <3>1, <3>2, NormalizedEvidence
  <2> QED BY <2>1, <2>2
<1>6. \A t \in told : registry'[t[1]] = registry[t[1]]
  <2> SUFFICES ASSUME NEW t \in told PROVE registry'[t[1]] = registry[t[1]]
    OBVIOUS
  <2>1. t[1] \in References /\ t[2] \in Bodies /\ registry[t[1]] = Normalize(t[2])
    BY <1>1 DEF VisitTypes, ToldRecorded
  <2>2. registry[t[1]] # NoRow
    BY <2>1, NormalizedEvidence DEF NoRow
  <2> QED BY <1>1, <2>1, <2>2 DEF Register, VisitTypes
<1>7. ToldRecorded'
  BY <1>1, <1>5, <1>6 DEF Register, ToldRecorded
<1>8. ConvertedOnce' /\ \A c \in VisitClients : ConversionSound(c)'
  BY DEF Register, VisitInv, ConvertedOnce, ConversionSound, LocksVisit
<1> QED BY <1>3, <1>4, <1>7, <1>8 DEF VisitInv

\* A step that leaves the registry alone keeps what it says.
LEMMA RegistryStays ==
  ASSUME VisitInv, UNCHANGED <<registry, told>>, VisitTypes', ConvertedOnce',
         \A c \in VisitClients : ConversionSound(c)'
  PROVE  VisitInv'
<1>1. ToldRecorded' /\ \A r \in References : Recorded(r)'
  BY DEF VisitInv, ToldRecorded, Recorded
<1> QED BY <1>1 DEF VisitInv

\* A step of a conversion keeps the conversions alone with the visits they have locked.
LEMMA ConversionKeeps ==
  ASSUME VisitInv, NEW c \in VisitClients,
         \/ \E v \in References : ListVisits(c, v)
         \/ Draft(c) \/ LockVisit(c) \/ CheckLink(c) \/ LinkInquiry(c) \/ Break(c)
         \/ \E answer \in BOOLEAN : ReadVisit(c, answer) \/ CreateInquiry(c, answer)
  PROVE  VisitInv'
<1> USE DEF Goto, Leave, IdleClient, ClientSteps, InsideLock, LocksVisit
<1>0. /\ VisitTypes /\ \A d \in VisitClients : ConversionSound(d) /\ clients[d].step # "collided"
      /\ clients[c] \in [step : ClientSteps, visit : References \union {Null}]
  BY DEF VisitInv, ConvertedOnce, VisitTypes
<1>1. CASE \E v \in References : ListVisits(c, v)
  <2>1. PICK v \in References : ListVisits(c, v)
    BY <1>1
  <2>2. VisitTypes' /\ UNCHANGED <<registry, told>>
    BY <1>0, <2>1 DEF ListVisits, VisitTypes
  <2>3. ConvertedOnce' /\ \A d \in VisitClients : ConversionSound(d)'
    BY <1>0, <2>1 DEF ListVisits, VisitTypes, ConvertedOnce, ConversionSound
  <2> QED BY <2>2, <2>3, RegistryStays
<1>2. CASE LockVisit(c)
  <2>1. VisitTypes' /\ UNCHANGED <<registry, told, links>>
    BY <1>0, <1>2 DEF LockVisit, VisitTypes
  <2>2. /\ \A d \in VisitClients \ {c} : clients'[d] = clients[d]
        /\ clients'[c].step = "check" /\ clients'[c].visit = clients[c].visit
        /\ clients[c].step = "lock"
        /\ \A d \in VisitClients \ {c} :
             clients[d].visit = clients[c].visit => clients[d].step \notin InsideLock
    BY <1>0, <1>2 DEF LockVisit, VisitTypes
  <2>3. ConvertedOnce' /\ \A d \in VisitClients : ConversionSound(d)'
    BY <1>0, <2>1, <2>2 DEF ConvertedOnce, ConversionSound
  <2> QED BY <2>1, <2>3, RegistryStays
<1>3. CASE LinkInquiry(c)
  <2> PICK v \in References : v = clients[c].visit
    BY <1>0, <1>3 DEF LinkInquiry, ConversionSound
  <2>1. clients[c].step = "link" /\ links[v] = 0
    BY <1>0, <1>3 DEF LinkInquiry, ConversionSound
  <2>2. /\ links' = [links EXCEPT ![v] = inquiryCount + 1]
        /\ inquiryCount' = inquiryCount + 1
        /\ clients' = [clients EXCEPT ![c] = IdleClient]
        /\ UNCHANGED <<registry, told>>
    BY <1>3, <2>1 DEF LinkInquiry
  <2>3. VisitTypes'
    BY <1>0, <2>2 DEF VisitTypes
  <2>4. /\ \A d \in VisitClients \ {c} : clients'[d] = clients[d]
        /\ clients'[c].step = "idle"
        /\ \A d \in VisitClients \ {c} : LocksVisit(d) => clients[d].visit # v
    BY <1>0, <2>1, <2>2 DEF VisitTypes, ConversionSound
  <2>5. \A x \in References : x # v => links'[x] = links[x]
    BY <1>0, <2>2 DEF VisitTypes
  <2>6. \A d \in VisitClients : ConversionSound(d)'
    BY <1>0, <2>4, <2>5 DEF ConversionSound
  <2>7. ConvertedOnce'
    BY <1>0, <2>4 DEF ConvertedOnce
  <2> QED BY <2>2, <2>3, <2>6, <2>7, RegistryStays
<1>4. CASE \/ Draft(c) \/ CheckLink(c) \/ Break(c)
           \/ \E answer \in BOOLEAN : ReadVisit(c, answer) \/ CreateInquiry(c, answer)
  <2>1. UNCHANGED <<registry, told, links, inquiryCount>>
    BY <1>4 DEF Draft, CheckLink, Break, ReadVisit, CreateInquiry
  <2>2. \/ clients' = [clients EXCEPT ![c] = IdleClient]
        \/ /\ clients' = [clients EXCEPT ![c].step = "drafted"]
           /\ clients[c].step = "listed"
        \/ /\ clients' = [clients EXCEPT ![c].step = "lock"]
           /\ clients[c].step = "drafted"
        \/ /\ clients' = [clients EXCEPT ![c].step = "create"]
           /\ clients[c].step = "check" /\ links[clients[c].visit] = 0
        \/ /\ clients' = [clients EXCEPT ![c].step = "link"]
           /\ clients[c].step = "create"
    BY <1>4 DEF Draft, CheckLink, Break, ReadVisit, CreateInquiry
  <2>3. VisitTypes'
    BY <1>0, <2>1, <2>2 DEF VisitTypes
  <2>4. /\ \A d \in VisitClients \ {c} : clients'[d] = clients[d]
        /\ \/ clients'[c].step = "idle"
           \/ /\ clients'[c].visit = clients[c].visit /\ clients[c].step # "idle"
              /\ LocksVisit(c)' => LocksVisit(c)
              /\ clients'[c].step \in {"create", "link"} => links[clients[c].visit] = 0
              /\ clients'[c].step # "collided"
    BY <1>0, <2>2 DEF VisitTypes, ConversionSound
  <2>5. ConvertedOnce' /\ \A d \in VisitClients : ConversionSound(d)'
    BY <1>0, <2>1, <2>4 DEF ConvertedOnce, ConversionSound
  <2> QED BY <2>1, <2>3, <2>5, RegistryStays
<1> QED BY <1>1, <1>2, <1>3, <1>4

\* Every step of the visits keeps the invariant.
LEMMA VisitStep == VisitInv /\ (VisitNext \/ UNCHANGED visitVars) => VisitInv'
<1> SUFFICES ASSUME VisitInv, VisitNext \/ UNCHANGED visitVars PROVE VisitInv'
  OBVIOUS
<1>1. ASSUME NEW r \in References, Expire(r) \/ Confirm(r) PROVE VisitInv'
  BY <1>1, RegistryStays
  DEF Expire, Confirm, VisitInv, VisitTypes, ConvertedOnce, ConversionSound, LocksVisit
<1>2. CASE UNCHANGED visitVars
  BY <1>2, RegistryStays
  DEF visitVars, VisitInv, VisitTypes, ConvertedOnce, ConversionSound, LocksVisit
<1> QED BY <1>1, <1>2, RegisterKeeps, ConversionKeeps DEF VisitNext

\* A conversion that has seen its visit free never meets the unique key, and whoever was
\* told that a visit is recorded finds its own evidence
\* (website-visits.service.ts, whatsapp-registry.service.ts).
THEOREM VisitsStaySound == BackOfficeSpec => []VisitsSound
<1>1. BackOfficeInit => VisitInv
  BY VisitStart DEF BackOfficeInit
<1>2. VisitInv /\ [BackOfficeNext]_backVars => VisitInv'
  BY VisitStep, VisitsAlone
<1> QED BY <1>1, <1>2, VisitsKept, PTL DEF BackOfficeSpec

-----------------------------------------------------------------------------
(* The numbers of tours: picking one *)

\* Two candidates of one base and sequence that differ in k are different numbers.
LEMMA CandidateInjective ==
  ASSUME NEW base, NEW sequence, NEW j, NEW k,
         Candidate(base, sequence, j) = Candidate(base, sequence, k)
  PROVE  j = k
BY DEF Candidate

\* A finite set of numbers leaves one of the candidates 0 .. Cardinality(taken) free:
\* otherwise they would be too many.
LEMMA SomeCandidateFree ==
  ASSUME NEW base, NEW sequence, NEW taken, IsFiniteSet(taken)
  PROVE  \E k \in 0 .. Cardinality(taken) : Candidate(base, sequence, k) \notin taken
<1> DEFINE n == Cardinality(taken)
           f == [k \in 0 .. n |-> Candidate(base, sequence, k)]
<1>1. n \in Nat
  BY FS_CardinalityType
<1>2. SUFFICES ASSUME \A k \in 0 .. n : Candidate(base, sequence, k) \in taken
               PROVE  FALSE
  OBVIOUS
<1>3. f \in [0 .. n -> taken]
  BY <1>2
<1>4. IsFiniteSet(0 .. n) /\ Cardinality(0 .. n) = n + 1
  <2> HIDE DEF n
  <2> QED BY <1>1, FS_Interval
<1>5. PICK j, k \in 0 .. n : j # k /\ f[j] = f[k]
  <2>1. n < n + 1
    BY <1>1
  <2> HIDE DEF f
  <2> QED BY <1>3, <1>4, <2>1, FS_PigeonHole
<1>6. Candidate(base, sequence, j) = Candidate(base, sequence, k)
  BY <1>5
<1> QED BY <1>5, <1>6, CandidateInjective

\* A set of natural numbers that has an element has a least one: the initial segments
\* below its elements are finite sets, which strict inclusion orders well.
LEMMA LeastOf ==
  ASSUME NEW S \in SUBSET Nat, S # {}
  PROVE  \E k \in S : \A j \in S : ~(j < k)
<1> DEFINE T == {0 .. k : k \in S}
<1>1. T \subseteq FiniteSubsetsOf(Nat)
  <2> SUFFICES ASSUME NEW k \in S
               PROVE  0 .. k \in FiniteSubsetsOf(Nat)
    OBVIOUS
  <2>1. IsFiniteSet(0 .. k)
    BY FS_Interval
  <2> QED BY <2>1 DEF FiniteSubsetsOf
<1>2. T # {}
  OBVIOUS
<1>3. PICK s \in T : \A r \in T : <<r, s>> \notin StrictSubsetOrdering(Nat)
  <2> HIDE DEF T
  <2> QED BY <1>1, <1>2, FS_StrictSubsetOrderingWellFounded, WFMin
<1>4. PICK k \in S : s = 0 .. k
  OBVIOUS
<1>5. ASSUME NEW j \in S, j < k
      PROVE  FALSE
  <2>1. 0 .. j \subseteq 0 .. k /\ k \in 0 .. k /\ k \notin 0 .. j
    BY <1>5
  <2>2. <<0 .. j, s>> \in StrictSubsetOrdering(Nat)
    BY <2>1, <1>4 DEF StrictSubsetOrdering
  <2> QED BY <1>3, <2>2
<1> QED BY <1>5

\* The number picked is the base and sequence with some k, and not taken.
LEMMA NumberPickedFree ==
  ASSUME NEW base, NEW sequence, NEW taken, IsFiniteSet(taken)
  PROVE  \E k \in Nat : /\ NumberPicked(base, sequence, taken) = Candidate(base, sequence, k)
                        /\ Candidate(base, sequence, k) \notin taken
<1> DEFINE n == Cardinality(taken)
           P(k) == /\ Candidate(base, sequence, k) \notin taken
                   /\ \A j \in 0 .. k - 1 : Candidate(base, sequence, j) \in taken
<1>1. n \in Nat
  BY FS_CardinalityType
<1>2. \E k \in 0 .. n : P(k)
  <2> DEFINE free == {k \in 0 .. n : Candidate(base, sequence, k) \notin taken}
  <2>1. free # {} /\ free \in SUBSET Nat
    BY <1>1, SomeCandidateFree
  <2>2. PICK k \in free : \A j \in free : ~(j < k)
    <3> HIDE DEF free
    <3> QED BY <2>1, LeastOf
  <2>3. \A j \in 0 .. k - 1 : j \in 0 .. n /\ j < k
    BY <1>1, <2>2
  <2> QED BY <2>2, <2>3
<1>3. PICK k : k = (CHOOSE i \in 0 .. n : P(i))
  OBVIOUS
<1>4. k \in 0 .. n /\ P(k)
  BY <1>2, <1>3
<1>5. NumberPicked(base, sequence, taken) = Candidate(base, sequence, k)
  BY <1>3 DEF NumberPicked
<1> QED BY <1>1, <1>4, <1>5

-----------------------------------------------------------------------------
(* The numbers of tours: the invariant *)

\* No tour has a number and no counter has advanced.
LEMMA NumberStart == NumberInit => NumberInv
<1> SUFFICES ASSUME NumberInit
             PROVE  NumberInv
  OBVIOUS
<1>1. NumberTypes
  BY FS_EmptySet DEF NumberInit, NumberTypes, InsertStage
<1>2. OwnCounter /\ OwnBase /\ PickedStayFree
  BY DEF NumberInit, OwnCounter, OwnBase, PickedStayFree, Holding
<1>3. SequencesCount
  <2> SUFFICES ASSUME NEW c \in Creators, NEW d \in Days
               PROVE  /\ {r.sequence : r \in ToursOf(c, d)} = 1 .. counters[<<c, d>>]
                      /\ Cardinality(ToursOf(c, d)) = counters[<<c, d>>]
    BY DEF SequencesCount
  <2>1. ToursOf(c, d) = {} /\ counters[<<c, d>>] = 0
    BY DEF NumberInit, ToursOf
  <2> QED BY <2>1, FS_EmptySet
<1> QED BY <1>1, <1>2, <1>3 DEF NumberInv, NumbersFree

\* The sequences are a matter of the counters and the tours only.
LEMMA SequencesUnchanged ==
  ASSUME SequencesCount, UNCHANGED <<counters, tours>>
  PROVE  SequencesCount'
<1>1. \A c \in Creators : \A d \in Days : ToursOf(c, d)' = ToursOf(c, d)
  BY DEF ToursOf
<1> QED BY <1>1 DEF SequencesCount

\* Taking the next value of a counter: nobody else has advanced it.
LEMMA TakeSequenceInv ==
  ASSUME NumberInv, NEW t \in Inserts, TakeSequence(t)
  PROVE  NumberInv'
<1>1. PICK c \in Creators, d \in Days, n \in Countries :
        /\ ~CounterBusy(c, d)
        /\ inserts' = [inserts EXCEPT ![t] =
               [at |-> "counted", creator |-> c, day |-> d, base |-> Base(c, d, n),
                sequence |-> counters[<<c, d>>] + 1]]
  BY DEF TakeSequence
<1>2. inserts[t].at = "idle" /\ UNCHANGED <<counters, tours>>
  BY DEF TakeSequence
<1>3. inserts \in [Inserts -> InsertStage] /\ counters \in [Creators \X Days -> Nat]
  BY DEF NumberInv, NumberTypes
<1>4. inserts'[t] = [at |-> "counted", creator |-> c, day |-> d, base |-> Base(c, d, n),
                     sequence |-> counters[<<c, d>>] + 1]
  BY <1>1, <1>3
<1>5. \A u \in Inserts \ {t} : inserts'[u] = inserts[u]
  BY <1>1, <1>3
<1>6. NumberTypes'
  <2>1. Base(c, d, n) \in Bases /\ counters[<<c, d>>] + 1 \in Nat
    BY <1>3 DEF Bases
  <2>2. inserts'[t] \in InsertStage
    BY <1>4, <2>1 DEF InsertStage
  <2> QED BY <1>1, <1>2, <1>3, <2>2 DEF NumberInv, NumberTypes
<1>7. OwnCounter'
  BY <1>1, <1>2, <1>4, <1>5 DEF NumberInv, OwnCounter, CounterBusy, Holding
<1>8. OwnBase'
  BY <1>2, <1>4, <1>5 DEF NumberInv, OwnBase
<1>9. NumbersFree'
  BY <1>2, <1>4, <1>5, SequencesUnchanged DEF NumberInv, NumbersFree, PickedStayFree
<1> QED BY <1>6, <1>7, <1>8, <1>9 DEF NumberInv

\* Locking a base: nobody else holds it.
LEMMA LockBaseInv ==
  ASSUME NumberInv, NEW t \in Inserts, LockBase(t)
  PROVE  NumberInv'
<1>1. /\ inserts[t].at = "counted" /\ ~BaseBusy(inserts[t].base)
      /\ inserts' = [inserts EXCEPT ![t].at = "locked"]
      /\ UNCHANGED <<counters, tours>>
  BY DEF LockBase
<1>2. inserts \in [Inserts -> InsertStage]
  BY DEF NumberInv, NumberTypes
<1>3. \A u \in Inserts \ {t} : inserts'[u] = inserts[u]
  BY <1>1, <1>2
<1>4. inserts[t] \in [at : {"counted", "locked"}, creator : Creators, day : Days,
                      base : Bases, sequence : Nat]
  BY <1>1, <1>2 DEF InsertStage
<1>5. /\ inserts'[t].at = "locked" /\ inserts'[t].creator = inserts[t].creator
      /\ inserts'[t].day = inserts[t].day /\ inserts'[t].base = inserts[t].base
      /\ inserts'[t].sequence = inserts[t].sequence
      /\ inserts'[t] \in InsertStage
  BY <1>1, <1>2, <1>4 DEF InsertStage
<1>6. NumberTypes'
  BY <1>1, <1>2, <1>5 DEF NumberInv, NumberTypes
<1>7. OwnCounter'
  BY <1>1, <1>3, <1>5 DEF NumberInv, OwnCounter, Holding
<1>8. OwnBase'
  BY <1>1, <1>3, <1>5 DEF NumberInv, OwnBase, BaseBusy
<1>9. NumbersFree'
  BY <1>1, <1>3, <1>5, SequencesUnchanged DEF NumberInv, NumbersFree, PickedStayFree
<1> QED BY <1>6, <1>7, <1>8, <1>9 DEF NumberInv

\* Picking a number: it is free among the committed tours, and every other picked one
\* belongs to another base.
LEMMA PickNumberInv ==
  ASSUME NumberInv, NEW t \in Inserts, PickNumber(t)
  PROVE  NumberInv'
<1> DEFINE old == inserts[t]
           taken == {n \in {r.no : r \in tours} : n.base = old.base}
           no == NumberPicked(old.base, old.sequence, taken)
<1>1. /\ old.at = "locked"
      /\ inserts' = [inserts EXCEPT ![t] =
             [at |-> "picked", creator |-> old.creator, day |-> old.day, base |-> old.base,
              sequence |-> old.sequence, no |-> no]]
      /\ UNCHANGED <<counters, tours>>
  BY DEF PickNumber
<1>2. inserts \in [Inserts -> InsertStage] /\ IsFiniteSet(tours)
  BY DEF NumberInv, NumberTypes
<1>3. \A u \in Inserts \ {t} : inserts'[u] = inserts[u]
  BY <1>1, <1>2
<1>4. old \in [at : {"counted", "locked"}, creator : Creators, day : Days,
               base : Bases, sequence : Nat]
  BY <1>1, <1>2 DEF InsertStage
<1>5. IsFiniteSet(taken)
  <2>1. IsFiniteSet({r.no : r \in tours})
    <3> DEFINE f == [r \in tours |-> r.no]
    <3>1. f \in Surjection(tours, {r.no : r \in tours})
      BY DEF Surjection
    <3> HIDE DEF f
    <3> QED BY <1>2, <3>1, FS_Surjection
  <2> QED BY <2>1, FS_Subset
<1>6. PICK k \in Nat : no = Candidate(old.base, old.sequence, k) /\ no \notin taken
  <2> HIDE DEF taken
  <2> QED BY <1>5, NumberPickedFree
<1>7. no \in TourNumber /\ no.base = old.base
  <2> HIDE DEF no, old
  <2> QED BY <1>4, <1>6 DEF Candidate, TourNumber
<1>8. no \notin {r.no : r \in tours}
  BY <1>6, <1>7
<1> HIDE DEF no, taken
<1>9. inserts'[t] = [at |-> "picked", creator |-> old.creator, day |-> old.day,
                     base |-> old.base, sequence |-> old.sequence, no |-> no]
  BY <1>1, <1>2
<1>10. NumberTypes'
  <2>1. inserts'[t] \in InsertStage
    BY <1>4, <1>7, <1>9 DEF InsertStage
  <2> QED BY <1>1, <1>2, <2>1 DEF NumberInv, NumberTypes
<1>11. OwnCounter'
  BY <1>1, <1>3, <1>9 DEF NumberInv, OwnCounter, Holding
<1>12. OwnBase'
  BY <1>1, <1>3, <1>7, <1>9 DEF NumberInv, OwnBase
<1>13. PickedStayFree'
  BY <1>1, <1>3, <1>7, <1>8, <1>9
  DEF NumberInv, NumbersFree, PickedStayFree, OwnBase
<1>14. SequencesCount'
  BY <1>1, SequencesUnchanged DEF NumberInv, NumbersFree
<1> QED BY <1>10, <1>11, <1>12, <1>13, <1>14 DEF NumberInv, NumbersFree

\* Inserting the tour: the creator's tours of the day go on by one.
LEMMA InsertNumberedInv ==
  ASSUME NumberInv, NEW t \in Inserts, InsertNumbered(t)
  PROVE  NumberInv'
<1> DEFINE old == inserts[t]
           key == <<old.creator, old.day>>
           new == [no |-> old.no, creator |-> old.creator, day |-> old.day,
                   sequence |-> old.sequence]
<1>1. /\ old.at = "picked"
      /\ tours' = tours \cup {new}
      /\ counters' = [counters EXCEPT ![key] = old.sequence]
      /\ inserts' = [inserts EXCEPT ![t] = [at |-> "done"]]
  BY DEF InsertNumbered
<1>2. /\ inserts \in [Inserts -> InsertStage] /\ IsFiniteSet(tours)
      /\ counters \in [Creators \X Days -> Nat] /\ tours \in SUBSET Numbered
  BY DEF NumberInv, NumberTypes
<1>3. \A u \in Inserts \ {t} : inserts'[u] = inserts[u]
  BY <1>1, <1>2
<1>4. inserts'[t] = [at |-> "done"]
  BY <1>1, <1>2
<1>5. old \in [at : {"picked"}, creator : Creators, day : Days, base : Bases,
               sequence : Nat, no : TourNumber]
  BY <1>1, <1>2 DEF InsertStage
<1>6. new \in Numbered /\ key \in Creators \X Days
  BY <1>5 DEF Numbered
<1>7. new \notin tours
  BY <1>1 DEF NumberInv, NumbersFree, PickedStayFree
<1>8. old.sequence = counters[key] + 1 /\ counters[key] \in Nat
  BY <1>1, <1>2, <1>6 DEF NumberInv, OwnCounter, Holding
<1>9. counters'[key] = counters[key] + 1
      /\ \A q \in Creators \X Days : q # key => counters'[q] = counters[q]
  BY <1>1, <1>2, <1>6, <1>8
<1>10. NumberTypes'
  <2>1. IsFiniteSet(tours')
    <3> HIDE DEF new
    <3>1. IsFiniteSet(tours \cup {new})
      BY <1>2, FS_AddElement
    <3> QED BY <1>1, <3>1
  <2>2. counters' \in [Creators \X Days -> Nat]
    BY <1>1, <1>2, <1>5
  <2>3. inserts' \in [Inserts -> InsertStage]
    <3>1. [at |-> "done"] \in InsertStage
      BY DEF InsertStage
    <3> QED BY <1>1, <1>2, <3>1
  <2> QED BY <1>1, <1>2, <1>6, <2>1, <2>2, <2>3 DEF NumberTypes
<1>11. OwnCounter'
  <2> SUFFICES ASSUME NEW u \in Inserts, Holding(u)'
               PROVE  /\ inserts'[u].sequence
                         = counters'[<<inserts'[u].creator, inserts'[u].day>>] + 1
                      /\ \A v \in Inserts \ {u} :
                            Holding(v)' => <<inserts'[v].creator, inserts'[v].day>>
                                           # <<inserts'[u].creator, inserts'[u].day>>
    BY DEF OwnCounter
  <2>1. u # t /\ inserts'[u] = inserts[u] /\ Holding(u)
    BY <1>3, <1>4 DEF Holding
  <2>2. <<inserts[u].creator, inserts[u].day>> \in Creators \X Days
    BY <1>2, <2>1 DEF InsertStage, Holding
  <2>3. <<inserts[u].creator, inserts[u].day>> # key
    BY <1>1, <2>1 DEF NumberInv, OwnCounter, Holding
  <2> HIDE DEF key
  <2>4. counters'[<<inserts[u].creator, inserts[u].day>>]
        = counters[<<inserts[u].creator, inserts[u].day>>]
    BY <1>9, <2>2, <2>3
  <2>5. \A v \in Inserts \ {u} : Holding(v)' => v # t /\ inserts'[v] = inserts[v] /\ Holding(v)
    BY <1>3, <1>4 DEF Holding
  <2> QED BY <2>1, <2>4, <2>5 DEF NumberInv, OwnCounter
<1>12. OwnBase'
  BY <1>3, <1>4 DEF NumberInv, OwnBase
<1>13. PickedStayFree'
  BY <1>1, <1>3, <1>4 DEF NumberInv, NumbersFree, PickedStayFree
<1>14. SequencesCount'
  <2> SUFFICES ASSUME NEW c \in Creators, NEW d \in Days
               PROVE  /\ {r.sequence : r \in ToursOf(c, d)'} = 1 .. counters'[<<c, d>>]
                      /\ Cardinality(ToursOf(c, d)') = counters'[<<c, d>>]
    BY DEF SequencesCount
  <2>1. /\ {r.sequence : r \in ToursOf(c, d)} = 1 .. counters[<<c, d>>]
        /\ Cardinality(ToursOf(c, d)) = counters[<<c, d>>]
    BY DEF NumberInv, NumbersFree, SequencesCount
  <2>2. CASE <<c, d>> = key
    <3>1. ToursOf(c, d)' = ToursOf(c, d) \cup {new}
      BY <1>1, <2>2 DEF ToursOf
    <3>2. IsFiniteSet(ToursOf(c, d)) /\ new \notin ToursOf(c, d)
      BY <1>2, <1>7, FS_Subset DEF ToursOf
    <3>3. new.sequence = old.sequence
      OBVIOUS
    <3> HIDE DEF new
    <3>4. Cardinality(ToursOf(c, d) \cup {new}) = Cardinality(ToursOf(c, d)) + 1
      BY <3>2, FS_AddElement
    <3>5. {r.sequence : r \in ToursOf(c, d) \cup {new}}
          = {r.sequence : r \in ToursOf(c, d)} \cup {old.sequence}
      BY <3>3
    <3> HIDE DEF key, old
    <3>6. 1 .. (counters[key] + 1) = 1 .. counters[key] \cup {counters[key] + 1}
      BY <1>8
    <3> QED BY <1>8, <1>9, <2>1, <2>2, <3>1, <3>4, <3>5, <3>6
  <2>3. CASE <<c, d>> # key
    <3>1. ToursOf(c, d)' = ToursOf(c, d)
      BY <1>1, <2>3 DEF ToursOf
    <3> HIDE DEF key
    <3>2. counters'[<<c, d>>] = counters[<<c, d>>]
      BY <1>9, <2>3
    <3> QED BY <2>1, <3>1, <3>2
  <2> QED BY <2>2, <2>3
<1> QED BY <1>10, <1>11, <1>12, <1>13, <1>14 DEF NumberInv, NumbersFree

\* Giving up frees what was held and changes nothing else.
LEMMA AbortInsertInv ==
  ASSUME NumberInv, NEW t \in Inserts, AbortInsert(t)
  PROVE  NumberInv'
<1>1. inserts' = [inserts EXCEPT ![t] = [at |-> "done"]] /\ UNCHANGED <<counters, tours>>
  BY DEF AbortInsert
<1>2. inserts \in [Inserts -> InsertStage]
  BY DEF NumberInv, NumberTypes
<1>3. inserts'[t] = [at |-> "done"] /\ \A u \in Inserts \ {t} : inserts'[u] = inserts[u]
  BY <1>1, <1>2
<1>4. NumberTypes'
  <2>1. [at |-> "done"] \in InsertStage
    BY DEF InsertStage
  <2> QED BY <1>1, <1>2, <2>1 DEF NumberInv, NumberTypes
<1>5. OwnCounter'
  BY <1>1, <1>3 DEF NumberInv, OwnCounter, Holding
<1>6. OwnBase'
  BY <1>3 DEF NumberInv, OwnBase
<1>7. NumbersFree'
  BY <1>1, <1>3, SequencesUnchanged DEF NumberInv, NumbersFree, PickedStayFree
<1> QED BY <1>4, <1>5, <1>6, <1>7 DEF NumberInv

\* Every step of the numbers keeps the invariant.
LEMMA NumberStep == NumberInv /\ (NumberNext \/ UNCHANGED numberVars) => NumberInv'
<1> SUFFICES ASSUME NumberInv, NumberNext \/ UNCHANGED numberVars PROVE NumberInv'
  OBVIOUS
<1>1. CASE NumberNext
  BY <1>1, TakeSequenceInv, LockBaseInv, PickNumberInv, InsertNumberedInv, AbortInsertInv
  DEF NumberNext
<1>2. CASE UNCHANGED numberVars
  BY <1>2, SequencesUnchanged
  DEF numberVars, NumberInv, NumberTypes, OwnCounter, OwnBase, Holding, NumbersFree,
      PickedStayFree
<1> QED BY <1>1, <1>2

\* A step of the back office is a step of the numbers or leaves them as they are.
LEMMA NumbersAlone == [BackOfficeNext]_backVars => NumberNext \/ UNCHANGED numberVars
BY DEF BackOfficeNext, AgenciesStep, NumbersStep, AlertsStep, ReportsStep, VisitsStep,
       ShengxuStep, DictionariesStep, ResourcesStep, ReleaseStep, backVars

\* However many transactions take numbers at once, with codes shared or not, the number a
\* transaction has picked is free until it commits, and a creator's tours of a day are
\* numbered 1, 2, 3... without a gap or a repeat (tours.service.ts, insertTour).
THEOREM NumbersStayFree == BackOfficeSpec => []NumbersFree
<1>1. BackOfficeInit => NumberInv
  BY NumberStart DEF BackOfficeInit
<1>2. NumberInv /\ [BackOfficeNext]_backVars => NumberInv'
  BY NumberStep, NumbersAlone
<1>3. NumberInv => NumbersFree
  BY DEF NumberInv
<1> QED BY <1>1, <1>2, <1>3, PTL DEF BackOfficeSpec

-----------------------------------------------------------------------------
(* Inspection alerts *)

\* A step of the back office is a step of the alerts or leaves them as they are.
LEMMA AlertsAlone == [BackOfficeNext]_backVars => AlertNext \/ UNCHANGED alertVars
BY DEF BackOfficeNext, AgenciesStep, NumbersStep, AlertsStep, ReportsStep, VisitsStep,
       ShengxuStep, DictionariesStep, ResourcesStep, ReleaseStep, backVars

\* What a caller in flight with an alert has.
LEMMA PendingCall ==
  ASSUME AlertTypes, NEW c \in Callers, callers[c].at # "idle", callers[c].kind = "alert"
  PROVE  /\ callers[c].event \in Events /\ callers[c].level \in Levels
         /\ callers[c].at \in {"check"} \cup InFlight
         /\ callers[c] = [at |-> callers[c].at, kind |-> "alert", event |-> callers[c].event,
                          level |-> callers[c].level]
<1>1. callers[c] \in AlertCall
  BY DEF AlertTypes
<1>2. callers[c] \notin [at : {"idle"}]
  OBVIOUS
<1>3. callers[c] \notin [at : InFlight, kind : {"reminder"}]
  OBVIOUS
<1> QED BY <1>1, <1>2, <1>3 DEF AlertCall

\* A call that has begun is an alert or a reminder.
LEMMA BegunCall ==
  ASSUME AlertTypes, NEW c \in Callers, callers[c].at # "idle"
  PROVE  /\ callers[c].at \in {"check"} \cup InFlight
         /\ callers[c].kind \in {"alert", "reminder"}
         /\ callers[c].kind = "reminder" =>
              callers[c].at \in InFlight /\ callers[c] = [at |-> callers[c].at, kind |-> "reminder"]
<1>1. callers[c] \in AlertCall
  BY DEF AlertTypes
<1> QED BY <1>1 DEF AlertCall

\* A caller that goes on to another stage stays the call that it is.
LEMMA CallGoesOn ==
  ASSUME AlertTypes, NEW c \in Callers, callers[c].at # "idle", NEW at \in InFlight
  PROVE  /\ [callers[c] EXCEPT !.at = at] \in AlertCall
         /\ [callers[c] EXCEPT !.at = at].at = at
         /\ [callers[c] EXCEPT !.at = at].kind = callers[c].kind
         /\ callers[c].kind = "alert" =>
              [callers[c] EXCEPT !.at = at].event = callers[c].event
<1>1. CASE callers[c].kind = "alert"
  <2>1. PICK e \in Events, l \in Levels :
          callers[c] = [at |-> callers[c].at, kind |-> "alert", event |-> e, level |-> l]
    BY <1>1, PendingCall
  <2>2. [callers[c] EXCEPT !.at = at] = [at |-> at, kind |-> "alert", event |-> e, level |-> l]
    BY <2>1
  <2>3. [at |-> at, kind |-> "alert", event |-> e, level |-> l] \in AlertCall
    BY DEF AlertCall
  <2> QED BY <2>1, <2>2, <2>3
<1>2. CASE callers[c].kind = "reminder"
  <2>1. callers[c] = [at |-> callers[c].at, kind |-> "reminder"]
    BY <1>2, BegunCall
  <2>2. [callers[c] EXCEPT !.at = at] = [at |-> at, kind |-> "reminder"]
    BY <2>1
  <2>3. [at |-> at, kind |-> "reminder"] \in AlertCall
    BY DEF AlertCall
  <2> QED BY <1>2, <2>2, <2>3
<1> QED BY <1>1, <1>2, BegunCall

\* Nobody calls at the start.
LEMMA AlertStart == AlertInit => AlertInv
<1> SUFFICES ASSUME AlertInit PROVE AlertInv
  OBVIOUS
<1>1. NoCall \in AlertCall /\ NoCall.at \notin InFlight
  BY DEF NoCall, AlertCall, InFlight
<1>2. AlertTypes
  BY <1>1 DEF AlertInit, AlertTypes
<1> QED BY <1>1, <1>2 DEF AlertInit, AlertInv, PendingCallers

\* Nobody becomes pending in a step that only ends calls or lets those in flight go on.
LEMMA NoneStarts ==
  ASSUME AlertInv,
         \A c \in Callers : \/ callers'[c].at \notin InFlight
                            \/ callers'[c].kind # "alert"
                            \/ /\ c \in PendingCallers
                               /\ callers'[c].event = callers[c].event
  PROVE  \A c, d \in PendingCallers' : callers'[c].event = callers'[d].event => c = d
BY DEF AlertInv, PendingCallers

\* What was shown stays shown.
LEMMA SeenStays ==
  ASSUME AlertInv, UNCHANGED sentAlerts, delivered \subseteq delivered',
         \A a \in answers' : a \in answers \/ a.result \notin {"sent", "duplicate"}
  PROVE  /\ \A i \in DOMAIN sentAlerts' : AlertSeen(delivered', sentAlerts'[i])
         /\ \A a \in answers' : a.result \in {"sent", "duplicate"} => AlertSeen(delivered', a)
BY DEF AlertInv, AlertSeen

\* An answer to a caller with an alert is typed.
LEMMA AnswerTyped ==
  ASSUME AlertTypes, NEW c \in Callers, callers[c].at # "idle", callers[c].kind = "alert",
         NEW result \in {"duplicate", "busy", "failed", "sent"}, Answer(c, result)
  PROVE  /\ answers' \subseteq [event : Events, level : Levels,
                                result : {"duplicate", "busy", "failed", "sent"}]
         /\ answers' = answers \cup {[event |-> callers[c].event, level |-> callers[c].level,
                                      result |-> result]}
<1>1. callers[c].event \in Events /\ callers[c].level \in Levels
  BY PendingCall
<1> QED BY <1>1 DEF Answer, AlertTypes

\* The Map has, after an insertion, what it had and the new alert.
LEMMA RememberHas ==
  ASSUME AlertTypes, NEW event \in Events, NEW level \in Levels
  PROVE  /\ Remember(event, level) \in Seq(Alert)
         /\ \A i \in DOMAIN Remember(event, level) :
              \/ Remember(event, level)[i] = [event |-> event, level |-> level]
              \/ \E j \in DOMAIN sentAlerts : Remember(event, level)[i] = sentAlerts[j]
<1> DEFINE new == [event |-> event, level |-> level]
<1>0. new \in Alert /\ sentAlerts \in Seq(Alert) /\ Len(sentAlerts) \in Nat
  BY DEF Alert, AlertTypes
<1>1. CASE Remembered(event) # {}
  <2> DEFINE s == [i \in DOMAIN sentAlerts |->
                     IF i \in Remembered(event) THEN new ELSE sentAlerts[i]]
  <2>1. Remember(event, level) = s
    BY <1>1 DEF Remember
  <2>2. DOMAIN sentAlerts = 1 .. Len(sentAlerts) /\ \A i \in DOMAIN sentAlerts : sentAlerts[i] \in Alert
    BY <1>0
  <2>3. s \in [1 .. Len(sentAlerts) -> Alert]
    BY <1>0, <2>2
  <2>4. s \in Seq(Alert)
    BY <1>0, <2>3
  <2>5. \A i \in DOMAIN s : s[i] = new \/ \E j \in DOMAIN sentAlerts : s[i] = sentAlerts[j]
    OBVIOUS
  <2> HIDE DEF s
  <2> QED BY <2>1, <2>4, <2>5
<1>2. CASE Remembered(event) = {}
  <2> DEFINE kept == IF Len(sentAlerts) >= SentLimit THEN Tail(sentAlerts) ELSE sentAlerts
  <2>1. Remember(event, level) = Append(kept, new)
    BY <1>2 DEF Remember
  <2>2. /\ kept \in Seq(Alert)
        /\ \A i \in DOMAIN kept : \E j \in DOMAIN sentAlerts : kept[i] = sentAlerts[j]
    <3>1. CASE Len(sentAlerts) >= SentLimit
      <4>1. sentAlerts # <<>>
        BY <1>0, <3>1, SentLimitAssumption
      <4>2. /\ Tail(sentAlerts) \in Seq(Alert) /\ Len(Tail(sentAlerts)) = Len(sentAlerts) - 1
            /\ \A i \in 1 .. Len(Tail(sentAlerts)) : Tail(sentAlerts)[i] = sentAlerts[i + 1]
        BY <1>0, <4>1
      <4>3. \A i \in DOMAIN Tail(sentAlerts) :
              i + 1 \in DOMAIN sentAlerts /\ Tail(sentAlerts)[i] = sentAlerts[i + 1]
        BY <1>0, <4>2
      <4> QED BY <3>1, <4>2, <4>3
    <3>2. CASE ~(Len(sentAlerts) >= SentLimit)
      BY <1>0, <3>2
    <3> QED BY <3>1, <3>2
  <2> HIDE DEF kept
  <2>3. /\ Append(kept, new) \in Seq(Alert)
        /\ \A i \in DOMAIN Append(kept, new) :
             Append(kept, new)[i] = new \/ (i \in DOMAIN kept /\ Append(kept, new)[i] = kept[i])
    BY <1>0, <2>2
  <2> QED BY <2>1, <2>2, <2>3
<1> QED BY <1>1, <1>2

\* A step of one call keeps the invariant.
LEMMA CallerKeeps ==
  ASSUME AlertInv, NEW c \in Callers, CallerStep(c)
  PROVE  AlertInv'
<1>0. AlertTypes /\ callers[c] \in AlertCall
  BY DEF AlertInv, AlertTypes
<1>a. NoCall \in AlertCall /\ NoCall.at \notin InFlight /\ NoCall.at = "idle"
  BY DEF NoCall, AlertCall, InFlight
<1>b. ASSUME NEW next, callers' = [callers EXCEPT ![c] = next]
      PROVE  callers'[c] = next /\ \A d \in Callers \ {c} : callers'[d] = callers[d]
  BY <1>0, <1>b DEF AlertTypes
<1>c. ASSUME callers' = [callers EXCEPT ![c] = NoCall]
      PROVE  /\ callers' \in [Callers -> AlertCall]
             /\ \A d, e \in PendingCallers' : callers'[d].event = callers'[e].event => d = e
  <2>1. callers'[c] = NoCall /\ \A d \in Callers \ {c} : callers'[d] = callers[d]
    BY <1>b, <1>c
  <2>2. \A d \in Callers : \/ callers'[d].at \notin InFlight
                           \/ callers'[d].kind # "alert"
                           \/ /\ d \in PendingCallers
                              /\ callers'[d].event = callers[d].event
    BY <1>a, <2>1 DEF PendingCallers
  <2> QED BY <1>0, <1>a, <1>c, <2>2, NoneStarts DEF AlertTypes
<1>d. ASSUME NEW at \in InFlight, callers[c].at \in InFlight, CallerAt(c, at)
      PROVE  /\ callers' \in [Callers -> AlertCall]
             /\ \A d, e \in PendingCallers' : callers'[d].event = callers'[e].event => d = e
  <2> DEFINE next == [callers[c] EXCEPT !.at = at]
  <2>1. callers' = [callers EXCEPT ![c] = next]
    BY <1>0, <1>d DEF CallerAt, AlertTypes
  <2>2. callers[c].at # "idle"
    BY <1>d DEF InFlight
  <2>3. /\ next \in AlertCall /\ next.kind = callers[c].kind
        /\ callers[c].kind = "alert" => next.event = callers[c].event
    BY <1>0, <2>2, CallGoesOn
  <2> HIDE DEF next
  <2>4. callers'[c] = next /\ \A d \in Callers \ {c} : callers'[d] = callers[d]
    BY <1>b, <2>1
  <2>5. \A d \in Callers : \/ callers'[d].at \notin InFlight
                           \/ callers'[d].kind # "alert"
                           \/ /\ d \in PendingCallers
                              /\ callers'[d].event = callers[d].event
    BY <1>d, <2>3, <2>4 DEF PendingCallers
  <2> QED BY <1>0, <2>1, <2>3, <2>5, NoneStarts DEF AlertTypes
<1>1. CASE Report(c)
  <2>1. PICK e \in Events, l \in Levels :
          callers' = [callers EXCEPT ![c] = [at |-> "check", kind |-> "alert", event |-> e, level |-> l]]
    BY <1>1 DEF Report
  <2> DEFINE next == [at |-> "check", kind |-> "alert", event |-> e, level |-> l]
  <2>2. next \in AlertCall /\ next.at \notin InFlight
    BY DEF AlertCall, InFlight
  <2> HIDE DEF next
  <2>3. callers' = [callers EXCEPT ![c] = next]
    BY <2>1 DEF next
  <2>4. callers'[c] = next /\ \A d \in Callers \ {c} : callers'[d] = callers[d]
    BY <1>b, <2>3
  <2>5. \A d \in Callers : \/ callers'[d].at \notin InFlight
                           \/ callers'[d].kind # "alert"
                           \/ /\ d \in PendingCallers
                              /\ callers'[d].event = callers[d].event
    BY <2>2, <2>4 DEF PendingCallers
  <2>6. AlertTypes'
    BY <1>0, <1>1, <2>2, <2>3 DEF Report, AlertTypes
  <2>7. UNCHANGED <<sentAlerts, delivered, answers>>
    BY <1>1 DEF Report
  <2> QED BY <2>5, <2>6, <2>7, NoneStarts, SeenStays DEF AlertInv
<1>2. CASE Remind(c)
  <2> DEFINE next == [at |-> "token", kind |-> "reminder"]
  <2>2. next \in AlertCall /\ next.kind # "alert"
    BY DEF AlertCall, InFlight
  <2> HIDE DEF next
  <2>3. callers' = [callers EXCEPT ![c] = next]
    BY <1>2 DEF Remind, next
  <2>4. callers'[c] = next /\ \A d \in Callers \ {c} : callers'[d] = callers[d]
    BY <1>b, <2>3
  <2>5. \A d \in Callers : \/ callers'[d].at \notin InFlight
                           \/ callers'[d].kind # "alert"
                           \/ /\ d \in PendingCallers
                              /\ callers'[d].event = callers[d].event
    BY <2>2, <2>4 DEF PendingCallers
  <2>6. AlertTypes'
    BY <1>0, <1>2, <2>2, <2>3 DEF Remind, AlertTypes
  <2>7. UNCHANGED <<sentAlerts, delivered, answers>>
    BY <1>2 DEF Remind
  <2> QED BY <2>5, <2>6, <2>7, NoneStarts, SeenStays DEF AlertInv
<1>3. CASE Duplicate(c)
  <2>1. callers[c].at = "check" /\ callers[c].at # "idle"
    BY <1>3 DEF Duplicate
  <2>2. callers[c].kind = "alert"
    BY <1>0, <2>1, BegunCall DEF InFlight
  <2>3. AlreadySent(callers[c].event, callers[c].level) /\ Answer(c, "duplicate") /\ CallEnds(c)
        /\ UNCHANGED <<sentAlerts, delivered>>
    BY <1>3 DEF Duplicate
  <2> DEFINE new == [event |-> callers[c].event, level |-> callers[c].level, result |-> "duplicate"]
  <2>4. /\ answers' \subseteq [event : Events, level : Levels,
                               result : {"duplicate", "busy", "failed", "sent"}]
        /\ answers' = answers \cup {new}
    BY <1>0, <2>1, <2>2, <2>3, AnswerTyped
  <2>5. PICK i \in DOMAIN sentAlerts : /\ sentAlerts[i].event = callers[c].event
                                       /\ sentAlerts[i].level >= callers[c].level
    BY <2>3 DEF AlreadySent, Remembered
  <2>6. PICK d \in delivered : d.event = sentAlerts[i].event /\ d.level >= sentAlerts[i].level
    BY DEF AlertInv, AlertSeen
  <2>7. d.level \in Int /\ sentAlerts[i].level \in Int /\ callers[c].level \in Int
    <3>1. d \in Alert /\ sentAlerts[i] \in Alert /\ callers[c].level \in Levels
      BY <1>0, <2>1, <2>2, PendingCall DEF AlertTypes
    <3> QED BY <3>1 DEF Alert, Levels
  <2>8. AlertSeen(delivered, new)
    BY <2>5, <2>6, <2>7 DEF AlertSeen
  <2> HIDE DEF new
  <2>9. \A a \in answers' : a.result \in {"sent", "duplicate"} => AlertSeen(delivered', a)
    BY <2>3, <2>4, <2>8 DEF AlertInv
  <2>10. \A k \in DOMAIN sentAlerts' : AlertSeen(delivered', sentAlerts'[k])
    BY <2>3 DEF AlertInv
  <2>11. AlertTypes'
    BY <1>0, <1>c, <2>3, <2>4 DEF CallEnds, AlertTypes
  <2> QED BY <1>c, <2>3, <2>9, <2>10, <2>11 DEF AlertInv, CallEnds
<1>4. CASE StartAlert(c)
  <2>1. callers[c].at = "check" /\ callers[c].at # "idle"
    BY <1>4 DEF StartAlert
  <2>2. callers[c].kind = "alert"
    BY <1>0, <2>1, BegunCall DEF InFlight
  <2>3. CASE Answer(c, "busy") /\ CallEnds(c)
    <3>1. /\ answers' \subseteq [event : Events, level : Levels,
                                 result : {"duplicate", "busy", "failed", "sent"}]
          /\ answers' = answers \cup {[event |-> callers[c].event, level |-> callers[c].level,
                                       result |-> "busy"]}
      BY <1>0, <2>1, <2>2, <2>3, AnswerTyped
    <3>2. UNCHANGED <<sentAlerts, delivered>>
      BY <1>4 DEF StartAlert
    <3>3. AlertTypes'
      BY <1>0, <1>c, <2>3, <3>1, <3>2 DEF CallEnds, AlertTypes
    <3> QED BY <1>c, <2>3, <3>1, <3>2, <3>3, SeenStays DEF AlertInv, CallEnds
  <2>4. CASE CallerAt(c, "lookup") /\ UNCHANGED answers
    <3> DEFINE next == [callers[c] EXCEPT !.at = "lookup"]
    <3>1. callers' = [callers EXCEPT ![c] = next]
      BY <1>0, <2>4 DEF CallerAt, AlertTypes
    <3>2. next \in AlertCall /\ next.event = callers[c].event
      BY <1>0, <2>1, <2>2, CallGoesOn DEF InFlight
    <3> HIDE DEF next
    <3>3. callers'[c] = next /\ \A d \in Callers \ {c} : callers'[d] = callers[d]
      BY <1>b, <3>1
    <3>4. \A d \in PendingCallers : callers[d].event # callers[c].event
      BY <1>4 DEF StartAlert, PendingOf
    <3>5. ASSUME NEW d \in PendingCallers', d # c
          PROVE  d \in PendingCallers /\ callers'[d] = callers[d]
      <4>1. d \in Callers /\ callers'[d].at \in InFlight /\ callers'[d].kind = "alert"
        BY <3>5 DEF PendingCallers
      <4> QED BY <3>3, <3>5, <4>1 DEF PendingCallers
    <3>6. \A d, e \in PendingCallers' : callers'[d].event = callers'[e].event => d = e
      BY <3>2, <3>3, <3>4, <3>5 DEF AlertInv
    <3>7. UNCHANGED <<sentAlerts, delivered, answers>>
      BY <1>4, <2>4 DEF StartAlert
    <3>8. AlertTypes'
      BY <1>0, <3>1, <3>2, <3>7 DEF AlertTypes
    <3> QED BY <3>6, <3>7, <3>8, SeenStays DEF AlertInv
  <2> QED BY <1>4, <2>3, <2>4 DEF StartAlert
<1>5. CASE FindRecipient(c)
  <2>1. callers[c].at = "lookup" /\ callers[c].at # "idle" /\ callers[c].at \in InFlight
    BY <1>5 DEF FindRecipient, InFlight
  <2>2. UNCHANGED <<sentAlerts, delivered>>
    BY <1>5 DEF FindRecipient
  <2>3. CASE CallerAt(c, "token") /\ UNCHANGED answers
    <3>1. AlertTypes'
      BY <1>0, <1>d, <2>1, <2>2, <2>3 DEF InFlight, AlertTypes
    <3> QED BY <1>d, <2>1, <2>2, <2>3, <3>1, SeenStays DEF InFlight, AlertInv
  <2>4. CASE Fail(c) /\ CallEnds(c)
    <3>1. /\ answers' \subseteq [event : Events, level : Levels,
                                 result : {"duplicate", "busy", "failed", "sent"}]
          /\ \A a \in answers' : a \in answers \/ a.result = "failed"
      BY <1>0, <2>1, <2>4, AnswerTyped DEF Fail, AlertTypes
    <3>2. AlertTypes'
      BY <1>0, <1>c, <2>2, <2>4, <3>1 DEF CallEnds, AlertTypes
    <3> QED BY <1>c, <2>2, <2>4, <3>1, <3>2, SeenStays DEF AlertInv, CallEnds
  <2> QED BY <1>5, <2>3, <2>4 DEF FindRecipient
<1>6. CASE TakeToken(c)
  <2>1. callers[c].at \in InFlight /\ UNCHANGED <<sentAlerts, delivered, answers>>
    BY <1>6 DEF TakeToken, InFlight
  <2>2. \E at \in InFlight : CallerAt(c, at)
    BY <1>6 DEF TakeToken, InFlight
  <2>3. AlertTypes'
    BY <1>0, <1>d, <2>1, <2>2 DEF AlertTypes
  <2> QED BY <1>d, <2>1, <2>2, <2>3, SeenStays DEF AlertInv
<1>7. CASE PostAccepted(c)
  <2>1. callers[c].at = "post" /\ callers[c].at # "idle" /\ CallEnds(c) /\ delivered' = Shown(c)
    BY <1>7 DEF PostAccepted
  <2>2. CASE callers[c].kind = "alert"
    <3> DEFINE e == callers[c].event  l == callers[c].level
               shown == [event |-> e, level |-> l]
               new == [event |-> e, level |-> l, result |-> "sent"]
    <3>1. e \in Events /\ l \in Levels /\ shown \in Alert
      BY <1>0, <2>1, <2>2, PendingCall DEF Alert
    <3>2. delivered' = delivered \cup {shown} /\ sentAlerts' = Remember(e, l) /\ Answer(c, "sent")
      BY <1>7, <2>1, <2>2 DEF PostAccepted, Shown
    <3>3. /\ answers' \subseteq [event : Events, level : Levels,
                                 result : {"duplicate", "busy", "failed", "sent"}]
          /\ answers' = answers \cup {new}
      BY <1>0, <2>1, <2>2, <3>2, AnswerTyped
    <3>4. /\ Remember(e, l) \in Seq(Alert)
          /\ \A i \in DOMAIN Remember(e, l) :
               \/ Remember(e, l)[i] = shown
               \/ \E j \in DOMAIN sentAlerts : Remember(e, l)[i] = sentAlerts[j]
      BY <1>0, <3>1, RememberHas
    <3>5. AlertSeen(delivered', shown) /\ AlertSeen(delivered', new)
      <4>1. shown \in delivered' /\ l >= l
        BY <3>1, <3>2 DEF Levels
      <4> QED BY <4>1 DEF AlertSeen
    <3>6. \A a : AlertSeen(delivered, a) => AlertSeen(delivered', a)
      BY <3>2 DEF AlertSeen
    <3> HIDE DEF e, l, shown, new
    <3>7. \A a \in answers' : a.result \in {"sent", "duplicate"} => AlertSeen(delivered', a)
      BY <3>3, <3>5, <3>6 DEF AlertInv
    <3>8. \A i \in DOMAIN sentAlerts' : AlertSeen(delivered', sentAlerts'[i])
      BY <3>2, <3>4, <3>5, <3>6 DEF AlertInv
    <3>9. AlertTypes'
      BY <1>0, <1>c, <2>1, <3>1, <3>2, <3>3, <3>4 DEF CallEnds, AlertTypes
    <3> QED BY <1>c, <2>1, <3>7, <3>8, <3>9 DEF AlertInv, CallEnds
  <2>3. CASE callers[c].kind # "alert"
    <3>1. UNCHANGED <<sentAlerts, answers, delivered>>
      BY <1>7, <2>1, <2>3 DEF PostAccepted, Shown
    <3>2. AlertTypes'
      BY <1>0, <1>c, <2>1, <3>1 DEF CallEnds, AlertTypes
    <3> QED BY <1>c, <2>1, <3>1, <3>2, SeenStays DEF AlertInv, CallEnds
  <2> QED BY <2>2, <2>3
<1>8. CASE PostFails(c)
  <2>1. /\ callers[c].at = "post" /\ callers[c].at # "idle" /\ CallEnds(c) /\ Fail(c)
        /\ UNCHANGED sentAlerts /\ delivered' \in {delivered, Shown(c)}
    BY <1>8 DEF PostFails
  <2>2. delivered \subseteq delivered' /\ delivered' \subseteq Alert
    BY <1>0, <2>1, PendingCall DEF Shown, AlertTypes, Alert
  <2>3. /\ answers' \subseteq [event : Events, level : Levels,
                               result : {"duplicate", "busy", "failed", "sent"}]
        /\ \A a \in answers' : a \in answers \/ a.result = "failed"
    BY <1>0, <2>1, AnswerTyped DEF Fail, AlertTypes
  <2>4. AlertTypes'
    BY <1>0, <1>c, <2>1, <2>2, <2>3 DEF CallEnds, AlertTypes
  <2> QED BY <1>c, <2>1, <2>2, <2>3, <2>4, SeenStays DEF AlertInv, CallEnds
<1> QED BY <1>1, <1>2, <1>3, <1>4, <1>5, <1>6, <1>7, <1>8 DEF CallerStep

\* Every step of the alerts keeps the invariant.
LEMMA AlertStep == AlertInv /\ (AlertNext \/ UNCHANGED alertVars) => AlertInv'
<1> SUFFICES ASSUME AlertInv, AlertNext \/ UNCHANGED alertVars PROVE AlertInv'
  OBVIOUS
<1>0. AlertTypes
  BY DEF AlertInv
<1>a. NoCall \in AlertCall /\ NoCall.at \notin InFlight
  BY DEF NoCall, AlertCall, InFlight
<1>1. CASE TokenArrives
  <2>1. \A c \in Callers :
          /\ callers'[c] \in AlertCall
          /\ callers'[c].kind = "alert" /\ callers'[c].at \in InFlight =>
               c \in PendingCallers /\ callers'[c].event = callers[c].event
    <3> SUFFICES ASSUME NEW c \in Callers PROVE <2>1!(c)
      OBVIOUS
    <3>1. CASE c \in Sharers
      <4>1. callers'[c] = [callers[c] EXCEPT !.at = "post"] /\ callers[c].at \in {"fetch", "shared"}
        BY <1>1, <3>1 DEF TokenArrives, Sharers
      <4>2. callers[c].at # "idle" /\ callers[c].at \in InFlight /\ "post" \in InFlight
        BY <4>1 DEF InFlight
      <4>3. /\ [callers[c] EXCEPT !.at = "post"] \in AlertCall
            /\ [callers[c] EXCEPT !.at = "post"].kind = callers[c].kind
            /\ callers[c].kind = "alert" =>
                 [callers[c] EXCEPT !.at = "post"].event = callers[c].event
        BY <1>0, <4>2, CallGoesOn
      <4> QED BY <4>1, <4>2, <4>3 DEF PendingCallers
    <3>2. CASE c \notin Sharers
      BY <1>0, <1>1, <3>2 DEF TokenArrives, PendingCallers, AlertTypes
    <3> QED BY <3>1, <3>2
  <2>2. UNCHANGED <<sentAlerts, delivered, answers>>
    BY <1>1 DEF TokenArrives
  <2>3. AlertTypes'
    BY <1>0, <1>1, <2>1, <2>2 DEF TokenArrives, AlertTypes
  <2> QED BY <2>1, <2>2, <2>3, NoneStarts, SeenStays DEF AlertInv
<1>2. CASE TokenFails
  <2>1. \A c \in Callers : callers'[c] = NoCall \/ callers'[c] = callers[c]
    BY <1>2 DEF TokenFails
  <2>2. \A c \in Callers : \/ callers'[c].at \notin InFlight
                           \/ callers'[c].kind # "alert"
                           \/ /\ c \in PendingCallers
                              /\ callers'[c].event = callers[c].event
    BY <1>a, <2>1 DEF PendingCallers
  <2>3. UNCHANGED <<sentAlerts, delivered>>
    BY <1>2 DEF TokenFails
  <2>4. \A c \in PendingCallers : callers[c].event \in Events /\ callers[c].level \in Levels
    BY <1>0, PendingCall DEF PendingCallers, InFlight
  <2>5. /\ answers' \subseteq [event : Events, level : Levels,
                               result : {"duplicate", "busy", "failed", "sent"}]
        /\ \A a \in answers' : a \in answers \/ a.result = "failed"
    BY <1>0, <1>2, <2>4 DEF TokenFails, AlertTypes
  <2>6. AlertTypes'
    BY <1>0, <1>2, <1>a, <2>3, <2>5 DEF TokenFails, AlertTypes
  <2> QED BY <2>2, <2>3, <2>5, <2>6, NoneStarts, SeenStays DEF AlertInv
<1>3. CASE Restart
  <2>1. /\ sentAlerts' = <<>> /\ UNCHANGED <<delivered, answers>>
        /\ callers' = [c \in Callers |-> NoCall]
    BY <1>3 DEF Restart
  <2>2. AlertTypes'
    BY <1>0, <1>a, <2>1 DEF AlertTypes
  <2> QED BY <1>a, <2>1, <2>2 DEF AlertInv, PendingCallers
<1>4. CASE TokenExpires \/ UNCHANGED alertVars
  BY <1>4 DEF TokenExpires, alertVars, AlertInv, AlertTypes, PendingCallers
<1> QED BY <1>1, <1>2, <1>3, <1>4, CallerKeeps DEF AlertNext

\* Callers wait for a token only while one of them has asked for it (accessToken).
LEMMA TokenStaysShared ==
  AlertTypes /\ TokenShared /\ (AlertNext \/ UNCHANGED alertVars) => TokenShared'
<1> SUFFICES ASSUME AlertTypes, TokenShared, AlertNext \/ UNCHANGED alertVars PROVE TokenShared'
  OBVIOUS
<1>a. DOMAIN callers = Callers /\ NoCall.at = "idle"
  BY DEF AlertTypes, NoCall
<1>1. ASSUME NEW c \in Callers, UNCHANGED tokenRequest,
             callers[c].at \notin {"fetch", "shared"}, callers'[c].at \notin {"fetch", "shared"},
             \A d \in Callers \ {c} : callers'[d] = callers[d]
      PROVE  TokenShared'
  BY <1>1 DEF TokenShared, Sharers
<1>2. ASSUME NEW c \in Callers, NEW next, callers' = [callers EXCEPT ![c] = next]
      PROVE  callers'[c] = next /\ \A d \in Callers \ {c} : callers'[d] = callers[d]
  BY <1>a, <1>2
<1>3. ASSUME NEW c \in Callers, NEW at, CallerAt(c, at), callers[c].at # "idle"
      PROVE  callers'[c].at = at
  <2>1. callers'[c] = [callers[c] EXCEPT !.at = at]
    BY <1>a, <1>3 DEF CallerAt
  <2>2. callers[c] \in AlertCall
    BY DEF AlertTypes
  <2> QED BY <1>3, <2>1, <2>2 DEF AlertCall
<1>4. ASSUME NEW c \in Callers, TakeToken(c) PROVE TokenShared'
  <2>1. PICK at : /\ CallerAt(c, at)
                  /\ at = IF token THEN "post" ELSE IF tokenRequest # NoCaller THEN "shared"
                          ELSE "fetch"
    BY <1>4 DEF TakeToken
  <2>2. callers[c].at = "token" /\ callers'[c].at = at /\ \A d \in Callers \ {c} : callers'[d] = callers[d]
    BY <1>2, <1>3, <1>4, <2>1 DEF TakeToken, CallerAt
  <2>3. tokenRequest' = IF ~token /\ tokenRequest = NoCaller THEN c ELSE tokenRequest
    BY <1>4 DEF TakeToken
  <2> QED BY <2>1, <2>2, <2>3, NoCallerAssumption DEF TokenShared, Sharers
<1>5. ASSUME NEW c \in Callers, CallerStep(c), ~TakeToken(c) PROVE TokenShared'
  <2>1. UNCHANGED tokenRequest /\ callers[c].at \notin {"fetch", "shared"}
    BY <1>5 DEF CallerStep, Report, Remind, Duplicate, StartAlert, FindRecipient, PostAccepted,
                PostFails
  <2>2. CASE CallEnds(c)
    BY <1>1, <1>2, <1>a, <2>1, <2>2 DEF CallEnds
  <2>3. CASE /\ StartAlert(c) \/ FindRecipient(c)
             /\ CallerAt(c, "lookup") \/ CallerAt(c, "token")
    <3>1. callers[c].at # "idle"
      BY <2>3 DEF StartAlert, FindRecipient
    <3> QED BY <1>1, <1>2, <1>3, <2>1, <2>3, <3>1 DEF CallerAt
  <2>4. CASE Report(c)
    <3>1. PICK e \in Events, l \in Levels :
            callers' = [callers EXCEPT ![c] = [at |-> "check", kind |-> "alert", event |-> e,
                                               level |-> l]]
      BY <2>4 DEF Report
    <3> DEFINE next == [at |-> "check", kind |-> "alert", event |-> e, level |-> l]
    <3>2. next.at = "check" /\ callers' = [callers EXCEPT ![c] = next]
      BY <3>1
    <3> HIDE DEF next
    <3>3. callers'[c] = next /\ \A d \in Callers \ {c} : callers'[d] = callers[d]
      BY <1>2, <3>2
    <3>4. callers'[c].at \notin {"fetch", "shared"}
      BY <3>2, <3>3
    <3> QED BY <1>1, <2>1, <3>3, <3>4
  <2>5. CASE Remind(c)
    <3> DEFINE next == [at |-> "token", kind |-> "reminder"]
    <3>1. next.at = "token" /\ callers' = [callers EXCEPT ![c] = next]
      BY <2>5 DEF Remind
    <3> HIDE DEF next
    <3>2. callers'[c] = next /\ \A d \in Callers \ {c} : callers'[d] = callers[d]
      BY <1>2, <3>1
    <3>3. callers'[c].at \notin {"fetch", "shared"}
      BY <3>1, <3>2
    <3> QED BY <1>1, <2>1, <3>2, <3>3
  <2> QED BY <1>5, <2>2, <2>3, <2>4, <2>5 DEF CallerStep, Duplicate, StartAlert, FindRecipient,
                                        PostAccepted, PostFails
<1>6. CASE TokenArrives \/ TokenFails \/ Restart
  <2>1. tokenRequest' = NoCaller /\ \A c \in Callers : callers'[c].at \notin {"fetch", "shared"}
    <3>1. CASE TokenArrives
      <4>1. ASSUME NEW c \in Sharers PROVE callers'[c].at = "post"
        <5>1. callers'[c] = [callers[c] EXCEPT !.at = "post"]
          BY <3>1 DEF TokenArrives, Sharers
        <5>2. callers[c] \in AlertCall /\ callers[c].at \in {"fetch", "shared"}
          BY DEF AlertTypes, Sharers
        <5> QED BY <5>1, <5>2 DEF AlertCall
      <4> QED BY <3>1, <4>1 DEF TokenArrives, Sharers
    <3>2. CASE TokenFails
      BY <1>a, <3>2 DEF TokenFails, Sharers
    <3>3. CASE Restart
      BY <1>a, <3>3 DEF Restart
    <3> QED BY <1>6, <3>1, <3>2, <3>3
  <2> QED BY <2>1, NoCallerAssumption DEF TokenShared, Sharers
<1>7. CASE TokenExpires \/ UNCHANGED alertVars
  BY <1>7 DEF TokenExpires, alertVars, TokenShared, Sharers
<1> QED BY <1>4, <1>5, <1>6, <1>7 DEF AlertNext

\* What is remembered was shown, and one caller at a time sends an event.
LEMMA AlertsKept == AlertInv /\ TokenShared => NoAlertSwallowed
<1> SUFFICES ASSUME AlertInv, TokenShared, NEW e \in Events PROVE Cardinality(PendingOf(e)) <= 1
  BY DEF AlertInv, NoAlertSwallowed, AlertSeen
<1>1. \A c, d \in PendingOf(e) : c = d
  BY DEF AlertInv, PendingOf
<1>2. CASE PendingOf(e) = {}
  BY <1>2, FS_EmptySet
<1>3. CASE PendingOf(e) # {}
  <2>1. PICK c : c \in PendingOf(e)
    BY <1>3
  <2>2. PendingOf(e) = {c}
    BY <1>1, <2>1
  <2> QED BY SMTT(30), <2>2, FS_Singleton
<1> QED BY <1>2, <1>3

\* Nobody is told that an alert was sent, or sent before, unless the recipient was shown it
\* or a graver one, and an event is in flight once (inspection-alert.service.ts); and no caller
\* waits for a token that nobody has asked for (feishu.service.ts).
THEOREM AlertsNotSwallowed == BackOfficeSpec => []NoAlertSwallowed
<1>1. BackOfficeInit => AlertInv /\ TokenShared
  <2>1. AlertInit => TokenShared
    BY DEF AlertInit, TokenShared, Sharers, NoCall
  <2> QED BY <2>1, AlertStart DEF BackOfficeInit
<1>2. AlertInv /\ TokenShared /\ [BackOfficeNext]_backVars => (AlertInv /\ TokenShared)'
  <2>1. AlertInv => AlertTypes
    BY DEF AlertInv
  <2> QED BY <2>1, AlertStep, TokenStaysShared, AlertsAlone
<1> QED BY <1>1, <1>2, AlertsKept, PTL DEF BackOfficeSpec
-----------------------------------------------------------------------------
(* The library of resources *)

\* A step of the back office is a step of the library or leaves it as it is.
LEMMA ResourcesAlone == [BackOfficeNext]_backVars => LibraryNext \/ UNCHANGED libraryVars
BY DEF BackOfficeNext, AgenciesStep, NumbersStep, AlertsStep, ReportsStep, VisitsStep,
       ShengxuStep, DictionariesStep, ResourcesStep, ReleaseStep, backVars

\* What a request in the state r is: it may be none.
LibraryRequests == {IdleLibrarian} \cup CreateRequest \cup UpdateRequest \cup DeleteRequest

\* The rows whose lock a request in the state r holds.
HeldBy(r) ==
    IF r.step \in {"area", "save"} \/ (r.step = "available" /\ r.call = "update") THEN {r.row}
    ELSE IF r.step = "delete" THEN r.held ELSE {}

\* A request in the state r goes by a drawn code.
DrawnBy(r) == r.step \in {"available", "insert"} /\ r.auto

\* An update in the state r knows what its row was at the version it has seen.
SeenBy(r) ==
    /\ r.seen.version > 0
    /\ r.seen.version <= library[r.row].version
    /\ r.seen.version = library[r.row].version => library[r.row] = r.seen
    /\ r.step # "lock" => library[r.row] = r.seen

\* A new table, and the table of a library that is shut, satisfy the invariant.
LEMMA LibraryStart == LibraryInit \/ LibraryShut => LibraryInv
<1> SUFFICES ASSUME LibraryInit \/ LibraryShut PROVE LibraryInv
  OBVIOUS
<1>1. kind \in Kinds /\ lastCode \in Nat
  BY DEF LibraryInit, LibraryShut, Kinds
<1>2. \A l \in Librarians : librarians[l] = IdleLibrarian /\ librarians[l].step = "idle"
  BY DEF LibraryInit, LibraryShut, IdleLibrarian
<1>3. /\ NoItem \in LibraryRow /\ ~NoItem.live /\ NoItem.code = 0
  BY DEF NoItem, LibraryRow
<1>4. /\ library \in [Items -> LibraryRow]
      /\ \A i \in Items : ~library[i].typed => library[i].code <= lastCode
      /\ \A i \in Items : library[i].live => library[i].version > 0
  <2>1. CASE LibraryInit
    <3>1. PICK first \in Areas \cup {NoArea} :
            library = [i \in Items |-> IF i = 1
              THEN [code |-> 1, typed |-> kind.typed, area |-> first, version |-> 1, live |-> TRUE]
              ELSE NoItem]
      BY <2>1 DEF LibraryInit
    <3> DEFINE row == [code |-> 1, typed |-> kind.typed, area |-> first, version |-> 1, live |-> TRUE]
    <3>2. kind.typed \in BOOLEAN
      <4>1. /\ Hotels.typed \in BOOLEAN /\ Restaurants.typed \in BOOLEAN
            /\ Attractions.typed \in BOOLEAN /\ Transports.typed \in BOOLEAN
            /\ GuidePrices.typed \in BOOLEAN /\ CityRows.typed \in BOOLEAN
        BY DEF Hotels, Restaurants, Attractions, Transports, GuidePrices, CityRows
      <4> QED BY <1>1, <4>1 DEF Kinds
    <3>3. row \in LibraryRow /\ row.code = 1 /\ row.typed = kind.typed /\ row.version = 1
      BY <3>2 DEF LibraryRow
    <3>4. \A i \in Items : library[i] = row \/ library[i] = NoItem
      BY <3>1
    <3>5. ~kind.typed => lastCode = 1
      BY <2>1 DEF LibraryInit
    <3>6. library \in [Items -> LibraryRow]
      BY <1>3, <3>1, <3>3
    <3> HIDE DEF row
    <3> QED BY <1>1, <1>3, <3>3, <3>4, <3>5, <3>6
  <2>2. CASE LibraryShut
    BY <1>1, <1>3, <2>2 DEF LibraryShut
  <2> QED BY <2>1, <2>2
<1>5. LibraryTypes
  <2>1. librarians = [l \in Librarians |-> IdleLibrarian]
    BY DEF LibraryInit, LibraryShut
  <2> QED BY <1>1, <1>4, <2>1 DEF LibraryTypes
<1>6. \A l \in Librarians : ~HoldsCounter(l) /\ HeldItems(l) = {} /\ librarians[l] \notin UpdateRequest
  BY <1>2 DEF HoldsCounter, HeldItems, UpdateRequest
<1> QED BY <1>2, <1>4, <1>5, <1>6 DEF LibraryInv, DrawnCodesFree, CounterSound, RowsLocked, SeenKept

\* A request goes on, and nothing is written: it draws no code, locks only what is free, and
\* an update remembers its row.
LEMMA RequestMoves ==
  ASSUME LibraryInv, NEW l \in Librarians, NEW next \in LibraryRequests,
         librarians' = [librarians EXCEPT ![l] = next], UNCHANGED <<kind, library, lastCode>>,
         DrawnBy(next) => /\ DrawnBy(librarians[l])
                          /\ next.code = librarians[l].code
                          /\ next.before = librarians[l].before,
         \A i \in HeldBy(next) : i \in HeldItems(l) \/ ItemFree(l, i),
         next \in UpdateRequest => SeenBy(next)
  PROVE  LibraryInv'
<1>1. /\ librarians'[l] = next
      /\ \A o \in Librarians \ {l} : librarians'[o] = librarians[o]
  BY DEF LibraryInv, LibraryTypes
<1>2. LibraryTypes'
  BY DEF LibraryInv, LibraryTypes, LibraryRequests
<1>3. DrawnCodesFree'
  BY <1>1 DEF LibraryInv, DrawnCodesFree, DrawnBy
<1>4. CounterSound'
  <2>1. \A o \in Librarians : HoldsCounter(o)' =>
           HoldsCounter(o) /\ librarians'[o].before = librarians[o].before
    BY <1>1 DEF HoldsCounter, DrawnBy
  <2> QED BY <1>1, <2>1 DEF LibraryInv, CounterSound, DrawnBy
<1>5. RowsLocked'
  <2>1. HeldItems(l)' = HeldBy(next)
    BY <1>1 DEF HeldItems, HeldBy
  <2>2. \A o \in Librarians \ {l} : HeldItems(o)' = HeldItems(o)
    BY <1>1 DEF HeldItems
  <2>3. \A o \in Librarians \ {l} : HeldBy(next) \cap HeldItems(o) = {}
    BY DEF LibraryInv, RowsLocked, ItemFree
  <2> QED BY <2>1, <2>2, <2>3 DEF LibraryInv, RowsLocked
<1>6. SeenKept'
  BY <1>1 DEF LibraryInv, SeenKept, SeenBy
<1> QED BY <1>2, <1>3, <1>4, <1>5, <1>6 DEF LibraryInv

\* What a request is, by its step.
LEMMA RequestTypes ==
  ASSUME LibraryTypes, NEW l \in Librarians
  PROVE  /\ librarians[l].step \in {"highest", "draw", "insert"} => librarians[l] \in CreateRequest
         /\ librarians[l].step \in {"lock", "area", "save"} => librarians[l] \in UpdateRequest
         /\ librarians[l].step = "delete" => librarians[l] \in DeleteRequest
<1>1. librarians[l] \in {IdleLibrarian} \cup CreateRequest \cup UpdateRequest \cup DeleteRequest
  BY DEF LibraryTypes
<1>2. librarians[l] = IdleLibrarian => librarians[l].step = "idle"
  BY DEF IdleLibrarian
<1>3. librarians[l] \in CreateRequest => librarians[l].step \in {"highest", "draw", "available", "insert"}
  BY DEF CreateRequest
<1>4. librarians[l] \in UpdateRequest => librarians[l].step \in {"lock", "area", "available", "save"}
  BY DEF UpdateRequest
<1>5. librarians[l] \in DeleteRequest => librarians[l].step = "delete"
  BY DEF DeleteRequest
<1> QED BY <1>1, <1>2, <1>3, <1>4, <1>5

\* Only a creation goes by a drawn code.
LEMMA DrawnCreates ==
  ASSUME LibraryTypes, NEW l \in Librarians, DrawnBy(librarians[l])
  PROVE  librarians[l] \in CreateRequest
<1>1. librarians[l] # IdleLibrarian
  BY DEF DrawnBy, IdleLibrarian
<1>2. librarians[l] \notin UpdateRequest
  BY DEF DrawnBy, UpdateRequest
<1>3. librarians[l] \notin DeleteRequest
  BY DEF DrawnBy, DeleteRequest
<1> QED BY <1>1, <1>2, <1>3 DEF LibraryTypes

\* A request ends: a row that bears no typed code bore the same code before or takes the one
\* the request has drawn, a row that changes takes a new version and is nobody else's, and only
\* a refusal turns the counter back.
LEMMA RequestEnds ==
  ASSUME LibraryInv, NEW l \in Librarians, CloseRequest(l), kind' = kind,
         library' \in [Items -> LibraryRow],
         \A i \in Items : ~library'[i].typed =>
            \/ ~library[i].typed /\ library'[i].code = library[i].code
            \/ DrawnBy(librarians[l]) /\ library'[i].code = librarians[l].code,
         \A i \in Items : library'[i].live => library'[i].version > 0,
         \A i \in Items :
            \/ library'[i] = library[i]
            \/ /\ library'[i].version > library[i].version
               /\ \A o \in Librarians \ {l} :
                     librarians[o] \in UpdateRequest /\ librarians[o].row = i => librarians[o].step = "lock",
         \/ lastCode' = lastCode
         \/ HoldsCounter(l) /\ lastCode' = librarians[l].before /\ library' = library
  PROVE  LibraryInv'
<1>1. /\ librarians'[l] = IdleLibrarian
      /\ \A o \in Librarians \ {l} : librarians'[o] = librarians[o]
  BY DEF LibraryInv, LibraryTypes, CloseRequest
<1>2. librarians'[l].step = "idle" /\ librarians'[l] \notin UpdateRequest
  <2>1. librarians'[l].step = "idle"
    BY <1>1 DEF IdleLibrarian
  <2> QED BY <2>1 DEF UpdateRequest
<1>3. lastCode' \in Nat
  <2>1. CASE HoldsCounter(l) /\ lastCode' = librarians[l].before
    <3>1. librarians[l].step \in {"available", "insert"} /\ librarians[l].auto
      BY <2>1 DEF HoldsCounter
    <3>2. librarians[l] \in CreateRequest
      BY <3>1, DrawnCreates DEF DrawnBy, LibraryInv
    <3> QED BY <2>1, <3>2 DEF CreateRequest
  <2> QED BY <2>1 DEF LibraryInv, LibraryTypes
<1>4. LibraryTypes'
  BY <1>3 DEF LibraryInv, LibraryTypes, CloseRequest
<1>5. DrawnCodesFree'
  BY <1>1, <1>2 DEF LibraryInv, DrawnCodesFree, DrawnBy
<1>6. \A o \in Librarians : HoldsCounter(o)' => /\ o # l /\ HoldsCounter(o)
                                                /\ librarians'[o] = librarians[o]
  BY <1>1, <1>2 DEF HoldsCounter
<1>7. \A o \in Librarians \ {l} : HoldsCounter(o) => ~HoldsCounter(l)
  BY DEF LibraryInv, CounterSound
<1>8. CounterSound'
  <2>1. ASSUME NEW i \in Items, ~library'[i].typed
        PROVE  library'[i].code <= lastCode'
    BY <2>1 DEF LibraryInv, CounterSound, DrawnBy
  <2>2. ASSUME NEW o \in Librarians, DrawnBy(librarians'[o])
        PROVE  librarians'[o].code <= lastCode'
    <3>1. o # l /\ librarians'[o] = librarians[o] /\ DrawnBy(librarians[o])
      BY <1>1, <1>2, <2>2 DEF DrawnBy
    <3>2. CASE lastCode' = lastCode
      BY <3>1, <3>2 DEF LibraryInv, CounterSound, DrawnBy
    <3>3. CASE HoldsCounter(l)
      BY <1>7, <3>1, <3>3 DEF HoldsCounter, DrawnBy
    <3> QED BY <3>2, <3>3
  <2>3. ASSUME NEW o \in Librarians, HoldsCounter(o)'
        PROVE  /\ \A i \in Items : ~library'[i].typed => library'[i].code <= librarians'[o].before
               /\ \A p \in Librarians \ {o} : ~HoldsCounter(p)'
    <3>1. o # l /\ HoldsCounter(o) /\ librarians'[o] = librarians[o] /\ ~HoldsCounter(l)
      BY <1>6, <1>7, <2>3
    <3>2. ~DrawnBy(librarians[l])
      BY <3>1 DEF HoldsCounter, DrawnBy
    <3> QED BY <1>6, <3>1, <3>2 DEF LibraryInv, CounterSound
  <2> QED BY <2>1, <2>2, <2>3 DEF CounterSound, DrawnBy
<1>9. RowsLocked'
  <2>1. HeldItems(l)' = {}
    BY <1>2 DEF HeldItems
  <2>2. \A o \in Librarians \ {l} : HeldItems(o)' = HeldItems(o)
    BY <1>1 DEF HeldItems
  <2> QED BY <2>1, <2>2 DEF LibraryInv, RowsLocked
<1>10. SeenKept'
  <2>1. ASSUME NEW o \in Librarians, librarians'[o] \in UpdateRequest
        PROVE  LET r == librarians'[o]
               IN  /\ r.seen.version > 0
                   /\ r.seen.version <= library'[r.row].version
                   /\ r.seen.version = library'[r.row].version => library'[r.row] = r.seen
                   /\ r.step # "lock" => library'[r.row] = r.seen
    <3>1. o # l /\ librarians'[o] = librarians[o] /\ librarians[o] \in UpdateRequest
      BY <1>1, <1>2, <2>1
    <3>2. PICK r \in UpdateRequest : r = librarians[o]
      BY <3>1
    <3>3. r.row \in Items /\ r.seen.version \in Nat
      BY DEF UpdateRequest, LibraryRow
    <3>4. library[r.row].version \in Nat /\ library'[r.row].version \in Nat
      BY <3>3 DEF LibraryInv, LibraryTypes, LibraryRow
    <3>5. /\ r.seen.version > 0
          /\ r.seen.version <= library[r.row].version
          /\ r.seen.version = library[r.row].version => library[r.row] = r.seen
          /\ r.step # "lock" => library[r.row] = r.seen
      BY <3>1, <3>2 DEF LibraryInv, SeenKept
    <3>6. \/ library'[r.row] = library[r.row]
          \/ library'[r.row].version > library[r.row].version /\ r.step = "lock"
      BY <3>1, <3>2, <3>3
    <3>7. /\ r.seen.version > 0
          /\ r.seen.version <= library'[r.row].version
          /\ r.seen.version = library'[r.row].version => library'[r.row] = r.seen
          /\ r.step # "lock" => library'[r.row] = r.seen
      BY <3>3, <3>4, <3>5, <3>6
    <3> QED BY <3>1, <3>2, <3>7
  <2>2. \A i \in Items : library'[i].live => library'[i].version > 0
    OBVIOUS
  <2> QED BY <2>1, <2>2 DEF SeenKept
<1> QED BY <1>4, <1>5, <1>8, <1>9, <1>10 DEF LibraryInv

\* A refused request leaves the library as it is, and the counter without what it drew itself.
LEMMA RefusalKeeps ==
  ASSUME LibraryInv, NEW l \in Librarians, Refuse(l), kind' = kind
  PROVE  LibraryInv'
<1>1. library' = library /\ library' \in [Items -> LibraryRow] /\ CloseRequest(l)
  BY DEF Refuse, LibraryInv, LibraryTypes
<1>2. \/ lastCode' = lastCode
      \/ HoldsCounter(l) /\ lastCode' = librarians[l].before /\ library' = library
  BY DEF Refuse
<1>3. \A i \in Items : library'[i].live => library'[i].version > 0
  BY <1>1 DEF LibraryInv, SeenKept
<1> QED BY <1>1, <1>2, <1>3, RequestEnds

\* So does a request that is closed.
LEMMA ClosingKeeps ==
  ASSUME LibraryInv, NEW l \in Librarians, CloseRequest(l), UNCHANGED <<kind, library, lastCode>>
  PROVE  LibraryInv'
<1>1. library' \in [Items -> LibraryRow]
  BY DEF LibraryInv, LibraryTypes
<1>2. \A i \in Items : library'[i].live => library'[i].version > 0
  BY DEF LibraryInv, SeenKept
<1> QED BY <1>1, <1>2, RequestEnds
\* A creation begins, and reads the highest code.
LEMMA CreationKeeps ==
  ASSUME LibraryInv, NEW l \in Librarians,
         \/ \E code \in CodesFor, area \in AreasFor : BeginCreateItem(l, code, area)
         \/ ReadHighest(l)
  PROVE  LibraryInv'
<1>0. LibraryTypes
  BY DEF LibraryInv
<1>1. CASE \E code \in CodesFor, area \in AreasFor : BeginCreateItem(l, code, area)
  <2>1. PICK code \in CodesFor, area \in AreasFor : BeginCreateItem(l, code, area)
    BY <1>1
  <2>2. code \in Nat /\ area \in Areas \cup {NoArea}
    BY TypedCodesAssumption DEF CodesFor, AreasFor
  <2> DEFINE next == [step |-> IF code = 0 THEN "highest" ELSE "available", call |-> "create",
          row |-> 0, code |-> code, auto |-> code = 0, area |-> area, highest |-> 0, before |-> 0]
  <2>3. librarians' = [librarians EXCEPT ![l] = next] /\ UNCHANGED <<kind, library, lastCode>>
    BY <2>1 DEF BeginCreateItem, OpenRequest
  <2>4. next \in CreateRequest
    BY <2>2 DEF CreateRequest
  <2>5. ~DrawnBy(next) /\ HeldBy(next) = {} /\ next.call = "create"
    BY DEF DrawnBy, HeldBy
  <2> HIDE DEF next
  <2>6. next \notin UpdateRequest
    BY <2>5 DEF UpdateRequest
  <2> QED BY <2>3, <2>4, <2>5, <2>6, RequestMoves DEF LibraryRequests
<1>2. CASE ReadHighest(l)
  <2>1. PICK h \in {library[i].code : i \in Items} :
          librarians' = [librarians EXCEPT ![l].highest = h, ![l].step = "draw"]
    BY <1>2 DEF ReadHighest
  <2>2. h \in Nat
    BY <1>0 DEF LibraryTypes, LibraryRow
  <2>3. PICK r \in CreateRequest : r = librarians[l]
    BY <1>0, <1>2, RequestTypes DEF ReadHighest
  <2> DEFINE next == [r EXCEPT !.highest = h, !.step = "draw"]
  <2>4. librarians' = [librarians EXCEPT ![l] = next]
    BY <1>0, <2>1, <2>3 DEF LibraryTypes
  <2>5. next \in CreateRequest /\ next.step = "draw" /\ next.call = "create"
    BY <2>2 DEF CreateRequest
  <2> HIDE DEF next
  <2>6. ~DrawnBy(next) /\ HeldBy(next) = {} /\ next \notin UpdateRequest
    BY <2>5 DEF DrawnBy, HeldBy, UpdateRequest
  <2>7. UNCHANGED <<kind, library, lastCode>>
    BY <1>2 DEF ReadHighest
  <2> QED BY <2>4, <2>5, <2>6, <2>7, RequestMoves DEF LibraryRequests
<1> QED BY <1>1, <1>2

\* A code that is drawn lies above all that were drawn before it.
LEMMA DrawKeeps ==
  ASSUME LibraryInv, NEW l \in Librarians, DrawCode(l)
  PROVE  LibraryInv'
<1>0. LibraryTypes /\ DrawnCodesFree /\ CounterSound /\ RowsLocked /\ SeenKept
  BY DEF LibraryInv
<1>1. PICK r \in CreateRequest : r = librarians[l]
  BY <1>0, RequestTypes DEF DrawCode
<1>2. PICK n \in Nat : n = NextCode(l) /\ n > lastCode
  BY <1>0, <1>1 DEF NextCode, LibraryTypes, CreateRequest
<1> DEFINE next == [r EXCEPT !.code = n, !.before = lastCode, !.step = "available"]
<1>3. librarians' = [librarians EXCEPT ![l] = next] /\ lastCode' = n /\ UNCHANGED <<kind, library>>
  BY <1>0, <1>1, <1>2 DEF DrawCode, LibraryTypes
<1>4. /\ next \in CreateRequest /\ next.step = "available" /\ next.call = "create"
      /\ next.code = n /\ next.before = lastCode
  BY <1>0, <1>2 DEF CreateRequest, LibraryTypes
<1> HIDE DEF next
<1>5. /\ librarians'[l] = next
      /\ \A o \in Librarians \ {l} : librarians'[o] = librarians[o]
  BY <1>0, <1>3 DEF LibraryTypes
<1>6. /\ \A i \in Items : ~library[i].typed => library[i].code < n
      /\ \A o \in Librarians : DrawnBy(librarians[o]) => librarians[o].code < n
  <2>1. lastCode \in Nat /\ \A i \in Items : library[i].code \in Nat
    BY <1>0 DEF LibraryTypes, LibraryRow
  <2>2. \A o \in Librarians : DrawnBy(librarians[o]) => librarians[o].code \in Nat
    BY <1>0, DrawnCreates DEF CreateRequest
  <2> QED BY <1>0, <1>2, <2>1, <2>2 DEF CounterSound, DrawnBy
<1>7. LibraryTypes'
  BY <1>0, <1>3, <1>4 DEF LibraryTypes
<1>8. DrawnCodesFree'
  BY <1>0, <1>3, <1>4, <1>5, <1>6 DEF DrawnCodesFree, DrawnBy
<1>9. CounterSound'
  <2>1. \A o \in Librarians \ {l} : ~HoldsCounter(o)'
    BY <1>3, <1>5 DEF DrawCode, HoldsCounter
  <2>2. \A i \in Items : library[i].code \in Nat
    BY <1>0 DEF LibraryTypes, LibraryRow
  <2>3. \A o \in Librarians : DrawnBy(librarians[o]) => librarians[o].code \in Nat
    BY <1>0, DrawnCreates DEF CreateRequest
  <2>4. \A i \in Items : ~library'[i].typed => library'[i].code <= lastCode'
    BY <1>3, <1>6, <2>2
  <2>5. \A o \in Librarians : DrawnBy(librarians'[o]) => librarians'[o].code <= lastCode'
    BY <1>3, <1>4, <1>5, <1>6, <2>3
  <2>6. \A i \in Items : ~library'[i].typed => library'[i].code <= librarians'[l].before
    BY <1>0, <1>3, <1>4, <1>5 DEF CounterSound
  <2> QED BY <2>1, <2>4, <2>5, <2>6 DEF CounterSound, DrawnBy
<1>10. RowsLocked'
  <2>1. HeldItems(l)' = {}
    BY <1>4, <1>5 DEF HeldItems
  <2>2. \A o \in Librarians \ {l} : HeldItems(o)' = HeldItems(o)
    BY <1>5 DEF HeldItems
  <2> QED BY <1>0, <2>1, <2>2 DEF RowsLocked
<1>11. SeenKept'
  <2>1. next \notin UpdateRequest
    BY <1>4 DEF UpdateRequest
  <2> QED BY <1>0, <1>3, <1>5, <2>1 DEF SeenKept
<1> QED BY <1>7, <1>8, <1>9, <1>10, <1>11 DEF LibraryInv

\* The code of a request is found free or not.
LEMMA CheckKeeps ==
  ASSUME LibraryInv, NEW l \in Librarians, CheckItemCode(l)
  PROVE  LibraryInv'
<1>0. LibraryTypes
  BY DEF LibraryInv
<1>1. kind' = kind
  BY DEF CheckItemCode
<1>2. CASE Refuse(l)
  BY <1>1, <1>2, RefusalKeeps
<1>3. CASE /\ Go(l, librarians[l], IF librarians[l].call = "create" THEN "insert" ELSE "save")
           /\ UNCHANGED <<library, lastCode>>
  <2>1. librarians[l].step = "available"
    BY DEF CheckItemCode
  <2>2. librarians[l] \in CreateRequest \/ librarians[l] \in UpdateRequest
    BY <1>0, <2>1 DEF LibraryTypes, IdleLibrarian, DeleteRequest
  <2>3. CASE librarians[l] \in CreateRequest
    <3>1. PICK r \in CreateRequest : r = librarians[l]
      BY <2>3
    <3> DEFINE next == [r EXCEPT !.step = "insert"]
    <3>2. librarians' = [librarians EXCEPT ![l] = next]
      BY <1>3, <3>1 DEF Go, CreateRequest
    <3>3. /\ next \in CreateRequest /\ next.step = "insert" /\ next.call = "create"
          /\ next.auto = r.auto /\ next.code = r.code /\ next.before = r.before
      BY DEF CreateRequest
    <3> HIDE DEF next
    <3>4. HeldBy(next) = {} /\ next \notin UpdateRequest
      BY <3>3 DEF HeldBy, UpdateRequest
    <3>5. DrawnBy(next) => /\ DrawnBy(librarians[l])
                           /\ next.code = librarians[l].code
                           /\ next.before = librarians[l].before
      BY <2>1, <3>1, <3>3 DEF DrawnBy
    <3> QED BY <1>1, <1>3, <3>2, <3>3, <3>4, <3>5, RequestMoves DEF LibraryRequests
  <2>4. CASE librarians[l] \in UpdateRequest
    <3>1. PICK r \in UpdateRequest : r = librarians[l]
      BY <2>4
    <3> DEFINE next == [r EXCEPT !.step = "save"]
    <3>2. librarians' = [librarians EXCEPT ![l] = next]
      BY <1>3, <3>1 DEF Go, UpdateRequest
    <3>3. /\ next \in UpdateRequest /\ next.step = "save" /\ next.row = r.row
          /\ next.seen = r.seen
      BY DEF UpdateRequest
    <3> HIDE DEF next
    <3>4. HeldBy(next) = {r.row} /\ HeldItems(l) = {r.row}
      BY <2>1, <3>1, <3>3 DEF HeldBy, HeldItems, UpdateRequest
    <3>5. ~DrawnBy(next)
      BY <3>3 DEF DrawnBy
    <3>6. SeenBy(next)
      BY <2>1, <3>1, <3>3 DEF LibraryInv, SeenKept, SeenBy
    <3> QED BY <1>1, <1>3, <3>2, <3>3, <3>4, <3>5, <3>6, RequestMoves DEF LibraryRequests
  <2> QED BY <2>2, <2>3, <2>4
<1> QED BY <1>2, <1>3 DEF CheckItemCode

\* A row that is inserted was in nobody's sight, and bears the code its request has drawn, or
\* one that was typed.
LEMMA InsertKeeps ==
  ASSUME LibraryInv, NEW l \in Librarians, InsertItem(l)
  PROVE  LibraryInv'
<1>0. LibraryTypes /\ SeenKept
  BY DEF LibraryInv
<1>1. kind' = kind
  BY DEF InsertItem
<1>2. CASE Refuse(l)
  BY <1>1, <1>2, RefusalKeeps
<1>3. CASE ~Refuse(l)
  <2>1. PICK r \in CreateRequest : r = librarians[l]
    BY <1>0, RequestTypes DEF InsertItem
  <2> DEFINE row == [code |-> r.code, typed |-> ~r.auto, area |-> r.area, version |-> 1, live |-> TRUE]
  <2>2. PICK i \in Unused : library' = [library EXCEPT ![i] = row]
    BY <1>3, <2>1 DEF InsertItem
  <2>3. CloseRequest(l) /\ lastCode' = lastCode
    BY <1>3 DEF InsertItem
  <2>4. row \in LibraryRow /\ row.version = 1 /\ row.code = r.code /\ row.typed = ~r.auto
    BY DEF LibraryRow, CreateRequest
  <2>5. i \in Items /\ library[i].version = 0
    BY DEF Unused, NoItem
  <2> HIDE DEF row
  <2>6. library'[i] = row /\ \A j \in Items \ {i} : library'[j] = library[j]
    BY <1>0, <2>2, <2>5 DEF LibraryTypes
  <2>7. library' \in [Items -> LibraryRow]
    BY <1>0, <2>2, <2>4 DEF LibraryTypes
  <2>8. ~row.typed => DrawnBy(librarians[l]) /\ row.code = librarians[l].code
    BY <2>1, <2>4 DEF InsertItem, DrawnBy
  <2>9. \A o \in Librarians \ {l} : ~(librarians[o] \in UpdateRequest /\ librarians[o].row = i)
    <3> SUFFICES ASSUME NEW o \in Librarians, librarians[o] \in UpdateRequest, librarians[o].row = i
                 PROVE  FALSE
      OBVIOUS
    <3>1. librarians[o].seen.version \in Nat
      BY DEF UpdateRequest, LibraryRow
    <3>2. librarians[o].seen.version > 0 /\ librarians[o].seen.version <= 0
      BY <1>0, <2>5 DEF SeenKept
    <3> QED BY <3>1, <3>2
  <2>10. \A j \in Items : library'[j].live => library'[j].version > 0
    BY <1>0, <2>4, <2>6 DEF SeenKept
  <2>11. \A j \in Items : ~library'[j].typed =>
            \/ ~library[j].typed /\ library'[j].code = library[j].code
            \/ DrawnBy(librarians[l]) /\ library'[j].code = librarians[l].code
    BY <2>6, <2>8
  <2>12. \A j \in Items :
            \/ library'[j] = library[j]
            \/ /\ library'[j].version > library[j].version
               /\ \A o \in Librarians \ {l} :
                     librarians[o] \in UpdateRequest /\ librarians[o].row = j => librarians[o].step = "lock"
    BY <2>4, <2>5, <2>6, <2>9
  <2> QED BY <1>1, <2>3, <2>7, <2>10, <2>11, <2>12, RequestEnds
<1> QED BY <1>2, <1>3
\* A request that holds the lock of a row, and an update of that row past its lock, are one.
LEMMA HeldAlone ==
  ASSUME LibraryInv, NEW l \in Librarians, NEW i \in HeldItems(l)
  PROVE  \A o \in Librarians \ {l} :
            librarians[o] \in UpdateRequest /\ librarians[o].row = i => librarians[o].step = "lock"
<1> SUFFICES ASSUME NEW o \in Librarians \ {l}, librarians[o] \in UpdateRequest,
                    librarians[o].row = i, librarians[o].step # "lock"
             PROVE  FALSE
  OBVIOUS
<1>1. librarians[o].step \in {"area", "available", "save"} /\ librarians[o].call = "update"
  BY DEF UpdateRequest
<1>2. i \in HeldItems(o)
  BY <1>1 DEF HeldItems
<1> QED BY <1>2 DEF LibraryInv, RowsLocked

\* An update begins, locks the row at the version it has seen, and checks its city.
LEMMA UpdateKeeps ==
  ASSUME LibraryInv, NEW l \in Librarians,
         \/ \E code \in CodesFor, area \in AreasFor, i \in Items : BeginUpdateItem(l, i, code, area)
         \/ LockItem(l) \/ CheckArea(l)
  PROVE  LibraryInv'
<1>0. LibraryTypes /\ SeenKept
  BY DEF LibraryInv
<1>1. CASE \E code \in CodesFor, area \in AreasFor, i \in Items : BeginUpdateItem(l, i, code, area)
  <2>1. PICK code \in CodesFor, area \in AreasFor, i \in Items : BeginUpdateItem(l, i, code, area)
    BY <1>1
  <2>2. code \in Nat /\ area \in Areas \cup {NoArea}
    BY TypedCodesAssumption DEF CodesFor, AreasFor
  <2> DEFINE next == [step |-> "lock", call |-> "update", row |-> i, code |-> code, auto |-> FALSE,
                      area |-> area, seen |-> library[i]]
  <2>3. librarians' = [librarians EXCEPT ![l] = next] /\ UNCHANGED <<kind, library, lastCode>>
    BY <2>1 DEF BeginUpdateItem, OpenRequest
  <2>4. library[i] \in LibraryRow /\ library[i].version > 0
    BY <1>0, <2>1 DEF LibraryTypes, SeenKept, BeginUpdateItem
  <2>5. next \in UpdateRequest
    BY <2>2, <2>4 DEF UpdateRequest
  <2>6. next.step = "lock" /\ next.row = i /\ next.seen = library[i]
    OBVIOUS
  <2> HIDE DEF next
  <2>7. ~DrawnBy(next) /\ HeldBy(next) = {}
    BY <2>6 DEF DrawnBy, HeldBy
  <2>8. SeenBy(next)
    BY <2>4, <2>6 DEF SeenBy, LibraryRow
  <2> QED BY <2>3, <2>5, <2>7, <2>8, RequestMoves DEF LibraryRequests
<1>2. CASE LockItem(l)
  <2>1. CASE CloseRequest(l)
    BY <1>2, <2>1, ClosingKeeps DEF LockItem
  <2>2. CASE ~CloseRequest(l)
    <3>1. PICK r \in UpdateRequest : r = librarians[l]
      BY <1>0, <1>2 DEF LockItem, LibraryTypes, IdleLibrarian, CreateRequest, DeleteRequest
    <3> DEFINE next == [r EXCEPT !.step = "area"]
    <3>2. /\ librarians' = [librarians EXCEPT ![l] = next] /\ UNCHANGED <<kind, library, lastCode>>
          /\ ItemFree(l, r.row) /\ library[r.row].version = r.seen.version
      BY <1>2, <2>2, <3>1 DEF LockItem, Go
    <3>3. /\ next \in UpdateRequest /\ next.step = "area" /\ next.row = r.row /\ next.seen = r.seen
      BY DEF UpdateRequest
    <3> HIDE DEF next
    <3>4. HeldBy(next) = {r.row} /\ ~DrawnBy(next)
      BY <3>3 DEF HeldBy, DrawnBy
    <3>5. SeenBy(next)
      BY <1>0, <3>1, <3>2, <3>3 DEF SeenKept, SeenBy
    <3> QED BY <3>2, <3>3, <3>4, <3>5, RequestMoves DEF LibraryRequests
  <2> QED BY <2>1, <2>2
<1>3. CASE CheckArea(l)
  <2>1. CASE CloseRequest(l)
    BY <1>3, <2>1, ClosingKeeps DEF CheckArea
  <2>2. CASE ~CloseRequest(l)
    <3>1. PICK r \in UpdateRequest : r = librarians[l]
      BY <1>0, <1>3 DEF CheckArea, LibraryTypes, IdleLibrarian, CreateRequest, DeleteRequest
    <3>2. PICK code \in Nat : code = IF r.code = 0 THEN library[r.row].code ELSE r.code
      BY <1>0 DEF LibraryTypes, LibraryRow, UpdateRequest
    <3> DEFINE next == [r EXCEPT !.code = code, !.step = "available"]
    <3>3. [[r EXCEPT !.code = IF @ = 0 THEN library[r.row].code ELSE @] EXCEPT !.step = "available"] = next
      BY <3>2 DEF UpdateRequest
    <3>4. librarians' = [librarians EXCEPT ![l] = next] /\ UNCHANGED <<kind, library, lastCode>>
      BY <1>3, <2>2, <3>1, <3>3 DEF CheckArea, Go
    <3>5. /\ next \in UpdateRequest /\ next.step = "available" /\ next.row = r.row
          /\ next.seen = r.seen /\ next.call = "update" /\ ~next.auto
      BY <3>2 DEF UpdateRequest
    <3> HIDE DEF next
    <3>6. HeldBy(next) = {r.row} /\ ~DrawnBy(next)
      BY <3>5 DEF HeldBy, DrawnBy
    <3>7. HeldItems(l) = {r.row}
      BY <1>3, <3>1 DEF CheckArea, HeldItems
    <3>8. SeenBy(next)
      BY <1>0, <1>3, <3>1, <3>5 DEF CheckArea, SeenKept, SeenBy
    <3> QED BY <3>4, <3>5, <3>6, <3>7, <3>8, RequestMoves DEF LibraryRequests
  <2> QED BY <2>1, <2>2
<1> QED BY <1>1, <1>2, <1>3



\* An update is saved to a row that nobody else holds, under a new version if it changes it.
LEMMA SaveKeeps ==
  ASSUME LibraryInv, NEW l \in Librarians, SaveItem(l)
  PROVE  LibraryInv'
<1>0. LibraryTypes /\ SeenKept
  BY DEF LibraryInv
<1>1. kind' = kind
  BY DEF SaveItem
<1>2. CASE Refuse(l)
  BY <1>1, <1>2, RefusalKeeps
<1>3. CASE ~Refuse(l)
  <2>1. PICK r \in UpdateRequest : r = librarians[l]
    BY <1>0, RequestTypes DEF SaveItem
  <2>2. r.row \in Items /\ r.code \in Nat /\ r.area \in Areas \cup {NoArea}
    BY DEF UpdateRequest
  <2>3. PICK row \in LibraryRow : row = library[r.row]
    BY <1>0, <2>2 DEF LibraryTypes
  <2> DEFINE typed == row.typed \/ r.code # row.code
             changed == [row EXCEPT !.code = r.code, !.typed = typed, !.area = r.area]
  <2>4. PICK up \in IF changed = row THEN {0, 1} ELSE {1} :
           library' = [library EXCEPT ![r.row] = [changed EXCEPT !.version = @ + up]]
    BY <1>3, <2>1, <2>3 DEF SaveItem
  <2>5. CloseRequest(l) /\ lastCode' = lastCode
    BY <1>3 DEF SaveItem
  <2> DEFINE new == [changed EXCEPT !.version = @ + up]
  <2>6. row.version + up \in Nat /\ up \in {0, 1}
    BY DEF LibraryRow
  <2>7. changed.version = row.version
    BY DEF LibraryRow
  <2>8. new = [changed EXCEPT !.version = row.version + up]
    BY <2>7
  <2>9. /\ new \in LibraryRow
        /\ new.version = row.version + up /\ new.live = row.live /\ new.code = r.code
        /\ new.typed = typed
    <3>1. PICK version \in Nat : version = row.version + up
      BY <2>6
    <3>2. typed \in BOOLEAN
      OBVIOUS
    <3>3. new = [[row EXCEPT !.code = r.code, !.typed = typed, !.area = r.area] EXCEPT !.version = version]
      BY <2>8, <3>1
    <3> HIDE DEF typed, new, changed
    <3>4. PICK t \in BOOLEAN : t = typed
      BY <3>2
    <3>5. new = [[row EXCEPT !.code = r.code, !.typed = t, !.area = r.area] EXCEPT !.version = version]
      BY <3>3, <3>4
    <3>6. /\ new \in LibraryRow
          /\ new.code = r.code /\ new.typed = t /\ new.version = version /\ new.live = row.live
      BY <2>2, <3>5 DEF LibraryRow
    <3> QED BY <3>1, <3>4, <3>6
  <2>10. ~new.typed => ~row.typed /\ new.code = row.code
    <3> HIDE DEF new
    <3> QED BY <2>9
  <2>11. up = 0 => new = row
    <3> SUFFICES ASSUME up = 0 PROVE new = row
      OBVIOUS
    <3>1. changed = row
      BY <2>4
    <3> HIDE DEF changed
    <3>2. new = [row EXCEPT !.version = row.version + 0] /\ row.version + 0 = row.version
      BY <3>1 DEF LibraryRow
    <3>3. [row EXCEPT !.version = row.version] = row
      <4>1. PICK c, t, a, v, b : row = [code |-> c, typed |-> t, area |-> a, version |-> v, live |-> b]
        BY DEF LibraryRow
      <4> QED BY <4>1
    <3>4. [row EXCEPT !.version = row.version + 0] = row
      BY <3>2, <3>3
    <3> QED BY <3>2, <3>4, Zenon
  <2>12. library' = [library EXCEPT ![r.row] = new]
    BY <2>4
  <2> HIDE DEF new, changed
  <2>13. library'[r.row] = new /\ \A j \in Items \ {r.row} : library'[j] = library[j]
    BY <1>0, <2>2, <2>12 DEF LibraryTypes
  <2>14. library' \in [Items -> LibraryRow]
    BY <1>0, <2>9, <2>12 DEF LibraryTypes
  <2>15. r.row \in HeldItems(l)
    BY <2>1 DEF SaveItem, HeldItems
  <2>16. row.version \in Nat
    BY DEF LibraryRow
  <2>17. up = 1 => new.version > row.version
    BY <2>9, <2>16
  <2>18. \A j \in Items : library'[j].live => library'[j].version > 0
    BY <1>0, <2>3, <2>6, <2>9, <2>13, <2>16 DEF SeenKept
  <2>19. \A j \in Items : ~library'[j].typed =>
            \/ ~library[j].typed /\ library'[j].code = library[j].code
            \/ DrawnBy(librarians[l]) /\ library'[j].code = librarians[l].code
    BY <2>3, <2>9, <2>10, <2>13
  <2>20. \A j \in Items :
            \/ library'[j] = library[j]
            \/ /\ library'[j].version > library[j].version
               /\ \A o \in Librarians \ {l} :
                     librarians[o] \in UpdateRequest /\ librarians[o].row = j => librarians[o].step = "lock"
    BY <2>3, <2>6, <2>11, <2>13, <2>15, <2>17, HeldAlone
  <2> QED BY <1>1, <2>5, <2>14, <2>18, <2>19, <2>20, RequestEnds
<1> QED BY <1>2, <1>3

\* A deletion locks its rows one by one and deletes them under new versions.
LEMMA DeletionKeeps ==
  ASSUME LibraryInv, NEW l \in Librarians,
         \/ \E rows \in SUBSET Items \ {{}} : BeginDeleteItems(l, rows)
         \/ \E i \in Items : MarkItem(l, i)
         \/ RemoveItems(l)
  PROVE  LibraryInv'
<1>0. LibraryTypes /\ SeenKept
  BY DEF LibraryInv
<1>1. ASSUME NEW rows \in SUBSET Items \ {{}}, BeginDeleteItems(l, rows)
      PROVE  LibraryInv'
  <2> DEFINE next == [step |-> "delete", call |-> "delete", rows |-> rows, held |-> {}]
  <2>1. librarians' = [librarians EXCEPT ![l] = next] /\ UNCHANGED <<kind, library, lastCode>>
    BY <1>1 DEF BeginDeleteItems, OpenRequest
  <2>2. next \in DeleteRequest /\ ~DrawnBy(next) /\ HeldBy(next) = {} /\ next \notin UpdateRequest
    BY DEF DeleteRequest, DrawnBy, HeldBy, UpdateRequest
  <2> HIDE DEF next
  <2> QED BY <2>1, <2>2, RequestMoves DEF LibraryRequests
<1>2. ASSUME NEW i \in Items, MarkItem(l, i)
      PROVE  LibraryInv'
  <2>1. PICK r \in DeleteRequest : r = librarians[l]
    BY <1>0, <1>2, RequestTypes DEF MarkItem
  <2> DEFINE next == [r EXCEPT !.held = @ \cup {i}]
  <2>2. librarians' = [librarians EXCEPT ![l] = next] /\ UNCHANGED <<kind, library, lastCode>>
    BY <1>0, <1>2, <2>1 DEF MarkItem, LibraryTypes
  <2>3. next \in DeleteRequest /\ next.step = "delete" /\ next.held = r.held \cup {i}
    BY DEF DeleteRequest
  <2> HIDE DEF next
  <2>4. ~DrawnBy(next) /\ HeldBy(next) = r.held \cup {i} /\ next \notin UpdateRequest
    BY <2>3 DEF DrawnBy, HeldBy, UpdateRequest
  <2>5. HeldItems(l) = r.held
    BY <1>2, <2>1 DEF MarkItem, HeldItems
  <2>6. ItemFree(l, i)
    BY <1>2 DEF MarkItem
  <2> QED BY <2>2, <2>3, <2>4, <2>5, <2>6, RequestMoves DEF LibraryRequests
<1>3. CASE RemoveItems(l)
  <2>1. PICK r \in DeleteRequest : r = librarians[l]
    BY <1>0, <1>3, RequestTypes DEF RemoveItems
  <2>2. HeldItems(l) = r.rows
    BY <1>3, <2>1 DEF RemoveItems, HeldItems
  <2>3. /\ library' = [i \in Items |-> IF i \in r.rows
                          THEN [library[i] EXCEPT !.live = FALSE, !.version = @ + 2]
                          ELSE library[i]]
        /\ CloseRequest(l) /\ kind' = kind /\ lastCode' = lastCode
    BY <1>3, <2>1 DEF RemoveItems
  <2>4. ASSUME NEW i \in Items
        PROVE  LET new == [library[i] EXCEPT !.version = @ + 2, !.live = FALSE]
               IN  /\ new \in LibraryRow
                   /\ new.version > library[i].version /\ ~new.live
                   /\ new.typed = library[i].typed /\ new.code = library[i].code
    <3>1. PICK row \in LibraryRow : row = library[i]
      BY <1>0 DEF LibraryTypes
    <3>2. PICK version \in Nat : version = row.version + 2 /\ version > row.version
      BY DEF LibraryRow
    <3> DEFINE new == [row EXCEPT !.version = version, !.live = FALSE]
    <3>3. new = [library[i] EXCEPT !.version = @ + 2, !.live = FALSE]
      BY <3>1, <3>2
    <3>4. /\ new \in LibraryRow
          /\ new.version = version /\ ~new.live /\ new.typed = row.typed /\ new.code = row.code
      BY DEF LibraryRow
    <3> HIDE DEF new
    <3> QED BY <3>1, <3>2, <3>3, <3>4
  <2>5. \A i \in Items : IF i \in r.rows
                         THEN /\ library'[i] \in LibraryRow
                              /\ library'[i].version > library[i].version /\ ~library'[i].live
                              /\ library'[i].typed = library[i].typed
                              /\ library'[i].code = library[i].code
                         ELSE library'[i] = library[i]
    BY <2>3, <2>4
  <2>6. library' = [i \in Items |-> library'[i]]
    BY <2>3
  <2>7. library' \in [Items -> LibraryRow]
    BY <1>0, <2>5, <2>6 DEF LibraryTypes
  <2>8. \A i \in Items : library'[i].live => library'[i].version > 0
    BY <1>0, <2>5 DEF SeenKept
  <2>9. \A i \in Items : ~library'[i].typed => ~library[i].typed /\ library'[i].code = library[i].code
    BY <2>5
  <2>10. \A i \in Items :
            \/ library'[i] = library[i]
            \/ /\ library'[i].version > library[i].version
               /\ \A o \in Librarians \ {l} :
                     librarians[o] \in UpdateRequest /\ librarians[o].row = i => librarians[o].step = "lock"
    BY <2>2, <2>5, HeldAlone
  <2> QED BY <2>3, <2>7, <2>8, <2>9, <2>10, RequestEnds
<1> QED BY <1>1, <1>2, <1>3

\* Every step keeps the invariant.
LEMMA LibraryStep == LibraryInv /\ (LibraryNext \/ UNCHANGED libraryVars) => LibraryInv'
<1> SUFFICES ASSUME LibraryInv, LibraryNext \/ UNCHANGED libraryVars PROVE LibraryInv'
  OBVIOUS
<1>1. CASE UNCHANGED <<kind, library, lastCode, librarians>>
  BY <1>1 DEF LibraryInv, LibraryTypes, DrawnCodesFree, CounterSound, RowsLocked, SeenKept,
              HoldsCounter, HeldItems
<1>2. CASE UNCHANGED libraryVars
  BY <1>1, <1>2 DEF libraryVars
<1>3. ASSUME NEW area \in Areas, ToggleArea(area)
      PROVE  LibraryInv'
  BY <1>1, <1>3 DEF ToggleArea
<1>4. ASSUME NEW l \in Librarians, AbandonRequest(l)
      PROVE  LibraryInv'
  BY <1>4, RefusalKeeps DEF AbandonRequest
<1> QED BY <1>2, <1>3, <1>4, CreationKeeps, DrawKeeps, CheckKeeps, InsertKeeps, UpdateKeeps,
           SaveKeeps, DeletionKeeps DEF LibraryNext

\* A row that a save writes is the one its client has seen.
LEMMA LibraryKept == LibraryInv => ResourcesSound
<1> SUFFICES ASSUME LibraryInv PROVE SavedAsSeen
  BY DEF LibraryInv, ResourcesSound
<1> SUFFICES ASSUME NEW l \in Librarians, librarians[l].step = "save"
             PROVE  library[librarians[l].row] = librarians[l].seen
  BY DEF SavedAsSeen
<1>1. librarians[l] \in UpdateRequest
  BY DEF LibraryInv, LibraryTypes, IdleLibrarian, CreateRequest, DeleteRequest
<1> QED BY <1>1 DEF LibraryInv, SeenKept

\* Two creators of resources never draw the same code, whatever is refused or undone meanwhile,
\* and an update is saved over nothing but what its client has seen
\* (common/business-code.ts and the services of resources).
THEOREM ResourcesStaySound == BackOfficeSpec => []ResourcesSound
<1>1. BackOfficeInit => LibraryInv
  BY LibraryStart DEF BackOfficeInit
<1>2. LibraryInv /\ [BackOfficeNext]_backVars => LibraryInv'
  BY LibraryStep, ResourcesAlone
<1> QED BY <1>1, <1>2, LibraryKept, PTL DEF BackOfficeSpec
-----------------------------------------------------------------------------
(* The Shengxu ledgers *)

\* A step of the back office is a step of the ledgers or leaves them as they are.
LEMMA ShengxuAlone == [BackOfficeNext]_backVars => ShengxuNext \/ UNCHANGED shengxuVars
BY DEF BackOfficeNext, AgenciesStep, NumbersStep, AlertsStep, ReportsStep, VisitsStep,
       ShengxuStep, DictionariesStep, ResourcesStep, ReleaseStep, backVars

\* The first state, and the one of ledgers that are shut, satisfy the invariant.
LEMMA ShengxuStart == ShengxuInit \/ ShengxuShut => ShengxuInv
<1> SUFFICES ASSUME ShengxuInit \/ ShengxuShut PROVE ShengxuInv
  OBVIOUS
<1>1. \A w \in LedgerWriters : scribes[w].step = "idle"
  BY DEF ShengxuInit, ShengxuShut, IdleScribe
<1>2. LedgerWriters \ Busy({"idle"}) = {}
  BY <1>1 DEF Busy
<1>3. houses \in [Houses -> HouseRow]
  BY FirstOwnerAssumption DEF ShengxuInit, ShengxuShut, HouseRow, Actors
<1>4. /\ persons \in [Persons -> PersonRow] /\ staff \subseteq Coordinators
      /\ sheets \in [Sheets -> {NoSheet} \union SheetRow]
      /\ scribes \in [LedgerWriters -> {IdleScribe} \union WriteCall \union RemoveCall]
  <2>1. NoPerson \in PersonRow /\ [name |-> 1, live |-> TRUE] \in PersonRow
    BY DEF PersonRow, NoPerson
  <2>2. persons \in [Persons -> PersonRow]
    BY <2>1 DEF ShengxuInit, ShengxuShut
  <2>3. staff \subseteq Coordinators
    BY DEF ShengxuInit, ShengxuShut
  <2>4. /\ sheets = [s \in Sheets |-> NoSheet]
        /\ scribes = [w \in LedgerWriters |-> IdleScribe]
    BY DEF ShengxuInit, ShengxuShut
  <2> QED BY <2>2, <2>3, <2>4
<1> QED BY <1>2, <1>3, <1>4 DEF ShengxuInv, ShengxuTypes

\* What a call is, by its step.
LEMMA CallTypes ==
  ASSUME ShengxuTypes, NEW w \in LedgerWriters, scribes[w].step # "idle"
  PROVE  /\ scribes[w] \in WriteCall \union RemoveCall
         /\ scribes[w].step \in {"house", "person", "owner", "write"} => scribes[w] \in WriteCall
         /\ scribes[w].step = "remove" => scribes[w] \in RemoveCall
BY DEF ShengxuTypes, IdleScribe, WriteCall, RemoveCall

\* A call goes on, and no table is written: what it says of its rows is so, and of two calls
\* about one ledger neither creates it and one waits.
LEMMA CallMoves ==
  ASSUME ShengxuInv, NEW w \in LedgerWriters, NEW next \in WriteCall \union RemoveCall,
         scribes' = [scribes EXCEPT ![w] = next], UnchangedData,
         RowCurrent(next), SharesCurrent(next),
         \A v \in LedgerWriters \ Busy({"idle"}) : v # w => Apart(next, scribes[v])
  PROVE  ShengxuInv'
<1>0. ShengxuTypes
  BY DEF ShengxuInv
<1>1. /\ scribes'[w] = next
      /\ \A v \in LedgerWriters \ {w} : scribes'[v] = scribes[v]
  BY <1>0 DEF ShengxuTypes
<1>2. ShengxuTypes'
  BY <1>0 DEF ShengxuTypes, UnchangedData
<1>3. UNCHANGED <<houses, persons, staff, sheets>>
  BY DEF UnchangedData
<1>4. \A v \in (LedgerWriters \ Busy({"idle"}))' : v = w \/ v \in LedgerWriters \ Busy({"idle"})
  BY <1>1 DEF Busy
<1>5. \A v \in (LedgerWriters \ Busy({"idle"}))' : (RowCurrent(scribes[v]) /\ SharesCurrent(scribes[v]))'
  <2>1. (RowCurrent(scribes[w]) /\ SharesCurrent(scribes[w]))'
    <3>1. RowCurrent(scribes[w])'
      BY <1>1, <1>3 DEF RowCurrent
    <3>2. PICK t : t = scribes'[w] /\ SharesCurrent(t)
      BY <1>1
    <3> QED BY <1>3, <3>1, <3>2 DEF SharesCurrent
  <2>2. ASSUME NEW v \in LedgerWriters \ {w}, v \in LedgerWriters \ Busy({"idle"})
        PROVE  (RowCurrent(scribes[v]) /\ SharesCurrent(scribes[v]))'
    <3>1. RowCurrent(scribes[v]) /\ SharesCurrent(scribes[v])
      BY <2>2 DEF ShengxuInv
    <3> QED BY <1>1, <1>3, <3>1 DEF RowCurrent, SharesCurrent
  <2> QED BY <1>4, <2>1, <2>2 DEF Busy
<1>6. \A u, v \in (LedgerWriters \ Busy({"idle"}))' : u # v => Apart(scribes[u], scribes[v])'
  BY <1>1, <1>4 DEF ShengxuInv, Apart
<1> QED BY <1>2, <1>5, <1>6 DEF ShengxuInv

\* A call that ends and writes nothing leaves the rest.
LEMMA CallFinishes ==
  ASSUME ShengxuInv, NEW w \in LedgerWriters, Finish(w), UNCHANGED <<houses, persons, staff>>,
         sheets' \in [Sheets -> {NoSheet} \union SheetRow],
         \A s \in Sheets : sheets'[s] = sheets[s] \/ (scribes[w].step \notin {"idle", "lock"} /\ scribes[w].sheet = s)
  PROVE  ShengxuInv'
<1>0. ShengxuTypes
  BY DEF ShengxuInv
<1>1. /\ scribes'[w] = IdleScribe
      /\ \A v \in LedgerWriters \ {w} : scribes'[v] = scribes[v]
  BY <1>0 DEF ShengxuTypes, Finish
<1>2. ShengxuTypes'
  BY <1>0 DEF ShengxuTypes, Finish
<1>3. \A v \in (LedgerWriters \ Busy({"idle"}))' :
         v # w /\ v \in LedgerWriters \ Busy({"idle"}) /\ scribes'[v] = scribes[v]
  BY <1>1 DEF Busy, IdleScribe
<1>4. ASSUME NEW v \in (LedgerWriters \ Busy({"idle"}))'
      PROVE  (RowCurrent(scribes[v]) /\ SharesCurrent(scribes[v]))'
  <2>1. v # w /\ v \in LedgerWriters /\ scribes[v].step # "idle" /\ scribes'[v] = scribes[v]
    BY <1>3 DEF Busy
  <2>2. RowCurrent(scribes[v]) /\ SharesCurrent(scribes[v])
    BY <2>1 DEF ShengxuInv, Busy
  <2>3. scribes[v].sheet \in Sheets
    BY <1>0, <2>1, CallTypes DEF WriteCall, RemoveCall
  <2>4. CASE sheets'[scribes[v].sheet] = sheets[scribes[v].sheet]
    BY <2>1, <2>2, <2>4 DEF RowCurrent, SharesCurrent
  <2>5. CASE scribes[w].step \notin {"idle", "lock"} /\ scribes[w].sheet = scribes[v].sheet
    <3>1. Apart(scribes[w], scribes[v])
      BY <2>1, <2>5 DEF ShengxuInv, Busy
    <3>2. scribes[v].step = "lock" /\ scribes[v].call # "create"
      BY <2>5, <3>1 DEF Apart
    <3> QED BY <2>1, <3>2 DEF RowCurrent, SharesCurrent
  <2> QED BY <2>3, <2>4, <2>5
<1>5. \A u, v \in (LedgerWriters \ Busy({"idle"}))' : u # v => Apart(scribes[u], scribes[v])'
  BY <1>3 DEF ShengxuInv, Apart
<1> QED BY <1>2, <1>4, <1>5 DEF ShengxuInv

\* A call that ends and changes no table.
LEMMA CallStops ==
  ASSUME ShengxuInv, NEW w \in LedgerWriters, Finish(w), UnchangedData
  PROVE  ShengxuInv'
<1>1. sheets' \in [Sheets -> {NoSheet} \union SheetRow]
  BY DEF ShengxuInv, ShengxuTypes, UnchangedData
<1>2. \A s \in Sheets : sheets'[s] = sheets[s] \/ (scribes[w].step \notin {"idle", "lock"} /\ scribes[w].sheet = s)
  BY DEF UnchangedData
<1>3. UNCHANGED <<houses, persons, staff>>
  BY DEF UnchangedData
<1> QED BY <1>1, <1>2, <1>3, CallFinishes

\* A form is opened, or the wish to delete a ledger arises.
LEMMA CallOpens ==
  ASSUME ShengxuInv, NEW w \in LedgerWriters, NEW a \in Actors, NEW s \in Sheets,
         \/ \E h \in Houses, p \in Persons, d \in SheetDates, c \in BOOLEAN : OpenSheet(w, a, s, h, p, d, c)
         \/ AskDelete(w, a, s)
  PROVE  ShengxuInv'
<1>0. ShengxuTypes
  BY DEF ShengxuInv
<1>1. sheets[s].version \in Nat
  BY <1>0 DEF ShengxuTypes, SheetRow, NoSheet
<1>2. \A v \in LedgerWriters \ Busy({"idle"}) : scribes[v].call = "create" =>
         sheets[scribes[v].sheet] = NoSheet
  BY DEF ShengxuInv, RowCurrent
<1>3. ASSUME NEW h \in Houses, NEW p \in Persons, NEW d \in SheetDates, NEW c \in BOOLEAN,
             OpenSheet(w, a, s, h, p, d, c)
      PROVE  ShengxuInv'
  <2> DEFINE row == sheets[s]
             next == [step |-> IF row = NoSheet THEN "house" ELSE "lock",
                      call |-> IF row = NoSheet THEN "create" ELSE "update",
                      actor |-> a, sheet |-> s, seen |-> row.version, house |-> h, person |-> p,
                      date |-> d, converted |-> c, creator |-> a, houseName |-> 0, personName |-> 0,
                      newHouse |-> row = NoSheet \/ row.house # h,
                      newPerson |-> row = NoSheet \/ row.person # p]
  <2>1. scribes' = [scribes EXCEPT ![w] = next] /\ UnchangedData
    BY <1>3 DEF OpenSheet
  <2>2. /\ (IF row = NoSheet THEN "house" ELSE "lock") \in {"lock", "house", "person", "owner", "write"}
        /\ (IF row = NoSheet THEN "create" ELSE "update") \in {"create", "update"}
        /\ (row = NoSheet \/ row.house # h) \in BOOLEAN
        /\ (row = NoSheet \/ row.person # p) \in BOOLEAN
        /\ 0 \in Nat /\ row.version \in Nat
    BY <1>1
  <2>3. next \in WriteCall
    BY <2>2, Zenon DEF WriteCall
  <2>4. /\ next.sheet = s /\ next.creator = a /\ next.actor = a
        /\ next.step = IF sheets[s] = NoSheet THEN "house" ELSE "lock"
        /\ next.call = IF sheets[s] = NoSheet THEN "create" ELSE "update"
    OBVIOUS
  <2> HIDE DEF next
  <2>5. RowCurrent(next) /\ SharesCurrent(next)
    BY <2>4 DEF RowCurrent, SharesCurrent
  <2>6. sheets[s] = NoSheet => \A v \in LedgerWriters \ Busy({"idle"}) : scribes[v].sheet # s
    BY <1>3 DEF OpenSheet
  <2>7. \A v \in LedgerWriters \ Busy({"idle"}) : v # w => Apart(next, scribes[v])
    BY <1>2, <2>4, <2>6 DEF Apart
  <2> QED BY <2>1, <2>3, <2>5, <2>7, CallMoves
<1>4. CASE AskDelete(w, a, s)
  <2> DEFINE next == [step |-> "lock", call |-> "delete", actor |-> a, sheet |-> s, seen |-> sheets[s].version]
  <2>1. scribes' = [scribes EXCEPT ![w] = next] /\ UnchangedData /\ sheets[s] # NoSheet
    BY <1>4 DEF AskDelete
  <2>2. next \in RemoveCall
    BY <1>1 DEF RemoveCall
  <2>3. next.step = "lock" /\ next.call = "delete" /\ next.sheet = s
    OBVIOUS
  <2> HIDE DEF next
  <2>4. RowCurrent(next) /\ SharesCurrent(next)
    BY <2>3 DEF RowCurrent, SharesCurrent
  <2>5. \A v \in LedgerWriters \ Busy({"idle"}) : v # w => Apart(next, scribes[v])
    BY <1>2, <2>1, <2>3 DEF Apart
  <2> QED BY <2>1, <2>2, <2>4, <2>5, CallMoves
<1> QED BY <1>3, <1>4

\* A call locks its ledger, which nobody else has locked, at the version it has seen.
LEMMA LockingKeeps ==
  ASSUME ShengxuInv, NEW w \in LedgerWriters, LockSheet(w)
  PROVE  ShengxuInv'
<1>0. ShengxuTypes /\ scribes[w].step = "lock" /\ UnchangedData
  BY DEF ShengxuInv, LockSheet, At
<1>1. CASE Finish(w)
  BY <1>0, <1>1, CallStops
<1>2. CASE ~Finish(w)
  <2>1. /\ sheets[scribes[w].sheet] # NoSheet
        /\ sheets[scribes[w].sheet].version = scribes[w].seen
    BY <1>2 DEF LockSheet
  <2>2. RowCurrent(scribes[w]) /\ scribes[w].call # "create"
    BY <1>0 DEF ShengxuInv, Busy, RowCurrent
  <2>3. \A v \in LedgerWriters \ Busy({"idle"}) : v # w /\ scribes[v].sheet = scribes[w].sheet =>
           scribes[v].step = "lock" /\ scribes[v].call # "create"
    <3> SUFFICES ASSUME NEW v \in LedgerWriters \ Busy({"idle"}), v # w, scribes[v].sheet = scribes[w].sheet
                 PROVE  scribes[v].step = "lock" /\ scribes[v].call # "create"
      OBVIOUS
    <3>1. scribes[v].step # "idle"
      BY DEF Busy
    <3>2. v \notin Busy({"house", "person", "owner", "write", "remove"})
      BY DEF LockSheet, SheetHeld
    <3>3. scribes[v].step \in {"lock", "house", "person", "owner", "write", "remove"}
      BY <1>0, <3>1, CallTypes DEF WriteCall, RemoveCall
    <3>4. Apart(scribes[v], scribes[w])
      BY <1>0, <3>1 DEF ShengxuInv, Busy
    <3> QED BY <3>2, <3>3, <3>4 DEF Busy, Apart
  <2>4. CASE scribes[w].call = "delete"
    <3>1. PICK t \in RemoveCall : t = scribes[w]
      BY <1>0, <2>4, CallTypes DEF WriteCall
    <3> DEFINE next == [t EXCEPT !.step = "remove"]
    <3>2. scribes' = [scribes EXCEPT ![w] = next]
      BY <1>0, <1>2, <2>1, <2>4, <3>1 DEF LockSheet, Advance, ShengxuTypes
    <3>3. /\ next \in RemoveCall /\ next.step = "remove" /\ next.call = "delete"
          /\ next.sheet = t.sheet /\ next.seen = t.seen
      BY DEF RemoveCall
    <3> HIDE DEF next
    <3>4. RowCurrent(next) /\ SharesCurrent(next)
      BY <2>1, <3>1, <3>3 DEF RowCurrent, SharesCurrent
    <3>5. \A v \in LedgerWriters \ Busy({"idle"}) : v # w => Apart(next, scribes[v])
      BY <2>3, <3>1, <3>3 DEF Apart
    <3> QED BY <1>0, <3>2, <3>3, <3>4, <3>5, CallMoves
  <2>5. CASE scribes[w].call # "delete"
    <3>1. PICK t \in WriteCall : t = scribes[w] /\ t.call = "update"
      BY <1>0, <2>2, <2>5, CallTypes DEF WriteCall, RemoveCall
    <3>2. PICK row \in SheetRow : row = sheets[t.sheet]
      BY <1>0, <2>1, <3>1 DEF ShengxuTypes, WriteCall
    <3> DEFINE next == [t EXCEPT !.step = "house", !.creator = row.creator,
                                 !.houseName = row.houseName, !.personName = row.personName]
    <3>3. scribes' = [scribes EXCEPT ![w] = next]
      BY <1>2, <2>1, <2>5, <3>1, <3>2 DEF LockSheet
    <3>4. /\ next \in WriteCall /\ next.step = "house" /\ next.call = "update"
          /\ next.sheet = t.sheet /\ next.seen = t.seen /\ next.creator = row.creator
      BY <3>1 DEF WriteCall, SheetRow
    <3> HIDE DEF next
    <3>5. RowCurrent(next) /\ SharesCurrent(next)
      BY <2>1, <3>1, <3>2, <3>4 DEF RowCurrent, SharesCurrent
    <3>6. \A v \in LedgerWriters \ Busy({"idle"}) : v # w => Apart(next, scribes[v])
      BY <2>3, <3>1, <3>4 DEF Apart
    <3> QED BY <1>0, <3>3, <3>4, <3>5, <3>6, CallMoves
  <2> QED BY <2>4, <2>5
<1> QED BY <1>1, <1>2
\* A call keeps its ledger while it goes on with it.
LEMMA ApartStays ==
  ASSUME ShengxuInv, NEW w \in LedgerWriters, NEW next, scribes[w].step \notin {"idle", "lock"},
         next.sheet = scribes[w].sheet, next.call = scribes[w].call
  PROVE  \A v \in LedgerWriters \ Busy({"idle"}) : v # w => Apart(next, scribes[v])
BY DEF ShengxuInv, Busy, Apart

\* A newly chosen agency is locked as it is.
LEMMA SharingHouseKeeps ==
  ASSUME ShengxuInv, NEW w \in LedgerWriters, ShareHouse(w)
  PROVE  ShengxuInv'
<1>0. ShengxuTypes /\ scribes[w].step = "house" /\ UnchangedData
  BY DEF ShengxuInv, ShareHouse, At
<1>1. PICK t \in WriteCall : t = scribes[w]
  BY <1>0, CallTypes
<1>2. RowCurrent(t) /\ SharesCurrent(t)
  BY <1>0, <1>1 DEF ShengxuInv, Busy
<1>3. houses[t.house] \in HouseRow /\ t.house \in Houses /\ t.call \in {"create", "update"}
  BY <1>0 DEF ShengxuTypes, WriteCall
<1>4. CASE ~t.newHouse
  <2> DEFINE next == [t EXCEPT !.step = "person"]
  <2>1. scribes' = [scribes EXCEPT ![w] = next]
    BY <1>0, <1>1, <1>4 DEF ShareHouse, Advance, ShengxuTypes
  <2>2. /\ next \in WriteCall /\ next.step = "person" /\ next.call = t.call
        /\ next.sheet = t.sheet /\ next.seen = t.seen /\ next.creator = t.creator
        /\ ~next.newHouse
    BY <1>4 DEF WriteCall
  <2> HIDE DEF next
  <2>3. RowCurrent(next) /\ SharesCurrent(next)
    BY <1>0, <1>1, <1>2, <2>2 DEF RowCurrent, SharesCurrent
  <2> QED BY <1>0, <1>1, <2>1, <2>2, <2>3, CallMoves, ApartStays
<1>5. CASE t.newHouse /\ ~HouseValid(t.house, t)
  BY <1>0, <1>1, <1>5, CallStops DEF ShareHouse
<1>6. CASE t.newHouse /\ HouseValid(t.house, t)
  <2>1. PICK h \in HouseRow : h = houses[t.house]
    BY <1>3
  <2>2. PICK creator \in Actors :
           creator = IF t.call = "create" /\ t.actor = Root THEN h.owner ELSE t.creator
    BY DEF WriteCall, HouseRow
  <2> DEFINE next == [t EXCEPT !.step = "person", !.houseName = h.name, !.creator = creator]
  <2>3. scribes' = [scribes EXCEPT ![w] = next]
    <3>1. scribes' = [scribes EXCEPT ![w] = [t EXCEPT !.step = "person", !.houseName = houses[t.house].name,
              !.creator = IF t.call = "create" /\ t.actor = Root THEN houses[t.house].owner ELSE @]]
      BY <1>1, <1>6 DEF ShareHouse
    <3> QED BY <2>1, <2>2, <3>1 DEF WriteCall
  <2>4. /\ next \in WriteCall /\ next.step = "person" /\ next.call = t.call
        /\ next.sheet = t.sheet /\ next.seen = t.seen /\ next.creator = creator
        /\ next.house = t.house /\ next.houseName = h.name
    BY <2>1 DEF WriteCall, HouseRow
  <2> HIDE DEF next
  <2>5. h.status = "enabled" /\ h.owner = creator
    <3>1. h.status = "enabled" /\ OwnerFits(t.house, t.actor, sheets[t.sheet])
      BY <1>6, <2>1 DEF HouseValid
    <3>2. CASE t.call = "create"
      BY <1>0, <1>1, <1>2, <2>1, <2>2, <3>1, <3>2 DEF RowCurrent, OwnerFits
    <3>3. CASE t.call = "update"
      BY <1>0, <1>1, <1>2, <2>1, <2>2, <3>1, <3>3 DEF RowCurrent, OwnerFits
    <3> QED BY <1>3, <3>1, <3>2, <3>3
  <2>6. h = [name |-> h.name, owner |-> creator, status |-> "enabled"]
    BY <2>5 DEF HouseRow
  <2>7. SharesCurrent(next)
    BY <2>1, <2>4, <2>6 DEF SharesCurrent
  <2>8. RowCurrent(next)
    BY <1>0, <1>1, <1>2, <2>2, <2>4 DEF RowCurrent
  <2> QED BY <1>0, <1>1, <2>3, <2>4, <2>7, <2>8, CallMoves, ApartStays
<1> QED BY <1>4, <1>5, <1>6

\* So is a newly chosen contact.
LEMMA SharingPersonKeeps ==
  ASSUME ShengxuInv, NEW w \in LedgerWriters, SharePerson(w)
  PROVE  ShengxuInv'
<1>0. ShengxuTypes /\ scribes[w].step = "person" /\ UnchangedData
  BY DEF ShengxuInv, SharePerson, At
<1>1. PICK t \in WriteCall : t = scribes[w]
  BY <1>0, CallTypes
<1>2. RowCurrent(t) /\ SharesCurrent(t)
  BY <1>0, <1>1 DEF ShengxuInv, Busy
<1>3. persons[t.person] \in PersonRow /\ t.person \in Persons
  BY <1>0 DEF ShengxuTypes, WriteCall
<1>4. PICK step \in {"owner", "write"} : step = IF t.call = "create" THEN "owner" ELSE "write"
  OBVIOUS
<1>5. CASE ~t.newPerson
  <2> DEFINE next == [t EXCEPT !.step = step]
  <2>1. scribes' = [scribes EXCEPT ![w] = next]
    BY <1>0, <1>1, <1>4, <1>5 DEF SharePerson, Advance, ShengxuTypes
  <2>2. /\ next \in WriteCall /\ next.step = step /\ next.call = t.call
        /\ next.sheet = t.sheet /\ next.seen = t.seen /\ next.creator = t.creator
        /\ next.newHouse = t.newHouse /\ next.house = t.house /\ next.houseName = t.houseName
        /\ ~next.newPerson
    BY <1>5 DEF WriteCall
  <2> HIDE DEF next
  <2>3. RowCurrent(next) /\ SharesCurrent(next)
    BY <1>0, <1>1, <1>2, <1>4, <2>2 DEF RowCurrent, SharesCurrent
  <2> QED BY <1>0, <1>1, <2>1, <2>2, <2>3, CallMoves, ApartStays
<1>6. CASE t.newPerson /\ ~persons[t.person].live
  BY <1>0, <1>1, <1>6, CallStops DEF SharePerson
<1>7. CASE t.newPerson /\ persons[t.person].live
  <2>1. PICK p \in PersonRow : p = persons[t.person]
    BY <1>3
  <2> DEFINE next == [t EXCEPT !.step = step, !.personName = p.name]
  <2>2. scribes' = [scribes EXCEPT ![w] = next]
    BY <1>1, <1>4, <1>7, <2>1 DEF SharePerson
  <2>3. /\ next \in WriteCall /\ next.step = step /\ next.call = t.call
        /\ next.sheet = t.sheet /\ next.seen = t.seen /\ next.creator = t.creator
        /\ next.newHouse = t.newHouse /\ next.house = t.house /\ next.houseName = t.houseName
        /\ next.person = t.person /\ next.personName = p.name
    BY <2>1 DEF WriteCall, PersonRow
  <2> HIDE DEF next
  <2>4. p = [name |-> p.name, live |-> TRUE]
    BY <1>7, <2>1 DEF PersonRow
  <2>5. SharesCurrent(next)
    BY <1>0, <1>1, <1>2, <1>4, <2>1, <2>3, <2>4 DEF SharesCurrent
  <2>6. RowCurrent(next)
    BY <1>0, <1>1, <1>2, <1>4, <2>3 DEF RowCurrent
  <2> QED BY <1>0, <1>1, <2>2, <2>3, <2>5, <2>6, CallMoves, ApartStays
<1> QED BY <1>5, <1>6, <1>7

\* The creator of a new ledger is a coordinator when it is locked.
LEMMA SharingOwnerKeeps ==
  ASSUME ShengxuInv, NEW w \in LedgerWriters, ShareOwner(w)
  PROVE  ShengxuInv'
<1>0. ShengxuTypes /\ scribes[w].step = "owner" /\ UnchangedData
  BY DEF ShengxuInv, ShareOwner, At
<1>1. PICK t \in WriteCall : t = scribes[w]
  BY <1>0, CallTypes
<1>2. RowCurrent(t) /\ SharesCurrent(t)
  BY <1>0, <1>1 DEF ShengxuInv, Busy
<1>3. CASE t.creator \notin staff
  BY <1>0, <1>1, <1>3, CallStops DEF ShareOwner
<1>4. CASE t.creator \in staff
  <2> DEFINE next == [t EXCEPT !.step = "write"]
  <2>1. scribes' = [scribes EXCEPT ![w] = next]
    BY <1>0, <1>1, <1>4 DEF ShareOwner, Advance, ShengxuTypes
  <2>2. /\ next \in WriteCall /\ next.step = "write" /\ next.call = t.call
        /\ next.sheet = t.sheet /\ next.seen = t.seen /\ next.creator = t.creator
        /\ next.newHouse = t.newHouse /\ next.house = t.house /\ next.houseName = t.houseName
        /\ next.newPerson = t.newPerson /\ next.person = t.person /\ next.personName = t.personName
    BY DEF WriteCall
  <2> HIDE DEF next
  <2>3. RowCurrent(next) /\ SharesCurrent(next)
    BY <1>0, <1>1, <1>2, <1>4, <2>2 DEF RowCurrent, SharesCurrent
  <2> QED BY <1>0, <1>1, <2>1, <2>2, <2>3, CallMoves, ApartStays
<1> QED BY <1>3, <1>4

\* A call that ends writes at most the ledger it has locked.
LEMMA SheetWritesKeep ==
  ASSUME ShengxuInv, NEW w \in LedgerWriters, WriteSheet(w) \/ RemoveSheet(w)
  PROVE  ShengxuInv'
<1>0. ShengxuTypes
  BY DEF ShengxuInv
<1>1. CASE WriteSheet(w)
  <2>1. PICK t \in WriteCall : t = scribes[w] /\ t.step = "write"
    BY <1>0, <1>1, CallTypes DEF WriteSheet, At
  <2> DEFINE row == [date |-> t.date, creator |-> t.creator, house |-> t.house, person |-> t.person,
               houseName |-> t.houseName, personName |-> t.personName,
               converted |-> t.converted, version |-> t.seen + 1]
  <2>2. t.seen + 1 \in Nat /\ t.sheet \in Sheets
    BY DEF WriteCall
  <2>3. row \in SheetRow
    BY <2>2 DEF WriteCall, SheetRow
  <2>4. sheets' = sheets \/ sheets' = [sheets EXCEPT ![t.sheet] = row]
    BY <1>1, <2>1 DEF WriteSheet
  <2> HIDE DEF row
  <2>5. sheets' \in [Sheets -> {NoSheet} \union SheetRow]
    BY <1>0, <2>3, <2>4 DEF ShengxuTypes
  <2>6. \A s \in Sheets : sheets'[s] = sheets[s]
                            \/ (scribes[w].step \notin {"idle", "lock"} /\ scribes[w].sheet = s)
    <3>1. scribes[w].step \notin {"idle", "lock"} /\ scribes[w].sheet = t.sheet
      BY <2>1
    <3>2. \A s \in Sheets \ {t.sheet} : sheets'[s] = sheets[s]
      BY <1>0, <2>4 DEF ShengxuTypes
    <3> QED BY <3>1, <3>2
  <2>7. Finish(w) /\ UNCHANGED <<houses, persons, staff>>
    BY <1>1 DEF WriteSheet
  <2> QED BY <2>5, <2>6, <2>7, CallFinishes
<1>2. CASE RemoveSheet(w)
  <2>1. PICK t \in RemoveCall : t = scribes[w] /\ t.step = "remove"
    BY <1>0, <1>2, CallTypes DEF RemoveSheet, At
  <2>2. sheets' = sheets \/ sheets' = [sheets EXCEPT ![t.sheet] = NoSheet]
    BY <1>2, <2>1 DEF RemoveSheet
  <2>3. sheets' \in [Sheets -> {NoSheet} \union SheetRow]
    BY <1>0, <2>2 DEF ShengxuTypes
  <2>4. \A s \in Sheets : sheets'[s] = sheets[s]
                            \/ (scribes[w].step \notin {"idle", "lock"} /\ scribes[w].sheet = s)
    <3>1. scribes[w].step \notin {"idle", "lock"} /\ scribes[w].sheet = t.sheet
      BY <2>1
    <3>2. \A s \in Sheets \ {t.sheet} : sheets'[s] = sheets[s]
      BY <1>0, <2>2 DEF ShengxuTypes
    <3> QED BY <3>1, <3>2
  <2>5. Finish(w) /\ UNCHANGED <<houses, persons, staff>>
    BY <1>2 DEF RemoveSheet
  <2> QED BY <2>3, <2>4, <2>5, CallFinishes
<1> QED BY <1>1, <1>2

\* An edit of another table leaves every row that a call has locked for its choices.
LEMMA EditsKeep ==
  ASSUME ShengxuInv, UNCHANGED <<sheets, scribes>>,
         houses' \in [Houses -> HouseRow], persons' \in [Persons -> PersonRow], staff' \subseteq staff,
         \A h \in Houses : HouseShared(h) => houses'[h] = houses[h],
         \A p \in Persons : PersonShared(p) => persons'[p] = persons[p],
         \A u \in staff : UserShared(u) => u \in staff'
  PROVE  ShengxuInv'
<1>0. ShengxuTypes /\ ShengxuTypes'
  BY DEF ShengxuInv, ShengxuTypes
<1>1. ASSUME NEW w \in LedgerWriters, scribes[w].step # "idle"
      PROVE  (RowCurrent(scribes[w]) /\ SharesCurrent(scribes[w]))'
  <2>1. RowCurrent(scribes[w]) /\ SharesCurrent(scribes[w])
    BY <1>1 DEF ShengxuInv, Busy
  <2>2. RowCurrent(scribes[w])'
    BY <2>1 DEF RowCurrent
  <2>3. CASE scribes[w].step \notin {"person", "owner", "write"}
    <3>1. scribes'[w].step \notin {"person", "owner", "write"}
      BY <2>3
    <3> QED BY <2>2, <3>1 DEF SharesCurrent
  <2>4. CASE scribes[w].step \in {"person", "owner", "write"}
    <3>1. PICK t \in WriteCall : t = scribes[w]
      BY <1>0, <1>1, <2>4, CallTypes
    <3>2. t.house \in Houses /\ t.person \in Persons
      BY DEF WriteCall
    <3>3. t.newHouse => HouseShared(t.house)
      BY <2>4, <3>1 DEF HouseShared, Busy
    <3>4. t.step \in {"owner", "write"} /\ t.newPerson => PersonShared(t.person)
      BY <3>1 DEF PersonShared, Busy
    <3>5. t.step = "write" /\ t.call = "create" => UserShared(t.creator)
      BY <3>1 DEF UserShared, Busy
    <3> QED BY <2>1, <2>2, <3>1, <3>2, <3>3, <3>4, <3>5 DEF SharesCurrent
  <2> QED BY <2>2, <2>3, <2>4
<1>2. (LedgerWriters \ Busy({"idle"}))' = LedgerWriters \ Busy({"idle"})
  BY DEF Busy
<1>3. \A w \in LedgerWriters \ Busy({"idle"}) : scribes[w].step # "idle"
  BY DEF Busy
<1>4. \A u, v \in (LedgerWriters \ Busy({"idle"}))' : u # v => Apart(scribes[u], scribes[v])'
  BY <1>2 DEF ShengxuInv, Apart
<1> QED BY <1>0, <1>1, <1>2, <1>3, <1>4 DEF ShengxuInv

\* The edits of agencies.
LEMMA HouseEditsKeep ==
  ASSUME ShengxuInv, NEW h \in Houses,
         \/ \E n \in 1..(MaxEdits + 1), u \in Coordinators, t \in {"enabled", "disabled"} : EditHouse(h, n, u, t)
         \/ DeleteHouse(h)
  PROVE  ShengxuInv'
<1>0. ShengxuTypes
  BY DEF ShengxuInv
<1>1. ~HouseShared(h) /\ UNCHANGED <<staff, sheets, scribes>>
  BY DEF EditHouse, DeleteHouse, HouseFree
<1>2. PICK row \in HouseRow : row = houses[h]
  BY <1>0 DEF ShengxuTypes
<1>3. ASSUME NEW n \in 1..(MaxEdits + 1), NEW u \in Coordinators, NEW t \in {"enabled", "disabled"},
             EditHouse(h, n, u, t)
      PROVE  ShengxuInv'
  <2>1. n \in Nat
    BY <1>2, <1>3 DEF EditHouse, HouseRow
  <2>2. [name |-> n, owner |-> u, status |-> t] \in HouseRow
    BY <2>1 DEF HouseRow, Actors
  <2>3. /\ houses' = [houses EXCEPT ![h] = [name |-> n, owner |-> u, status |-> t]]
        /\ persons' = persons
    BY <1>3 DEF EditHouse
  <2>4. houses' \in [Houses -> HouseRow] /\ persons' \in [Persons -> PersonRow]
    BY <1>0, <2>2, <2>3 DEF ShengxuTypes
  <2>5. \A g \in Houses : HouseShared(g) => houses'[g] = houses[g]
    BY <1>0, <1>1, <2>3 DEF ShengxuTypes
  <2> QED BY <1>1, <2>3, <2>4, <2>5, EditsKeep
<1>4. CASE DeleteHouse(h)
  <2> DEFINE gone == [row EXCEPT !.status = "deleted"]
  <2>1. gone \in HouseRow
    BY DEF HouseRow
  <2>2. houses' = [houses EXCEPT ![h] = gone]
    BY <1>0, <1>2, <1>4 DEF DeleteHouse, ShengxuTypes
  <2> HIDE DEF gone
  <2>3. houses' \in [Houses -> HouseRow] /\ \A g \in Houses : HouseShared(g) => houses'[g] = houses[g]
    BY <1>0, <1>1, <2>1, <2>2 DEF ShengxuTypes
  <2>4. persons' = [p \in Persons |-> IF HouseOf(p) = h THEN [persons[p] EXCEPT !.live = FALSE] ELSE persons[p]]
    BY <1>4 DEF DeleteHouse
  <2>5. ASSUME NEW q \in PersonRow
        PROVE  /\ [q EXCEPT !.live = FALSE] \in PersonRow
               /\ ~q.live => [q EXCEPT !.live = FALSE] = q
    <3>1. [q EXCEPT !.live = FALSE] \in PersonRow
      BY DEF PersonRow
    <3>2. ~q.live => [q EXCEPT !.live = FALSE] = q
      BY DEF PersonRow
    <3> QED BY <3>1, <3>2
  <2>6. persons' \in [Persons -> PersonRow]
    BY <1>0, <2>4, <2>5 DEF ShengxuTypes
  <2>7. \A p \in Persons : PersonShared(p) => persons'[p] = persons[p]
    <3> SUFFICES ASSUME NEW p \in Persons, PersonShared(p) PROVE persons'[p] = persons[p]
      OBVIOUS
    <3>1. HouseOf(p) = h => ~persons[p].live
      BY <1>4 DEF DeleteHouse, OfferedPersons
    <3>2. persons[p] \in PersonRow
      BY <1>0 DEF ShengxuTypes
    <3> QED BY <2>4, <2>5, <3>1, <3>2
  <2> QED BY <1>1, <2>3, <2>6, <2>7, EditsKeep
<1> QED BY <1>3, <1>4

\* The edits of contacts, and of coordinators.
LEMMA PersonEditsKeep ==
  ASSUME ShengxuInv,
         \/ \E p \in Persons : CreatePerson(p) \/ RenamePerson(p) \/ DeletePerson(p)
         \/ \E u \in Coordinators : DisableCoordinator(u)
  PROVE  ShengxuInv'
<1>0. ShengxuTypes
  BY DEF ShengxuInv
<1>1. ASSUME NEW p \in Persons, CreatePerson(p) \/ RenamePerson(p) \/ DeletePerson(p)
      PROVE  ShengxuInv'
  <2>1. PICK q \in PersonRow : q = persons[p]
    BY <1>0 DEF ShengxuTypes
  <2>2. q.name + 1 \in Nat
    BY DEF PersonRow
  <2>3. PICK new \in PersonRow : persons' = [persons EXCEPT ![p] = new]
    <3>1. CASE CreatePerson(p)
      BY <3>1 DEF CreatePerson, PersonRow
    <3>2. CASE RenamePerson(p)
      <4>1. persons' = [persons EXCEPT ![p] = [q EXCEPT !.name = @ + 1]]
        BY <1>0, <2>1, <3>2 DEF RenamePerson, ShengxuTypes
      <4>2. [q EXCEPT !.name = @ + 1] = [name |-> q.name + 1, live |-> q.live]
        BY DEF PersonRow
      <4>3. [name |-> q.name + 1, live |-> q.live] \in PersonRow
        BY <2>2 DEF PersonRow
      <4> QED BY <4>1, <4>2, <4>3
    <3>3. CASE DeletePerson(p)
      <4>1. persons' = [persons EXCEPT ![p] = [q EXCEPT !.live = FALSE]]
        BY <1>0, <2>1, <3>3 DEF DeletePerson, ShengxuTypes
      <4>2. [q EXCEPT !.live = FALSE] \in PersonRow
        BY DEF PersonRow
      <4> QED BY <4>1, <4>2
    <3> QED BY <1>1, <3>1, <3>2, <3>3
  <2>4. UNCHANGED <<houses, staff, sheets, scribes>>
    BY <1>1 DEF CreatePerson, RenamePerson, DeletePerson
  <2>5. ~PersonShared(p)
    <3>1. CASE CreatePerson(p)
      <4> SUFFICES ASSUME PersonShared(p) PROVE FALSE
        OBVIOUS
      <4>1. PICK w \in LedgerWriters : /\ scribes[w].step \in {"owner", "write"}
                                       /\ scribes[w].newPerson /\ scribes[w].person = p
        BY DEF PersonShared, Busy
      <4>2. SharesCurrent(scribes[w])
        BY <4>1 DEF ShengxuInv, Busy
      <4>3. persons[p].live
        BY <4>1, <4>2 DEF SharesCurrent
      <4> QED BY <3>1, <4>3 DEF CreatePerson, NoPerson
    <3> QED BY <1>1, <3>1 DEF RenamePerson, DeletePerson
  <2>6. persons' \in [Persons -> PersonRow] /\ houses' \in [Houses -> HouseRow]
    BY <1>0, <2>3, <2>4 DEF ShengxuTypes
  <2>7. \A o \in Persons : PersonShared(o) => persons'[o] = persons[o]
    BY <1>0, <2>3, <2>5 DEF ShengxuTypes
  <2> QED BY <2>4, <2>6, <2>7, EditsKeep
<1>2. ASSUME NEW u \in Coordinators, DisableCoordinator(u)
      PROVE  ShengxuInv'
  <2>1. /\ staff' = staff \ {u} /\ ~UserShared(u)
        /\ UNCHANGED <<houses, persons, sheets, scribes>>
    BY <1>2 DEF DisableCoordinator
  <2>2. persons' \in [Persons -> PersonRow] /\ houses' \in [Houses -> HouseRow]
    BY <1>0, <2>1 DEF ShengxuTypes
  <2> QED BY <2>1, <2>2, EditsKeep
<1> QED BY <1>1, <1>2

\* Every step keeps the invariant.
LEMMA ShengxuKeeps == ShengxuInv /\ (ShengxuNext \/ UNCHANGED shengxuVars) => ShengxuInv'
<1> SUFFICES ASSUME ShengxuInv, ShengxuNext \/ UNCHANGED shengxuVars PROVE ShengxuInv'
  OBVIOUS
<1>1. CASE UNCHANGED shengxuVars
  BY <1>1 DEF shengxuVars, ShengxuInv, ShengxuTypes, RowCurrent, SharesCurrent, Apart, Busy
<1> QED BY <1>1, CallOpens, LockingKeeps, SharingHouseKeeps, SharingPersonKeeps, SharingOwnerKeeps,
           SheetWritesKeep, HouseEditsKeep, PersonEditsKeep DEF ShengxuNext

\* What is about to be written is current.
LEMMA ShengxuKept == ShengxuInv => LedgersCurrent
<1> SUFFICES ASSUME ShengxuInv PROVE LedgersCurrent
  OBVIOUS
<1>1. \A w \in Busy({"write", "remove"}) : RowCurrent(scribes[w]) /\ SharesCurrent(scribes[w])
  BY DEF ShengxuInv, Busy
<1>2. \A w \in Busy({"write", "remove"}) : scribes[w].step \in {"write", "remove"}
  BY DEF Busy
<1>3. SeenIsCurrent
  BY <1>1, <1>2 DEF SeenIsCurrent, RowCurrent
<1>4. ChoicesCurrent
  <2> SUFFICES ASSUME NEW w \in Busy({"write"})
               PROVE  LET t == scribes[w] IN
                 /\ t.newHouse => houses[t.house] = [name |-> t.houseName, owner |-> t.creator, status |-> "enabled"]
                 /\ t.newPerson => persons[t.person] = [name |-> t.personName, live |-> TRUE]
                 /\ t.call = "create" => t.creator \in staff
    BY DEF ChoicesCurrent
  <2>1. scribes[w].step = "write" /\ SharesCurrent(scribes[w])
    BY <1>1 DEF Busy
  <2> QED BY <2>1 DEF SharesCurrent
<1> QED BY <1>3, <1>4 DEF LedgersCurrent

\* Whoever writes a Shengxu ledger writes to the row he saw, and names an agency and a contact
\* as they are at that moment, both in use (shengxu-ledgers.service.ts).
THEOREM ShengxuLedgersStayCurrent == BackOfficeSpec => []LedgersCurrent
<1>1. BackOfficeInit => ShengxuInv
  BY ShengxuStart DEF BackOfficeInit
<1>2. ShengxuInv /\ [BackOfficeNext]_backVars => ShengxuInv'
  BY ShengxuKeeps, ShengxuAlone
<1> QED BY <1>1, <1>2, ShengxuKept, PTL DEF BackOfficeSpec
-----------------------------------------------------------------------------
(* The dictionaries *)

\* A step of the back office is a step of the dictionaries or leaves them as they are.
LEMMA DictionariesAlone == [BackOfficeNext]_backVars => DictionaryNext \/ UNCHANGED dictionaryVars
BY DEF BackOfficeNext, AgenciesStep, NumbersStep, AlertsStep, ReportsStep, VisitsStep,
       ShengxuStep, DictionariesStep, ResourcesStep, ReleaseStep, backVars

\* The first state satisfies the invariant.
LEMMA DictionaryStart == DictionaryInit => DictionaryInv
<1> SUFFICES ASSUME DictionaryInit PROVE DictionaryInv
  OBVIOUS
<1>1. /\ NoCategory \in CategoryRow /\ NoCategory.code = ""
      /\ [code |-> "country-region", builtIn |-> TRUE, live |-> TRUE] \in CategoryRow
      /\ [code |-> "city-airport", builtIn |-> TRUE, live |-> TRUE] \in CategoryRow
  BY DEF NoCategory, CategoryRow
<1>2. \A c \in Categories :
         categories[c] = CASE c = 1 -> [code |-> "country-region", builtIn |-> TRUE, live |-> TRUE]
                           [] c = 2 -> [code |-> "city-airport", builtIn |-> TRUE, live |-> TRUE]
                           [] OTHER -> NoCategory
  BY DEF DictionaryInit
<1>3. HomesStay
  <2> DEFINE first == [code |-> "country-region", builtIn |-> TRUE, live |-> TRUE]
             second == [code |-> "city-airport", builtIn |-> TRUE, live |-> TRUE]
  <2>1. first.code = "country-region" /\ second.code = "city-airport"
    OBVIOUS
  <2>2. /\ first = [code |-> "country-region", builtIn |-> TRUE, live |-> TRUE]
        /\ second = [code |-> "city-airport", builtIn |-> TRUE, live |-> TRUE]
    OBVIOUS
  <2>3. /\ categories[1] = first /\ categories[2] = second
        /\ \A c \in Categories \ {1, 2} : categories[c] = NoCategory
    BY <1>2, CategoriesAssumption
  <2> HIDE DEF first, second
  <2>4. \A c \in Categories : /\ categories[c].code = "country-region" => c = 1
                              /\ categories[c].code = "city-airport" => c = 2
    BY <1>1, <2>1, <2>3
  <2> QED BY <2>2, <2>3, <2>4, Zenon DEF HomesStay
<1>4. categories \in [Categories -> CategoryRow]
  <2>1. \A c \in Categories : categories[c] \in CategoryRow
    BY <1>1, <1>2
  <2>2. categories = [c \in Categories |-> categories[c]]
    BY DEF DictionaryInit
  <2> QED BY <2>1, <2>2
<1>5. /\ entries \in [Entries -> EntryRow]
      /\ \A e \in Entries : entries[e].live => entries[e].category \in Categories
  <2> DEFINE first == [category |-> 1, code |-> "CN", enabled |-> TRUE, live |-> TRUE]
  <2>1. first \in EntryRow /\ NoEntry \in EntryRow /\ first.category = 1 /\ ~NoEntry.live
    BY CategoriesAssumption DEF EntryRow, NoEntry, Codes
  <2> HIDE DEF first
  <2>2. entries = [e \in Entries |-> IF e = 1 THEN first ELSE NoEntry]
    BY DEF DictionaryInit, first
  <2> QED BY <2>1, <2>2, CategoriesAssumption
<1>6. /\ NoUse \in [entry : Entries \union {0}, code : Codes]
      /\ NoPick \in [entry : Entries \union {0}, row : EntryRow]
  BY DEF NoUse, NoPick, NoEntry, EntryRow, Codes
<1>7. DictionaryTypes
  BY <1>4, <1>5, <1>6 DEF DictionaryInit, DictionaryTypes
<1>8. /\ \A s \in Sources : uses[s] = NoUse /\ picks[s] = NoPick
  BY DEF DictionaryInit
<1> QED BY <1>3, <1>7, <1>8 DEF DictionaryInv, PicksSound, UsesHeld, LedgerPickCurrent

\* An entry is valid for a column if it is enabled and of the column's category.
LEMMA ValidAtHome ==
  ASSUME DictionaryTypes, HomesStay, NEW s \in Sources, NEW e \in Entries
  PROVE  Valid(s, e) <=> entries[e].live /\ entries[e].enabled /\ entries[e].category = Home(s)
<1>1. entries[e].live => entries[e].category \in Categories
  BY DEF DictionaryTypes
<1>2. /\ categories[1].live /\ categories[1].code = "country-region"
      /\ categories[2].live /\ categories[2].code = "city-airport"
      /\ \A c \in Categories : /\ categories[c].code = "country-region" => c = 1
                               /\ categories[c].code = "city-airport" => c = 2
  <2>1. categories[1].live /\ categories[2].live
    BY DEF HomesStay
  <2>2. categories[1].code = "country-region" /\ categories[2].code = "city-airport"
    BY DEF HomesStay
  <2>3. \A c \in Categories : /\ categories[c].code = "country-region" => c = 1
                              /\ categories[c].code = "city-airport" => c = 2
    BY DEF HomesStay
  <2> QED BY <2>1, <2>2, <2>3
<1>3. CASE s \in {"departure", "arrival"}
  BY <1>1, <1>2, <1>3 DEF Valid, Required, Home
<1>4. CASE s \notin {"departure", "arrival"}
  BY <1>1, <1>2, <1>4 DEF Valid, Required, Home
<1> QED BY <1>3, <1>4

\* The ledger's pick stays current while its entry and the built-in categories stay.
LEMMA PickStays ==
  ASSUME DictionaryInv, DictionaryTypes', HomesStay', picks' = picks,
         \A e \in Entries : entries'[e] = entries[e] \/ ("ledger" \in Sources => picks["ledger"].entry # e)
  PROVE  LedgerPickCurrent'
<1> SUFFICES ASSUME "ledger" \in Sources, picks["ledger"] # NoPick
             PROVE  /\ entries'[picks["ledger"].entry] = picks["ledger"].row
                    /\ Valid("ledger", picks["ledger"].entry)'
  BY DEF LedgerPickCurrent
<1>1. PICK e \in Entries : e = picks["ledger"].entry
  BY DEF DictionaryInv, PicksSound
<1>2. entries[e] = picks["ledger"].row /\ Valid("ledger", e) /\ entries'[e] = entries[e]
  BY <1>1 DEF DictionaryInv, LedgerPickCurrent
<1>3. entries[e].live /\ entries[e].enabled /\ entries[e].category = 1
  BY <1>2, ValidAtHome DEF DictionaryInv, Home
<1>4. Valid("ledger", e)'
  BY <1>2, <1>3 DEF Valid, HomesStay, Required
<1> QED BY <1>1, <1>2, <1>4

\* A category is created, recoded or deleted: none of the built-in ones.
LEMMA CategoryKeeps ==
  ASSUME DictionaryInv, NEW c \in Categories,
         \/ \E code \in CategoryCodes, builtIn \in BOOLEAN : CreateCategory(c, code, builtIn)
         \/ \E code \in CategoryCodes : RecodeCategory(c, code)
         \/ DeleteCategory(c)
  PROVE  DictionaryInv'
<1>0. DictionaryTypes /\ HomesStay /\ PicksSound /\ UsesHeld /\ LedgerPickCurrent
  BY DEF DictionaryInv
<1>1. UNCHANGED <<uses, picks, editors, mixed>>
  BY DEF CreateCategory, RecodeCategory, DeleteCategory
<1>2. PICK row \in CategoryRow : row = categories[c]
  BY <1>0 DEF DictionaryTypes
<1>3. categories[1].live /\ categories[1].builtIn /\ categories[2].live /\ categories[2].builtIn
  BY <1>0 DEF HomesStay
<1>4. /\ categories' \in [Categories -> CategoryRow]
      /\ HomesStay'
  <2>1. ASSUME NEW code \in CategoryCodes, NEW builtIn \in BOOLEAN, CreateCategory(c, code, builtIn)
        PROVE  categories' \in [Categories -> CategoryRow] /\ HomesStay'
    <3> DEFINE new == [code |-> code, builtIn |-> builtIn, live |-> TRUE]
    <3>1. categories' = [categories EXCEPT ![c] = new]
      BY <2>1 DEF CreateCategory
    <3>2. new \in CategoryRow /\ new.code = code
      BY DEF CategoryRow
    <3> HIDE DEF new
    <3>3. c \notin {1, 2}
      <4>1. ~NoCategory.live /\ categories[c] = NoCategory
        BY <2>1 DEF CreateCategory, NoCategory
      <4> QED BY <1>3, <4>1
    <3>4. code \notin {"country-region", "city-airport"}
      BY <1>0, <2>1, <3>3, CategoriesAssumption DEF CreateCategory, CategoryCodeFree, HomesStay
    <3> QED BY <1>0, <3>1, <3>2, <3>3, <3>4, CategoriesAssumption DEF DictionaryTypes, HomesStay
  <2>2. ASSUME NEW code \in CategoryCodes, RecodeCategory(c, code)
        PROVE  categories' \in [Categories -> CategoryRow] /\ HomesStay'
    <3> DEFINE new == [row EXCEPT !.code = code]
    <3>1. categories' = [categories EXCEPT ![c] = new]
      BY <1>0, <1>2, <2>2 DEF RecodeCategory, DictionaryTypes
    <3>2. new \in CategoryRow /\ new.code = code
      BY DEF CategoryRow
    <3>3. c \in {1, 2} => new = row
      <4>1. c \in {1, 2} => code = row.code
        BY <1>2, <1>3, <2>2 DEF RecodeCategory
      <4>2. [row EXCEPT !.code = row.code] = row
        BY DEF CategoryRow
      <4> QED BY <4>1, <4>2
    <3> HIDE DEF new
    <3>4. c \notin {1, 2} => code \notin {"country-region", "city-airport"}
      BY <1>0, <2>2, CategoriesAssumption DEF RecodeCategory, CategoryCodeFree, HomesStay
    <3> QED BY <1>0, <1>2, <3>1, <3>2, <3>3, <3>4, CategoriesAssumption DEF DictionaryTypes, HomesStay
  <2>3. CASE DeleteCategory(c)
    <3> DEFINE new == [row EXCEPT !.live = FALSE]
    <3>1. categories' = [categories EXCEPT ![c] = new]
      BY <1>0, <1>2, <2>3 DEF DeleteCategory, DictionaryTypes
    <3>2. new \in CategoryRow /\ new.code = row.code
      BY DEF CategoryRow
    <3> HIDE DEF new
    <3>3. c \notin {1, 2}
      BY <1>3, <2>3 DEF DeleteCategory
    <3> QED BY <1>0, <1>2, <3>1, <3>2, <3>3, CategoriesAssumption DEF DictionaryTypes, HomesStay
  <2> QED BY <2>1, <2>2, <2>3
<1>5. /\ entries' \in [Entries -> EntryRow]
      /\ \A e \in Entries : entries'[e].live => entries'[e].category \in Categories
      /\ \A e \in Entries : entries[e].category \in {1, 2} => entries'[e] = entries[e]
  <2>1. CASE entries' = entries
    BY <1>0, <2>1 DEF DictionaryTypes
  <2>2. CASE DeleteCategory(c)
    <3>1. c \notin {1, 2}
      BY <1>3, <2>2 DEF DeleteCategory
    <3>2. entries' = [e \in Entries |-> IF entries[e].category = c THEN [entries[e] EXCEPT !.live = FALSE]
                                        ELSE entries[e]]
      BY <2>2 DEF DeleteCategory
    <3>3. ASSUME NEW e \in Entries
          PROVE  /\ [entries[e] EXCEPT !.live = FALSE] \in EntryRow
                 /\ ~[entries[e] EXCEPT !.live = FALSE].live
      <4>1. entries[e] \in EntryRow
        BY <1>0 DEF DictionaryTypes
      <4> QED BY <4>1 DEF EntryRow
    <3> QED BY <1>0, <3>1, <3>2, <3>3 DEF DictionaryTypes
  <2> QED BY <2>1, <2>2 DEF CreateCategory, RecodeCategory
<1>6. DictionaryTypes' /\ PicksSound'
  BY <1>0, <1>1, <1>4, <1>5 DEF DictionaryTypes, PicksSound
<1>7. UsesHeld'
  <2> SUFFICES ASSUME NEW s \in Sources \ mixed, uses[s] # NoUse
               PROVE  (LET row2 == entries[uses[s].entry] IN
                       /\ uses[s].entry \in Entries
                       /\ row2.live /\ row2.code = uses[s].code /\ row2.category = Home(s)
                       /\ \A d \in EntryEditors : editors[d].entry = uses[s].entry =>
                             /\ editors[d].call # "create"
                             /\ editors[d].was = row2.code /\ editors[d].category = row2.category
                             /\ editors[d].step = "save" =>
                                  editors[d].call = "update" /\ editors[d].code = row2.code)'
    BY <1>1 DEF UsesHeld
  <2>1. uses[s].entry \in Entries /\ entries[uses[s].entry].category \in {1, 2}
    BY <1>0 DEF UsesHeld, Home
  <2>2. entries'[uses[s].entry] = entries[uses[s].entry]
    BY <1>5, <2>1
  <2> QED BY <1>0, <1>1, <2>2 DEF UsesHeld
<1>8. LedgerPickCurrent'
  <2> SUFFICES ASSUME NEW e \in Entries, entries'[e] # entries[e], "ledger" \in Sources,
                      picks["ledger"].entry = e
               PROVE  FALSE
    BY <1>1, <1>4, <1>6, PickStays
  <2>1. picks["ledger"] # NoPick
    BY EntriesAssumption DEF NoPick
  <2>2. entries[e].category = 1
    BY <1>0, <2>1, ValidAtHome DEF LedgerPickCurrent, Home
  <2> QED BY <1>5, <2>2
<1> QED BY <1>4, <1>6, <1>7, <1>8 DEF DictionaryInv
\* An edit of entries begins.
LEMMA EditBegins ==
  ASSUME DictionaryInv, NEW d \in EntryEditors, NEW call \in {"create", "update", "delete"},
         NEW e \in Entries, NEW c \in Categories, NEW code \in EntryCodes, NEW enabled \in BOOLEAN,
         BeginEdit(d, call, e, c, code, enabled)
  PROVE  DictionaryInv'
<1>0. DictionaryTypes /\ HomesStay /\ PicksSound /\ UsesHeld /\ LedgerPickCurrent
  BY DEF DictionaryInv
<1>1. UNCHANGED <<categories, entries, uses, picks, mixed>>
  BY DEF BeginEdit
<1> DEFINE next == [step |-> "check", call |-> call, entry |-> e, category |-> c, code |-> code,
                    enabled |-> enabled, was |-> entries[e].code]
<1>2. editors' = [editors EXCEPT ![d] = next]
  BY DEF BeginEdit
<1>3. entries[e].code \in Codes /\ code \in Codes
  BY <1>0 DEF DictionaryTypes, EntryRow, Codes
<1>4. next \in Edit
  BY <1>3 DEF Edit
<1>5. /\ next.step = "check" /\ next.call = call /\ next.entry = e /\ next.category = c
      /\ next.was = entries[e].code
  OBVIOUS
<1> HIDE DEF next
<1>6. DictionaryTypes'
  BY <1>0, <1>1, <1>2, <1>4 DEF DictionaryTypes
<1>7. entries[e].live => call # "create" /\ entries[e].category = c
  <2>1. ~NoEntry.live
    BY DEF NoEntry
  <2> QED BY <2>1 DEF BeginEdit
<1>8. /\ editors'[d] = next
      /\ \A o \in EntryEditors \ {d} : editors'[o] = editors[o]
  BY <1>0, <1>2 DEF DictionaryTypes
<1>9. UsesHeld'
  BY <1>0, <1>1, <1>5, <1>7, <1>8 DEF UsesHeld
<1>10. (HomesStay /\ PicksSound)'
  BY <1>0, <1>1 DEF HomesStay, PicksSound
<1>11. LedgerPickCurrent'
  BY <1>1, <1>6, <1>10, PickStays
<1> QED BY <1>6, <1>9, <1>10, <1>11 DEF DictionaryInv

\* The entry that a record names is found to be referred to.
LEMMA UseFound ==
  ASSUME DictionaryInv, NEW s \in Sources \ mixed, uses[s] # NoUse
  PROVE  Referenced(uses[s].entry)
<1>1. entries[uses[s].entry].category = Home(s)
  BY DEF DictionaryInv, UsesHeld
<1>2. categories[1].code = "country-region" /\ categories[2].code = "city-airport"
  BY DEF DictionaryInv, HomesStay
<1>3. CASE s \in {"departure", "arrival"}
  <2>1. s \in SourcesOf(categories[entries[uses[s].entry].category].code)
    BY <1>1, <1>2, <1>3 DEF Home, SourcesOf
  <2> QED BY <2>1 DEF Referenced
<1>4. CASE s \notin {"departure", "arrival"}
  <2>1. s \in SourcesOf(categories[entries[uses[s].entry].category].code)
    BY <1>1, <1>2, <1>4, SourcesAssumption DEF Home, SourcesOf
  <2> QED BY <2>1 DEF Referenced
<1> QED BY <1>3, <1>4

\* An edit is checked: no use of the entry lets its code change or the entry go.
LEMMA EditChecked ==
  ASSUME DictionaryInv, NEW d \in EntryEditors, CheckEdit(d)
  PROVE  DictionaryInv'
<1>0. DictionaryTypes /\ HomesStay /\ PicksSound /\ UsesHeld /\ LedgerPickCurrent
  BY DEF DictionaryInv
<1>1. UNCHANGED <<categories, entries, uses, picks, mixed>> /\ editors[d].step = "check"
  BY DEF CheckEdit
<1>2. PICK t \in Edit : t = editors[d]
  BY <1>0, <1>1 DEF DictionaryTypes, IdleEditor
<1> DEFINE saves == [t EXCEPT !.step = "save"]
<1>3. PICK next \in {saves, IdleEditor} :
        /\ editors' = [editors EXCEPT ![d] = next]
        /\ next = saves => ((t.call = "delete" \/ (t.call = "update" /\ t.code # t.was)) => ~Referenced(t.entry))
  <2>1. editors' = [editors EXCEPT ![d] =
           IF /\ t.call # "delete" => EntryCodeFree(t.entry, t.category, t.code)
              /\ (t.call = "delete" \/ (t.call = "update" /\ t.code # t.was)) => ~Referenced(t.entry)
           THEN saves ELSE IdleEditor]
    BY <1>2 DEF CheckEdit
  <2>2. saves # IdleEditor
    <3>1. saves.step = "save" /\ IdleEditor.step = "idle"
      BY DEF Edit, IdleEditor
    <3> HIDE DEF saves
    <3> QED BY <3>1
  <2> HIDE DEF saves
  <2> QED BY <2>1, <2>2
<1>4. /\ saves \in Edit /\ saves.step = "save" /\ saves.call = t.call /\ saves.entry = t.entry
      /\ saves.category = t.category /\ saves.code = t.code /\ saves.was = t.was
  BY DEF Edit
<1> HIDE DEF saves
<1>5. DictionaryTypes'
  BY <1>0, <1>1, <1>3, <1>4 DEF DictionaryTypes
<1>6. /\ editors'[d] = next
      /\ \A o \in EntryEditors \ {d} : editors'[o] = editors[o]
  BY <1>0, <1>3 DEF DictionaryTypes
<1>7. UsesHeld'
  <2> SUFFICES ASSUME NEW s \in Sources \ mixed, uses[s] # NoUse, NEW o \in EntryEditors,
                      editors'[o].entry = uses[s].entry
               PROVE  LET row == entries[uses[s].entry]
                      IN  /\ editors'[o].call # "create"
                          /\ editors'[o].was = row.code /\ editors'[o].category = row.category
                          /\ editors'[o].step = "save" => editors'[o].call = "update"
                          /\ editors'[o].step = "save" => editors'[o].code = row.code
    BY <1>0, <1>1 DEF UsesHeld
  <2>1. CASE o # d
    BY <1>0, <1>6, <2>1 DEF UsesHeld
  <2>2. CASE o = d
    <3>1. next = saves
      BY <1>0, <1>6, <2>2, EntriesAssumption DEF UsesHeld, IdleEditor
    <3>2. t.entry = uses[s].entry
      BY <1>4, <1>6, <2>2, <3>1
    <3>3. /\ t.call # "create" /\ t.was = entries[uses[s].entry].code
          /\ t.category = entries[uses[s].entry].category
      BY <1>0, <1>2, <3>2 DEF UsesHeld
    <3>4. Referenced(t.entry)
      BY <3>2, UseFound
    <3>5. t.call = "update" /\ t.code = t.was
      BY <1>3, <3>1, <3>3, <3>4 DEF Edit
    <3> QED BY <1>4, <1>6, <2>2, <3>1, <3>3, <3>5
  <2> QED BY <2>1, <2>2
<1>8. (HomesStay /\ PicksSound)'
  BY <1>0, <1>1 DEF HomesStay, PicksSound
<1>9. LedgerPickCurrent'
  BY <1>1, <1>5, <1>8, PickStays
<1> QED BY <1>5, <1>7, <1>8, <1>9 DEF DictionaryInv

\* What an edit saves leaves every entry that a record names where it is.
LEMMA EditSaved ==
  ASSUME DictionaryInv, NEW d \in EntryEditors, SaveEdit(d)
  PROVE  DictionaryInv'
<1>0. DictionaryTypes /\ HomesStay /\ PicksSound /\ UsesHeld /\ LedgerPickCurrent
  BY DEF DictionaryInv
<1>1. UNCHANGED <<categories, uses, picks, mixed>> /\ editors[d].step = "save"
  BY DEF SaveEdit
<1>2. PICK t \in Edit : t = editors[d]
  BY <1>0, <1>1 DEF DictionaryTypes, IdleEditor
<1>3. t.entry \in Entries /\ t.category \in Categories /\ t.code \in Codes /\ t.enabled \in BOOLEAN
  BY DEF Edit
<1>4. PICK row \in EntryRow : row = entries[t.entry]
  BY <1>0, <1>3 DEF DictionaryTypes
<1> DEFINE gone == [row EXCEPT !.live = FALSE]
           saved == [category |-> t.category, code |-> t.code, enabled |-> t.enabled, live |-> TRUE]
<1>5. gone \in EntryRow /\ ~gone.live /\ saved \in EntryRow /\ saved.live
      /\ saved.category = t.category /\ saved.code = t.code
  BY <1>3 DEF EntryRow
<1>6. PICK new \in EntryRow :
        /\ entries' = [entries EXCEPT ![t.entry] = new]
        /\ new.live => new.category \in Categories
        /\ t.call # "delete" => new = row \/ new = saved
  <2>1. CASE t.call = "delete"
    <3>1. entries' = [entries EXCEPT ![t.entry] = gone]
      BY <1>0, <1>2, <1>3, <1>4, <2>1 DEF SaveEdit, DictionaryTypes
    <3> HIDE DEF gone, saved
    <3> QED BY <1>5, <2>1, <3>1
  <2>2. CASE t.call # "delete" /\ ~EntryCodeFree(t.entry, t.category, t.code)
    <3>1. entries' = [entries EXCEPT ![t.entry] = row]
      BY <1>0, <1>2, <1>3, <1>4, <2>2 DEF SaveEdit, DictionaryTypes
    <3>2. row.live => row.category \in Categories
      BY <1>0, <1>3, <1>4 DEF DictionaryTypes
    <3> HIDE DEF gone, saved
    <3> QED BY <3>1, <3>2
  <2>3. CASE t.call # "delete" /\ EntryCodeFree(t.entry, t.category, t.code)
    <3>1. entries' = [entries EXCEPT ![t.entry] = saved]
      BY <1>2, <2>3 DEF SaveEdit
    <3> HIDE DEF gone, saved
    <3> QED BY <1>3, <1>5, <3>1
  <2> QED BY <2>1, <2>2, <2>3
<1> HIDE DEF gone, saved
<1>7. editors' = [editors EXCEPT ![d] = IdleEditor]
  BY DEF SaveEdit
<1>8. /\ entries'[t.entry] = new /\ \A e \in Entries \ {t.entry} : entries'[e] = entries[e]
      /\ editors'[d] = IdleEditor /\ \A o \in EntryEditors \ {d} : editors'[o] = editors[o]
  BY <1>0, <1>3, <1>6, <1>7 DEF DictionaryTypes
<1>9. DictionaryTypes'
  <2>1. entries' \in [Entries -> EntryRow] /\ editors' \in [EntryEditors -> {IdleEditor} \union Edit]
    BY <1>0, <1>6, <1>7 DEF DictionaryTypes
  <2>2. \A e \in Entries : entries'[e].live => entries'[e].category \in Categories
    BY <1>0, <1>6, <1>8 DEF DictionaryTypes
  <2> QED BY <1>0, <1>1, <2>1, <2>2 DEF DictionaryTypes
<1>10. UsesHeld'
  <2> SUFFICES ASSUME NEW s \in Sources \ mixed, uses[s] # NoUse
               PROVE  LET new2 == entries'[uses[s].entry]
                      IN  /\ uses[s].entry \in Entries
                          /\ new2.live /\ new2.code = uses[s].code /\ new2.category = Home(s)
                          /\ new2.code = entries[uses[s].entry].code
                          /\ new2.category = entries[uses[s].entry].category
    <3>1. \A o \in EntryEditors : editors'[o].entry \in Entries => o # d /\ editors'[o] = editors[o]
      BY <1>8, EntriesAssumption DEF IdleEditor
    <3> QED BY <1>0, <1>1, <3>1 DEF UsesHeld
  <2>1. /\ uses[s].entry \in Entries /\ entries[uses[s].entry].live
        /\ entries[uses[s].entry].code = uses[s].code /\ entries[uses[s].entry].category = Home(s)
    BY <1>0 DEF UsesHeld
  <2>2. CASE uses[s].entry # t.entry
    BY <1>8, <2>1, <2>2
  <2>3. CASE uses[s].entry = t.entry
    <3>1. t.call = "update" /\ t.code = row.code /\ t.category = row.category
      BY <1>0, <1>1, <1>2, <1>4, <2>3 DEF UsesHeld
    <3> QED BY <1>4, <1>5, <1>6, <1>8, <2>1, <2>3, <3>1
  <2> QED BY <2>2, <2>3
<1>11. (HomesStay /\ PicksSound)'
  BY <1>0, <1>1 DEF HomesStay, PicksSound
<1>12. LedgerPickCurrent'
  <2>1. "ledger" \in Sources => picks["ledger"].entry # t.entry
    BY <1>2 DEF SaveEdit, EntryShared
  <2> QED BY <1>1, <1>8, <1>9, <1>11, <2>1, PickStays
<1> QED BY <1>9, <1>10, <1>11, <1>12 DEF DictionaryInv
\* An entry is read for a record, or the record is given up.
LEMMA PickKeeps ==
  ASSUME DictionaryInv, NEW s \in Sources, (\E e \in Entries : PickEntry(s, e)) \/ DropPick(s)
  PROVE  DictionaryInv'
<1>0. DictionaryTypes /\ HomesStay /\ PicksSound /\ UsesHeld /\ LedgerPickCurrent
  BY DEF DictionaryInv
<1>1. UNCHANGED <<categories, entries, uses, editors, mixed>>
  BY DEF PickEntry, DropPick
<1>2. PICK next \in [entry : Entries \union {0}, row : EntryRow] :
        /\ picks' = [picks EXCEPT ![s] = next]
        /\ next # NoPick => /\ next.entry \in Entries /\ next.row = entries[next.entry]
                            /\ Valid(s, next.entry)
  <2>1. CASE DropPick(s)
    <3>1. NoPick \in [entry : Entries \union {0}, row : EntryRow]
      BY DEF NoPick, NoEntry, EntryRow, Codes
    <3> QED BY <2>1, <3>1 DEF DropPick
  <2>2. ASSUME NEW e \in Entries, PickEntry(s, e)
        PROVE  \E next \in [entry : Entries \union {0}, row : EntryRow] :
                 /\ picks' = [picks EXCEPT ![s] = next]
                 /\ next # NoPick => /\ next.entry \in Entries /\ next.row = entries[next.entry]
                                     /\ Valid(s, next.entry)
    <3> DEFINE read == [entry |-> e, row |-> entries[e]]
    <3>1. read \in [entry : Entries \union {0}, row : EntryRow] /\ read.entry = e /\ read.row = entries[e]
      BY <1>0 DEF DictionaryTypes
    <3>2. picks' = [picks EXCEPT ![s] = read] /\ Valid(s, e)
      BY <2>2 DEF PickEntry
    <3> HIDE DEF read
    <3> QED BY <3>1, <3>2
  <2> QED BY <2>1, <2>2
<1>3. picks'[s] = next /\ \A o \in Sources \ {s} : picks'[o] = picks[o]
  BY <1>0, <1>2 DEF DictionaryTypes
<1>4. DictionaryTypes' /\ HomesStay'
  BY <1>0, <1>1, <1>2 DEF DictionaryTypes, HomesStay
<1>5. PicksSound'
  <2>1. next # NoPick => next.entry \in Entries /\ next.row.live /\ next.row.category = Home(s)
    BY <1>0, <1>2, ValidAtHome
  <2> QED BY <1>0, <1>3, <2>1 DEF PicksSound
<1>6. UsesHeld'
  BY <1>0, <1>1 DEF UsesHeld
<1>7. LedgerPickCurrent'
  <2> SUFFICES ASSUME "ledger" \in Sources, picks'["ledger"] # NoPick
               PROVE  /\ entries[picks'["ledger"].entry] = picks'["ledger"].row
                      /\ Valid("ledger", picks'["ledger"].entry)
    BY <1>1 DEF LedgerPickCurrent, Valid
  <2>1. CASE s = "ledger"
    BY <1>2, <1>3, <2>1
  <2>2. CASE s # "ledger"
    BY <1>0, <1>3, <2>2 DEF LedgerPickCurrent
  <2> QED BY <2>1, <2>2
<1> QED BY <1>4, <1>5, <1>6, <1>7 DEF DictionaryInv

\* A record is written: with nobody at its entry, it names the entry as it is.
LEMMA UseWritten ==
  ASSUME DictionaryInv, NEW s \in Sources, WriteUse(s)
  PROVE  DictionaryInv'
<1>0. DictionaryTypes /\ HomesStay /\ PicksSound /\ UsesHeld /\ LedgerPickCurrent
  BY DEF DictionaryInv
<1>1. UNCHANGED <<categories, entries, editors>> /\ picks[s] # NoPick
  BY DEF WriteUse
<1>2. PICK pick \in [entry : Entries \union {0}, row : EntryRow] : pick = picks[s]
  BY <1>0 DEF DictionaryTypes
<1>3. pick.entry \in Entries /\ pick.row.live /\ pick.row.category = Home(s)
  BY <1>0, <1>1, <1>2 DEF PicksSound
<1> DEFINE use == [entry |-> pick.entry, code |-> pick.row.code]
<1>4. /\ uses' = [uses EXCEPT ![s] = use]
      /\ picks' = [picks EXCEPT ![s] = NoPick]
      /\ mixed' = IF UnderEdit(pick.entry) \/ entries[pick.entry] # pick.row THEN mixed \union {s} ELSE mixed \ {s}
  BY <1>2 DEF WriteUse
<1>5. use \in [entry : Entries \union {0}, code : Codes] /\ use.entry = pick.entry /\ use.code = pick.row.code
  BY <1>3 DEF EntryRow
<1> HIDE DEF use
<1>6. /\ uses'[s] = use /\ picks'[s] = NoPick
      /\ \A o \in Sources \ {s} : uses'[o] = uses[o] /\ picks'[o] = picks[o]
  BY <1>0, <1>4 DEF DictionaryTypes
<1>7. NoPick \in [entry : Entries \union {0}, row : EntryRow]
  BY DEF NoPick, NoEntry, EntryRow, Codes
<1>8. DictionaryTypes' /\ HomesStay'
  BY <1>0, <1>1, <1>4, <1>5, <1>7 DEF DictionaryTypes, HomesStay
<1>9. PicksSound'
  BY <1>0, <1>6 DEF PicksSound
<1>10. UsesHeld'
  <2> SUFFICES ASSUME NEW o \in Sources \ mixed', uses'[o] # NoUse
               PROVE  LET row == entries[uses'[o].entry]
                      IN  /\ uses'[o].entry \in Entries
                          /\ row.live /\ row.code = uses'[o].code /\ row.category = Home(o)
                          /\ \A d \in EntryEditors : editors[d].entry = uses'[o].entry =>
                                /\ editors[d].call # "create"
                                /\ editors[d].was = row.code /\ editors[d].category = row.category
                                /\ editors[d].step = "save" =>
                                     editors[d].call = "update" /\ editors[d].code = row.code
    BY <1>1 DEF UsesHeld
  <2>1. CASE o = s
    <3>1. ~UnderEdit(pick.entry) /\ entries[pick.entry] = pick.row
      BY <1>4, <2>1
    <3>2. \A d \in EntryEditors : editors[d].entry # pick.entry
      BY <3>1 DEF UnderEdit
    <3> QED BY <1>3, <1>5, <1>6, <2>1, <3>1, <3>2
  <2>2. CASE o # s
    <3>1. o \in Sources \ mixed /\ uses'[o] = uses[o]
      BY <1>4, <1>6, <2>2
    <3> QED BY <1>0, <3>1 DEF UsesHeld
  <2> QED BY <2>1, <2>2
<1>11. LedgerPickCurrent'
  <2> SUFFICES ASSUME "ledger" \in Sources, picks'["ledger"] # NoPick
               PROVE  /\ entries[picks'["ledger"].entry] = picks'["ledger"].row
                      /\ Valid("ledger", picks'["ledger"].entry)
    BY <1>1 DEF LedgerPickCurrent, Valid
  <2>1. s # "ledger"
    BY <1>6
  <2> QED BY <1>0, <1>6, <2>1 DEF LedgerPickCurrent
<1> QED BY <1>8, <1>9, <1>10, <1>11 DEF DictionaryInv

\* A tour names what the inquiry it is opened from names.
LEMMA TourUseKeeps ==
  ASSUME DictionaryInv, NEW s \in Sources, OpenTourWith(s)
  PROVE  DictionaryInv'
<1>0. DictionaryTypes /\ HomesStay /\ PicksSound /\ UsesHeld /\ LedgerPickCurrent
  BY DEF DictionaryInv
<1>1. /\ UNCHANGED <<categories, entries, editors, picks>>
      /\ s \in {"inquiry", "website"} /\ "tour" \in Sources
      /\ uses' = [uses EXCEPT !["tour"] = uses[s]]
      /\ mixed' = IF s \in mixed THEN mixed \union {"tour"} ELSE mixed
  BY DEF OpenTourWith
<1>2. uses'["tour"] = uses[s] /\ \A o \in Sources \ {"tour"} : uses'[o] = uses[o]
  BY <1>0, <1>1 DEF DictionaryTypes
<1>3. DictionaryTypes' /\ HomesStay' /\ PicksSound'
  BY <1>0, <1>1 DEF DictionaryTypes, HomesStay, PicksSound
<1>4. Home(s) = Home("tour")
  BY <1>1 DEF Home
<1>5. UsesHeld'
  <2> SUFFICES ASSUME NEW o \in Sources \ mixed', uses'[o] # NoUse
               PROVE  LET row == entries[uses'[o].entry]
                      IN  /\ uses'[o].entry \in Entries
                          /\ row.live /\ row.code = uses'[o].code /\ row.category = Home(o)
                          /\ \A d \in EntryEditors : editors[d].entry = uses'[o].entry =>
                                /\ editors[d].call # "create"
                                /\ editors[d].was = row.code /\ editors[d].category = row.category
                                /\ editors[d].step = "save" =>
                                     editors[d].call = "update" /\ editors[d].code = row.code
    BY <1>1 DEF UsesHeld
  <2>1. PICK p \in Sources \ mixed : uses'[o] = uses[p] /\ Home(o) = Home(p)
    BY <1>1, <1>2, <1>4
  <2> QED BY <1>0, <2>1 DEF UsesHeld
<1>6. LedgerPickCurrent'
  BY <1>1, <1>3, PickStays
<1> QED BY <1>3, <1>5, <1>6 DEF DictionaryInv

\* Every step keeps the invariant.
LEMMA DictionaryStep == DictionaryInv /\ (DictionaryNext \/ UNCHANGED dictionaryVars) => DictionaryInv'
<1> SUFFICES ASSUME DictionaryInv, DictionaryNext \/ UNCHANGED dictionaryVars PROVE DictionaryInv'
  OBVIOUS
<1>1. CASE UNCHANGED dictionaryVars
  <2>1. UNCHANGED <<categories, entries, uses, picks, mixed, editors>>
    BY <1>1 DEF dictionaryVars
  <2>2. DictionaryTypes' /\ HomesStay'
    BY <2>1 DEF DictionaryInv, DictionaryTypes, HomesStay
  <2>3. PicksSound'
    BY <2>1 DEF DictionaryInv, PicksSound, Valid
  <2>4. UsesHeld'
    BY <2>1 DEF DictionaryInv, UsesHeld
  <2>5. LedgerPickCurrent'
    BY <2>1 DEF DictionaryInv, LedgerPickCurrent, Valid
  <2> QED BY <2>2, <2>3, <2>4, <2>5 DEF DictionaryInv
<1> QED BY <1>1, CategoryKeeps, EditBegins, EditChecked, EditSaved, PickKeeps, UseWritten,
           TourUseKeeps DEF DictionaryNext

\* What a record names stands, and is of the category that its column requires.
LEMMA DictionaryKept == DictionaryInv => DictionarySound
<1> SUFFICES ASSUME DictionaryInv, NEW s \in Sources \ mixed, uses[s] # NoUse
             PROVE  LET row == entries[uses[s].entry] IN
                    /\ row.live /\ row.code = uses[s].code
                    /\ categories[row.category].live /\ categories[row.category].code = Required(s)
  BY DEF DictionaryInv, DictionarySound, UsesStand
<1>1. /\ entries[uses[s].entry].live /\ entries[uses[s].entry].code = uses[s].code
      /\ entries[uses[s].entry].category = Home(s)
  BY DEF DictionaryInv, UsesHeld
<1>2. /\ categories[1].live /\ categories[1].code = "country-region"
      /\ categories[2].live /\ categories[2].code = "city-airport"
  BY DEF DictionaryInv, HomesStay
<1> QED BY <1>1, <1>2 DEF Home, Required

\* A record written while nobody edits its entry names a live entry with the code it keeps ever
\* after, whatever categories and entries are edited, and a direct ledger names its country as it
\* is at that moment (system-business-dictionaries.service.ts, dictionary-items.ts).
THEOREM DictionariesStaySound == BackOfficeSpec => []DictionarySound
<1>1. BackOfficeInit => DictionaryInv
  BY DictionaryStart DEF BackOfficeInit
<1>2. DictionaryInv /\ [BackOfficeNext]_backVars => DictionaryInv'
  BY DictionaryStep, DictionariesAlone
<1> QED BY <1>1, <1>2, DictionaryKept, PTL DEF BackOfficeSpec

-----------------------------------------------------------------------------
(* The tree of agencies *)

\* A step of the back office is a step on agencies or leaves them as they are.
LEMMA AgenciesAlone == [BackOfficeNext]_backVars => AgencyNext \/ UNCHANGED agencyVars
BY DEF BackOfficeNext, AgenciesStep, NumbersStep, AlertsStep, ReportsStep, VisitsStep,
       ShengxuStep, DictionariesStep, ResourcesStep, ReleaseStep, backVars

\* The first part of a name.
LEMMA FirstPart ==
  ASSUME NEW n \in Seq(ShortNames), Len(n) = 2,
         NEW top \in Seq(ShortNames), Len(top) = 1, n[1] = top[1]
  PROVE  SubSeq(n, 1, 1) = top
<1>1. \A i \in 1..1 : n[i] \in ShortNames
  BY ElementOfSeq
<1>2. /\ SubSeq(n, 1, 1) \in Seq(ShortNames)
      /\ Len(SubSeq(n, 1, 1)) = IF 1 <= 1 THEN 1 - 1 + 1 ELSE 0
      /\ \A i \in 1 .. 1 - 1 + 1 : SubSeq(n, 1, 1)[i] = n[1 + i - 1]
  BY <1>1, SubSeqProperties, 1 \in Int
<1>3. PICK m \in Seq(ShortNames) : m = SubSeq(n, 1, 1) /\ Len(m) = 1 /\ m[1] = top[1]
  BY <1>2
<1>4. \A i \in 1 .. Len(m) : m[i] = top[i]
  BY <1>3
<1>5. m = top
  BY <1>3, <1>4, SeqEqual
<1> QED BY <1>3, <1>5

\* The name below a name of one part has two parts and starts with it.
LEMMA LowerName ==
  ASSUME NEW top \in Seq(ShortNames), Len(top) = 1, NEW s \in ShortNames
  PROVE  /\ Append(top, s) \in Seq(ShortNames) /\ Len(Append(top, s)) = 2
         /\ SubSeq(Append(top, s), 1, 1) = top
<1> DEFINE n == Append(top, s)
<1>1. n \in Seq(ShortNames) /\ Len(n) = Len(top) + 1
  OBVIOUS
<1>2. \A i \in 1 .. Len(top) : n[i] = top[i]
  OBVIOUS
<1> HIDE DEF n
<1>3. Len(n) = 2 /\ n[1] = top[1]
  BY <1>1, <1>2
<1>4. SubSeq(n, 1, 1) = top
  BY <1>1, <1>3, FirstPart
<1> QED BY <1>1, <1>3, <1>4 DEF n

\* The second part of a name, put below another name of one part.
LEMMA MovedName ==
  ASSUME NEW top \in Seq(ShortNames), Len(top) = 1, NEW n \in Seq(ShortNames), Len(n) = 2
  PROVE  /\ top \o SubSeq(n, 2, Len(n)) \in Seq(ShortNames)
         /\ Len(top \o SubSeq(n, 2, Len(n))) = 2
         /\ SubSeq(top \o SubSeq(n, 2, Len(n)), 1, 1) = top
<1>1. \A i \in 2 .. 2 : n[i] \in ShortNames
  BY ElementOfSeq
<1>2. /\ SubSeq(n, 2, 2) \in Seq(ShortNames)
      /\ Len(SubSeq(n, 2, 2)) = IF 2 <= 2 THEN 2 - 2 + 1 ELSE 0
  BY <1>1, SubSeqProperties, 2 \in Int
<1> DEFINE tail == SubSeq(n, 2, 2)
<1>3. tail \in Seq(ShortNames) /\ Len(tail) = 1 /\ SubSeq(n, 2, Len(n)) = tail
  BY <1>2
<1> HIDE DEF tail
<1> DEFINE m == top \o tail
<1>4. m \in Seq(ShortNames) /\ Len(m) = Len(top) + Len(tail)
  BY <1>3, ConcatProperties, Zenon
<1>5. \A i \in 1 .. Len(top) : m[i] = top[i]
  BY <1>3
<1> HIDE DEF m
<1>6. Len(m) = 2 /\ m[1] = top[1]
  BY <1>3, <1>4, <1>5
<1>7. SubSeq(m, 1, 1) = top
  BY <1>4, <1>6, FirstPart
<1> QED BY <1>3, <1>4, <1>6, <1>7 DEF m

\* The first agencies are a tree.
LEMMA AgencyStart == AgencyInit \/ AgenciesShut => AgencyInv
<1> SUFFICES ASSUME AgencyInit \/ AgenciesShut PROVE AgencyInv
  OBVIOUS
<1>0. writers = [w \in AgencyWriters |-> IdleWriter]
  BY DEF AgencyInit, AgenciesShut
<1>1. LocksApart /\ \A w \in AgencyWriters : WriterSound(w)
  BY <1>0 DEF IdleWriter, LocksApart, WriterSound
<1>2. writers \in [AgencyWriters -> [at : {"idle", "done"}, held : {{}}]
                    \cup (CreateWriter \cup (UpdateWriter \cup DeleteWriter))]
  BY <1>0 DEF IdleWriter
<1>3. CASE AgenciesShut
  <2>1. agencies \in [Agencies -> AgencyRow \cup {NoAgency}] /\ HierarchySound
    BY <1>3 DEF AgenciesShut, HierarchySound, LiveAgency
  <2> QED BY <1>1, <1>2, <2>1 DEF AgencyInv, AgencyTypes
<1>4. CASE AgencyInit
  <2>1a. PICK s \in ShortNames : \E third \in {NoAgency, FirstAgency(NoAgency, <<s>>)} :
           agencies = [i \in Agencies |-> CASE i = 1 -> FirstAgency(NoAgency, <<s>>)
                                            [] i = 2 -> FirstAgency(1, <<s, s>>)
                                            [] i = 3 -> third
                                            [] OTHER -> NoAgency]
    BY <1>4 DEF AgencyInit
  <2>1. PICK third \in {NoAgency, FirstAgency(NoAgency, <<s>>)} :
           agencies = [i \in Agencies |-> CASE i = 1 -> FirstAgency(NoAgency, <<s>>)
                                            [] i = 2 -> FirstAgency(1, <<s, s>>)
                                            [] i = 3 -> third
                                            [] OTHER -> NoAgency]
    BY <2>1a
  <2>2. <<s>> \in Seq(ShortNames) /\ <<s, s>> \in Seq(ShortNames)
    OBVIOUS
  <2>3. FirstAgency(NoAgency, <<s>>) \in AgencyRow /\ FirstAgency(1, <<s, s>>) \in AgencyRow
    BY <2>2, AgenciesAssumption DEF FirstAgency, AgencyRow
  <2>4. agencies[1] = FirstAgency(NoAgency, <<s>>) /\ agencies[2] = FirstAgency(1, <<s, s>>)
    BY <2>1, AgenciesAssumption
  <2>5. \A i \in Agencies \ {1, 2} : agencies[i] \in {NoAgency, FirstAgency(NoAgency, <<s>>)}
    <3> SUFFICES ASSUME NEW i \in Agencies \ {1, 2}
                 PROVE  agencies[i] \in {NoAgency, FirstAgency(NoAgency, <<s>>)}
      OBVIOUS
    <3> QED BY <2>1
  <2>6. agencies \in [Agencies -> AgencyRow \cup {NoAgency}]
    <3>1. \A i \in Agencies : agencies[i] \in AgencyRow \cup {NoAgency}
      BY <2>3, <2>4, <2>5
    <3>2. agencies = [i \in Agencies |-> agencies[i]]
      BY <2>1
    <3> QED BY <3>1, <3>2
  <2>7a. FirstAgency(NoAgency, <<s>>) # NoAgency
    BY <2>3, NoAgencyAssumption
  <2>7b. /\ FirstAgency(NoAgency, <<s>>).parent = NoAgency /\ FirstAgency(NoAgency, <<s>>).name = <<s>>
         /\ ~FirstAgency(NoAgency, <<s>>).deleted
         /\ FirstAgency(1, <<s, s>>).parent = 1 /\ FirstAgency(1, <<s, s>>).name = <<s, s>>
    BY DEF FirstAgency
  <2>7. /\ LiveAgency(1) /\ agencies[1].parent = NoAgency /\ agencies[1].name = <<s>>
        /\ agencies[2].parent = 1 /\ agencies[2].name = <<s, s>>
    BY <2>4, <2>7a, <2>7b DEF LiveAgency
  <2>8. \A i \in Agencies \ {1, 2} : LiveAgency(i) =>
           agencies[i].parent = NoAgency /\ agencies[i].name = <<s>>
    BY <2>5 DEF LiveAgency, FirstAgency
  <2>9a. Len(<<s>>) = 1 /\ Len(<<s, s>>) = 2 /\ <<s, s>>[1] = <<s>>[1]
    OBVIOUS
  <2>9. SubSeq(<<s, s>>, 1, 1) = <<s>> /\ Len(<<s>>) = 1 /\ Len(<<s, s>>) = 2
    BY <2>2, <2>9a, FirstPart
  <2>10. HierarchySound
    <3> SUFFICES ASSUME NEW i \in Agencies, LiveAgency(i) PROVE InTree(i)
      BY DEF HierarchySound
    <3>1. CASE i = 2
      BY <3>1, <2>7, <2>9, NoAgencyAssumption, AgenciesAssumption DEF InTree
    <3>2. CASE i # 2
      BY <3>2, <2>7, <2>8, <2>9 DEF InTree
    <3> QED BY <3>1, <3>2
  <2> QED BY <1>1, <1>2, <2>6, <2>10 DEF AgencyInv, AgencyTypes
<1> QED BY <1>3, <1>4

\* What a transaction on agencies has, by where it is.
LEMMA WriterTypes ==
  ASSUME AgencyTypes, NEW w \in AgencyWriters
  PROVE  /\ writers[w].held \subseteq Agencies
         /\ writers[w].at \in {"own", "children"} => writers[w] \in UpdateWriter
         /\ writers[w].at \in {"parent", "write"} => writers[w] \in CreateWriter \cup UpdateWriter
         /\ writers[w].at = "delete" => writers[w] \in DeleteWriter
<1>1. writers[w] \in [at : {"idle", "done"}, held : {{}}]
                      \cup (CreateWriter \cup (UpdateWriter \cup DeleteWriter))
  BY DEF AgencyTypes
<1>2. CASE writers[w] \in [at : {"idle", "done"}, held : {{}}]
  BY <1>2
<1>3. CASE writers[w] \in CreateWriter
  BY <1>3 DEF CreateWriter
<1>4. CASE writers[w] \in UpdateWriter
  BY <1>4 DEF UpdateWriter
<1>5. CASE writers[w] \in DeleteWriter
  BY <1>5 DEF DeleteWriter
<1> QED BY <1>1, <1>2, <1>3, <1>4, <1>5

\* What holds of the transactions holds of them once a row that none of them needs is written.
LEMMA OtherWriters ==
  ASSUME AgencyInv, NEW w \in AgencyWriters, NEW v \in AgencyWriters \ {w},
         writers'[v] = writers[v],
         \A i \in Agencies : agencies'[i] = agencies[i] \/ i \in writers[w].held \/ agencies[i] = NoAgency,
         \A i \in Agencies : agencies[i] # NoAgency => agencies'[i] # NoAgency,
         \A p \in Agencies \ writers[w].held : ChildrenOf(p)' \subseteq ChildrenOf(p)
  PROVE  WriterSound(v)'
<1>1. WriterSound(v) /\ writers[v].held \cap writers[w].held = {}
  BY DEF AgencyInv, LocksApart
<1>2. writers[v].held \subseteq Agencies
  BY WriterTypes DEF AgencyInv
<1> PICK t : t = writers[v]
  OBVIOUS
<1>3. \A i \in t.held : LiveAgency(i) => agencies'[i] = agencies[i]
  BY <1>1, <1>2 DEF LiveAgency
<1>4. \A i \in t.held : LiveAgency(i) => LiveAgency(i)'
  BY <1>3 DEF LiveAgency
<1>5. \A i \in t.held : ChildrenOf(i)' \subseteq ChildrenOf(i)
  BY <1>1, <1>2
<1>6. t.at = "children" => t.op = "update"
  BY WriterTypes DEF AgencyInv, UpdateWriter
<1>7. t.at \in {"parent", "write", "children"} /\ t.op = "update" => t.id \in t.held /\ LiveAgency(t.id)'
  BY <1>1, <1>4 DEF WriterSound
<1>8. t.at = "children" /\ t.parent # NoAgency =>
         /\ t.parent # t.id /\ LiveAgency(t.parent)'
         /\ agencies'[t.parent].parent = NoAgency
         /\ ChildrenOf(t.id)' = {}
  BY <1>1, <1>3, <1>4, <1>5, <1>6 DEF WriterSound
<1>9. t.at \in {"write", "children"} /\ t.parent # NoAgency => t.parent \in t.held
  BY <1>1 DEF WriterSound
<1>10. writers'[v] = t
  OBVIOUS
<1>11. t.at = "delete" => \A i \in t.ids : agencies'[i] # NoAgency
  <2>1. t.at = "delete" => t.ids \subseteq Agencies
    BY WriterTypes DEF AgencyInv, DeleteWriter
  <2> QED BY <1>1, <2>1 DEF WriterSound
<1> QED BY <1>7, <1>8, <1>9, <1>10, <1>11 DEF WriterSound

\* A transaction that writes no agency.
LEMMA AgencyMoves ==
  ASSUME AgencyInv, UNCHANGED agencies, NEW w \in AgencyWriters, NEW t,
         writers' = [writers EXCEPT ![w] = t],
         t \in [at : {"idle", "done"}, held : {{}}]
               \cup (CreateWriter \cup (UpdateWriter \cup DeleteWriter)),
         \A v \in AgencyWriters \ {w} : t.held \cap writers[v].held = {},
         WriterSound(w)'
  PROVE  AgencyInv'
<1>1. AgencyTypes /\ LocksApart /\ HierarchySound
  BY DEF AgencyInv
<1>2. AgencyTypes'
  BY <1>1 DEF AgencyTypes
<1>3. writers'[w] = t /\ \A v \in AgencyWriters \ {w} : writers'[v] = writers[v]
  BY <1>1 DEF AgencyTypes
<1>4. LocksApart'
  BY <1>1, <1>3 DEF LocksApart
<1>5. \A v \in AgencyWriters \ {w} : WriterSound(v)'
  BY <1>3, OtherWriters DEF LiveAgency, ChildrenOf
<1>6. HierarchySound'
  BY <1>1 DEF HierarchySound, InTree, LiveAgency
<1> QED BY <1>2, <1>4, <1>5, <1>6 DEF AgencyInv

\* A transaction that writes agencies and ends.
LEMMA AgencyWritten ==
  ASSUME AgencyInv, NEW w \in AgencyWriters, EndWriter(w),
         agencies' \in [Agencies -> AgencyRow \cup {NoAgency}], HierarchySound',
         \A i \in Agencies : agencies'[i] = agencies[i] \/ i \in writers[w].held \/ agencies[i] = NoAgency,
         \A i \in Agencies : agencies[i] # NoAgency => agencies'[i] # NoAgency,
         \A p \in Agencies \ writers[w].held : ChildrenOf(p)' \subseteq ChildrenOf(p)
  PROVE  AgencyInv'
<1>1. AgencyTypes /\ LocksApart
  BY DEF AgencyInv
<1>2. AgencyTypes'
  BY <1>1 DEF AgencyTypes, EndWriter
<1>3. /\ writers'[w] = [at |-> "done", held |-> {}]
      /\ \A v \in AgencyWriters \ {w} : writers'[v] = writers[v]
  BY <1>1 DEF AgencyTypes, EndWriter
<1>4. LocksApart' /\ WriterSound(w)'
  BY <1>1, <1>3 DEF LocksApart, WriterSound
<1>5. \A v \in AgencyWriters \ {w} : WriterSound(v)'
  BY <1>3, OtherWriters
<1> QED BY <1>2, <1>4, <1>5 DEF AgencyInv

\* A transaction that ends without a write.
LEMMA AgencyEnds ==
  ASSUME AgencyInv, UNCHANGED agencies, NEW w \in AgencyWriters, EndWriter(w)
  PROVE  AgencyInv'
<1> DEFINE t == [at |-> "done", held |-> {}]
<1>1. writers' = [writers EXCEPT ![w] = t] /\ writers'[w] = t
  BY DEF EndWriter, AgencyInv, AgencyTypes
<1>2. WriterSound(w)'
  BY <1>1 DEF WriterSound
<1>3. t \in [at : {"idle", "done"}, held : {{}}] /\ t.held = {}
  OBVIOUS
<1> HIDE DEF t
<1> QED BY <1>1, <1>2, <1>3, AgencyMoves

\* What a transaction has after a statement, or after it has locked one more row.
LEMMA WriterMoves ==
  ASSUME AgencyTypes, NEW w \in AgencyWriters, NEW at, NEW more \in SUBSET Agencies,
         \/ MoveTo(w, at) /\ more = {}
         \/ \E id \in Agencies : more = {id} /\ LockAndMove(w, id, at)
  PROVE  LET t == writers[w]
             u == writers'[w]
         IN  /\ writers' = [writers EXCEPT ![w] = u]
             /\ t \in CreateWriter \cup UpdateWriter \cup DeleteWriter =>
                   /\ u.at = at /\ u.op = t.op /\ u.held = t.held \cup more
             /\ t \in CreateWriter \cup UpdateWriter => u.id = t.id /\ u.parent = t.parent
             /\ t \in CreateWriter /\ at \in {"parent", "write"} => u \in CreateWriter
             /\ t \in UpdateWriter /\ at \in {"own", "parent", "write", "children"} => u \in UpdateWriter
             /\ t \in DeleteWriter => u.ids = t.ids
             /\ t \in DeleteWriter /\ at = "delete" => u \in DeleteWriter
<1> PICK t : t = writers[w]
  OBVIOUS
<1>1. PICK u : writers'[w] = u /\ writers' = [writers EXCEPT ![w] = u]
               /\ (\/ u = [t EXCEPT !.at = at] /\ more = {}
                   \/ u = [t EXCEPT !.at = at, !.held = @ \cup more])
  <2>1. CASE MoveTo(w, at) /\ more = {}
    BY <2>1 DEF MoveTo, AgencyTypes
  <2>2. CASE \E id \in Agencies : more = {id} /\ LockAndMove(w, id, at)
    BY <2>2 DEF LockAndMove, AgencyTypes
  <2> QED BY <2>1, <2>2
<1>2. ASSUME t \in CreateWriter
      PROVE  /\ u.at = at /\ u.op = t.op /\ u.held = t.held \cup more
             /\ u.id = t.id /\ u.parent = t.parent
             /\ at \in {"parent", "write"} => u \in CreateWriter
  <2>1. CASE u = [t EXCEPT !.at = at] /\ more = {}
    BY <1>2, <2>1 DEF CreateWriter
  <2>2. CASE u = [t EXCEPT !.at = at, !.held = @ \cup more]
    <3> PICK held \in SUBSET Agencies : held = t.held \cup more
      BY <1>2 DEF CreateWriter
    <3>1. u = [t EXCEPT !.at = at, !.held = held]
      BY <2>2
    <3> QED BY <1>2, <3>1 DEF CreateWriter
  <2> QED BY <1>1, <2>1, <2>2
<1>3. ASSUME t \in UpdateWriter
      PROVE  /\ u.at = at /\ u.op = t.op /\ u.held = t.held \cup more
             /\ u.id = t.id /\ u.parent = t.parent
             /\ at \in {"own", "parent", "write", "children"} => u \in UpdateWriter
  <2>1. CASE u = [t EXCEPT !.at = at] /\ more = {}
    BY <1>3, <2>1 DEF UpdateWriter
  <2>2. CASE u = [t EXCEPT !.at = at, !.held = @ \cup more]
    <3> PICK held \in SUBSET Agencies : held = t.held \cup more
      BY <1>3 DEF UpdateWriter
    <3>1. u = [t EXCEPT !.at = at, !.held = held]
      BY <2>2
    <3> QED BY <1>3, <3>1 DEF UpdateWriter
  <2> QED BY <1>1, <2>1, <2>2
<1>4. ASSUME t \in DeleteWriter
      PROVE  /\ u.at = at /\ u.op = t.op /\ u.held = t.held \cup more /\ u.ids = t.ids
             /\ at = "delete" => u \in DeleteWriter
  <2>1. CASE u = [t EXCEPT !.at = at] /\ more = {}
    BY <1>4, <2>1 DEF DeleteWriter
  <2>2. CASE u = [t EXCEPT !.at = at, !.held = @ \cup more]
    <3> PICK held \in SUBSET Agencies : held = t.held \cup more
      BY <1>4 DEF DeleteWriter
    <3>1. u = [t EXCEPT !.at = at, !.held = held]
      BY <2>2
    <3> QED BY <1>4, <3>1 DEF DeleteWriter
  <2> QED BY <1>1, <2>1, <2>2
<1>5. CASE t \in CreateWriter
  <2>1. t \notin UpdateWriter /\ t \notin DeleteWriter
    BY <1>5 DEF CreateWriter, UpdateWriter, DeleteWriter
  <2> QED BY <1>1, <1>2, <1>5, <2>1
<1>6. CASE t \in UpdateWriter
  <2>1. t \notin CreateWriter /\ t \notin DeleteWriter
    BY <1>6 DEF CreateWriter, UpdateWriter, DeleteWriter
  <2> QED BY <1>1, <1>3, <1>6, <2>1
<1>7. CASE t \in DeleteWriter
  <2>1. t \notin CreateWriter /\ t \notin UpdateWriter
    BY <1>7 DEF CreateWriter, UpdateWriter, DeleteWriter
  <2> QED BY <1>1, <1>4, <1>7, <2>1
<1> QED BY <1>1, <1>5, <1>6, <1>7

\* A row that is free is held by no other transaction.
LEMMA FreeRow ==
  ASSUME AgencyInv, NEW w \in AgencyWriters, NEW more,
         more = {} \/ \E id : ~AgencyLocked(id) /\ more = {id}
  PROVE  \A v \in AgencyWriters \ {w} : (writers[w].held \cup more) \cap writers[v].held = {}
BY DEF AgencyInv, LocksApart, AgencyLocked, HeldAgencies

\* A transaction begins with no row.
LEMMA AgencyBegins ==
  ASSUME AgencyInv, NEW w \in AgencyWriters,
         BeginCreateAgency(w) \/ BeginUpdateAgency(w) \/ BeginDeleteAgencies(w)
  PROVE  AgencyInv'
<1>0. AgencyTypes
  BY DEF AgencyInv
<1>1. CASE BeginCreateAgency(w)
  <2>1. PICK i \in Agencies, s \in ShortNames, p \in Agencies \cup {NoAgency} :
          writers' = [writers EXCEPT ![w] =
                [at |-> "parent", op |-> "create", id |-> i, parent |-> p, short |-> s,
                 on |-> TRUE, held |-> {}]]
    BY <1>1 DEF BeginCreateAgency
  <2>2. PICK t \in CreateWriter :
           t = [at |-> "parent", op |-> "create", id |-> i, parent |-> p, short |-> s,
                on |-> TRUE, held |-> {}]
    BY DEF CreateWriter
  <2>3. t.at = "parent" /\ t.op = "create" /\ t.held = {}
    BY <2>2
  <2>4. writers' = [writers EXCEPT ![w] = t] /\ writers'[w] = t /\ UNCHANGED agencies
    BY <1>0, <1>1, <2>1, <2>2 DEF AgencyTypes, BeginCreateAgency
  <2>5. WriterSound(w)'
    BY <2>3, <2>4 DEF WriterSound
  <2> QED BY <2>3, <2>4, <2>5, AgencyMoves
<1>2. CASE BeginUpdateAgency(w)
  <2>1. PICK i \in Agencies, s \in ShortNames, p \in Agencies \cup {NoAgency}, on \in BOOLEAN :
          /\ LiveAgency(i)
          /\ writers' = [writers EXCEPT ![w] =
                [at |-> "own", op |-> "update", id |-> i, parent |-> p, short |-> s,
                 on |-> on, seen |-> agencies[i].version, held |-> {}]]
    BY <1>2 DEF BeginUpdateAgency
  <2>2. agencies[i].version \in Nat
    BY <1>0, <2>1 DEF AgencyTypes, LiveAgency, AgencyRow
  <2>3. PICK t \in UpdateWriter :
           t = [at |-> "own", op |-> "update", id |-> i, parent |-> p, short |-> s,
                on |-> on, seen |-> agencies[i].version, held |-> {}]
    BY <2>2 DEF UpdateWriter
  <2>4. t.at = "own" /\ t.held = {}
    BY <2>3
  <2>5. writers' = [writers EXCEPT ![w] = t] /\ writers'[w] = t /\ UNCHANGED agencies
    BY <1>0, <1>2, <2>1, <2>3 DEF AgencyTypes, BeginUpdateAgency
  <2>6. WriterSound(w)'
    BY <2>4, <2>5 DEF WriterSound
  <2> QED BY <2>4, <2>5, <2>6, AgencyMoves
<1>3. CASE BeginDeleteAgencies(w)
  <2>1. PICK ids \in SUBSET Agencies :
          /\ \A i \in ids : LiveAgency(i)
          /\ writers' = [writers EXCEPT ![w] =
                [at |-> "delete", op |-> "delete", ids |-> ids, held |-> {}]]
    BY <1>3 DEF BeginDeleteAgencies
  <2>2. PICK t \in DeleteWriter : t = [at |-> "delete", op |-> "delete", ids |-> ids, held |-> {}]
    BY DEF DeleteWriter
  <2>3. t.at = "delete" /\ t.held = {} /\ \A i \in t.ids : agencies[i] # NoAgency
    BY <2>1, <2>2 DEF LiveAgency
  <2>4. writers' = [writers EXCEPT ![w] = t] /\ writers'[w] = t /\ UNCHANGED agencies
    BY <1>0, <1>3, <2>1, <2>2 DEF AgencyTypes, BeginDeleteAgencies
  <2>5. WriterSound(w)'
    BY <2>3, <2>4 DEF WriterSound
  <2> QED BY <2>3, <2>4, <2>5, AgencyMoves
<1> QED BY <1>1, <1>2, <1>3

\* A transaction locks a row, or goes on without one.
LEMMA AgencyLocks ==
  ASSUME AgencyInv, NEW w \in AgencyWriters,
         LockOwn(w) \/ LockParent(w) \/ NoParent(w) \/ LockChild(w) \/ LockDeleted(w)
  PROVE  AgencyInv'
<1>0. AgencyTypes /\ WriterSound(w)
  BY DEF AgencyInv
<1> PICK t : t = writers[w]
  OBVIOUS
<1>1. CASE LockOwn(w)
  <2>1. CASE EndWriter(w)
    BY <1>1, <2>1, AgencyEnds DEF LockOwn
  <2>2. CASE ~EndWriter(w)
    <3>1. /\ t.at = "own" /\ ~AgencyLocked(t.id) /\ LiveAgency(t.id)
          /\ LockAndMove(w, t.id, "parent") /\ UNCHANGED agencies
      BY <1>1, <2>2 DEF LockOwn
    <3>2. t \in UpdateWriter /\ t.id \in Agencies
      BY <1>0, <3>1, WriterTypes DEF UpdateWriter
    <3>3. PICK u : /\ writers'[w] = u /\ writers' = [writers EXCEPT ![w] = u]
                   /\ u.at = "parent" /\ u.held = t.held \cup {t.id} /\ u.id = t.id /\ u \in UpdateWriter
      <4> PICK c \in Agencies : c = t.id
        BY <3>2
      <4>1. {c} \in SUBSET Agencies /\ \E id \in Agencies : {c} = {id} /\ LockAndMove(w, id, "parent")
        BY <3>1
      <4>2. /\ writers' = [writers EXCEPT ![w] = writers'[w]]
            /\ t \in UpdateWriter =>
                  /\ writers'[w].at = "parent" /\ writers'[w].held = t.held \cup {c}
                  /\ writers'[w].id = t.id
            /\ t \in UpdateWriter => writers'[w] \in UpdateWriter
        BY <1>0, <4>1, WriterMoves
      <4> QED BY <3>2, <4>2
    <3>4. WriterSound(w)'
      BY <3>1, <3>3 DEF WriterSound, LiveAgency
    <3>5. \A v \in AgencyWriters \ {w} : u.held \cap writers[v].held = {}
      BY <3>1, <3>3, FreeRow
    <3> QED BY <3>1, <3>3, <3>4, <3>5, AgencyMoves
  <2> QED BY <2>1, <2>2
<1>2. CASE LockParent(w) \/ NoParent(w)
  <2>1. /\ t.at = "parent" /\ UNCHANGED agencies
        /\ \/ t.parent # NoAgency /\ ~AgencyLocked(t.parent) /\ LockAndMove(w, t.parent, "write")
           \/ t.parent = NoAgency /\ MoveTo(w, "write")
    BY <1>2 DEF LockParent, NoParent
  <2>2. t \in CreateWriter \cup UpdateWriter
    BY <1>0, <2>1, WriterTypes
  <2>3. t.parent \in Agencies \cup {NoAgency}
    BY <2>2 DEF CreateWriter, UpdateWriter
  <2> DEFINE more == {t.parent} \ {NoAgency}
  <2>4. /\ more \in SUBSET Agencies
        /\ \/ MoveTo(w, "write") /\ more = {}
           \/ \E id \in Agencies : more = {id} /\ LockAndMove(w, id, "write")
        /\ more = {} \/ \E id : ~AgencyLocked(id) /\ more = {id}
        /\ t.parent # NoAgency => t.parent \in more
    BY <2>1, <2>3
  <2> HIDE DEF more
  <2>5. PICK u : /\ writers'[w] = u /\ writers' = [writers EXCEPT ![w] = u]
                 /\ u.at = "write" /\ u.op = t.op /\ u.held = t.held \cup more
                 /\ u.id = t.id /\ u.parent = t.parent
                 /\ u \in CreateWriter \cup UpdateWriter
    <3>1. /\ writers' = [writers EXCEPT ![w] = writers'[w]]
          /\ t \in CreateWriter \cup UpdateWriter \cup DeleteWriter =>
                /\ writers'[w].at = "write" /\ writers'[w].op = t.op
                /\ writers'[w].held = t.held \cup more
          /\ t \in CreateWriter \cup UpdateWriter =>
                writers'[w].id = t.id /\ writers'[w].parent = t.parent
          /\ t \in CreateWriter => writers'[w] \in CreateWriter
          /\ t \in UpdateWriter => writers'[w] \in UpdateWriter
      BY <1>0, <2>4, WriterMoves
    <3> QED BY <2>2, <3>1
  <2>6. WriterSound(w)'
    BY <1>0, <2>1, <2>4, <2>5 DEF WriterSound, LiveAgency
  <2>7. \A v \in AgencyWriters \ {w} : u.held \cap writers[v].held = {}
    BY <2>4, <2>5, FreeRow
  <2> QED BY <2>1, <2>5, <2>6, <2>7, AgencyMoves
<1>3. CASE LockChild(w)
  <2>1. PICK c \in Agencies : t.at = "children" /\ ~AgencyLocked(c) /\ LockAndMove(w, c, "children")
                              /\ UNCHANGED agencies
    BY <1>3 DEF LockChild
  <2>2. t \in UpdateWriter
    BY <1>0, <2>1, WriterTypes
  <2>3. PICK u : /\ writers'[w] = u /\ writers' = [writers EXCEPT ![w] = u]
                 /\ u.at = "children" /\ u.op = t.op /\ u.held = t.held \cup {c}
                 /\ u.id = t.id /\ u.parent = t.parent /\ u \in UpdateWriter
    <3>1. {c} \in SUBSET Agencies /\ \E id \in Agencies : {c} = {id} /\ LockAndMove(w, id, "children")
      BY <2>1
    <3>2. /\ writers' = [writers EXCEPT ![w] = writers'[w]] /\ writers'[w] \in UpdateWriter
          /\ writers'[w].at = "children" /\ writers'[w].held = t.held \cup {c}
          /\ writers'[w].op = t.op /\ writers'[w].id = t.id /\ writers'[w].parent = t.parent
      BY <1>0, <2>2, <3>1, WriterMoves
    <3> QED BY <3>2
  <2>4. WriterSound(w)'
    BY <1>0, <2>1, <2>3 DEF WriterSound, LiveAgency, ChildrenOf
  <2>5. \A v \in AgencyWriters \ {w} : u.held \cap writers[v].held = {}
    BY <2>1, <2>3, FreeRow
  <2> QED BY <2>1, <2>3, <2>4, <2>5, AgencyMoves
<1>4. CASE LockDeleted(w)
  <2>1. PICK c \in Agencies : t.at = "delete" /\ ~AgencyLocked(c) /\ LockAndMove(w, c, "delete")
                              /\ UNCHANGED agencies
    BY <1>4 DEF LockDeleted
  <2>2. t \in DeleteWriter
    BY <1>0, <2>1, WriterTypes
  <2>3. PICK u : /\ writers'[w] = u /\ writers' = [writers EXCEPT ![w] = u]
                 /\ u.at = "delete" /\ u.held = t.held \cup {c} /\ u.ids = t.ids
                 /\ u \in DeleteWriter
    <3>1. {c} \in SUBSET Agencies /\ \E id \in Agencies : {c} = {id} /\ LockAndMove(w, id, "delete")
      BY <2>1
    <3>2. /\ writers' = [writers EXCEPT ![w] = writers'[w]] /\ writers'[w] \in DeleteWriter
          /\ writers'[w].at = "delete" /\ writers'[w].held = t.held \cup {c}
          /\ writers'[w].ids = t.ids
      BY <1>0, <2>2, <3>1, WriterMoves
    <3> QED BY <3>2
  <2>4. WriterSound(w)'
    BY <1>0, <2>1, <2>3 DEF WriterSound
  <2>5. \A v \in AgencyWriters \ {w} : u.held \cap writers[v].held = {}
    BY <2>1, <2>3, FreeRow
  <2> QED BY <2>1, <2>3, <2>4, <2>5, AgencyMoves
<1> QED BY <1>1, <1>2, <1>3, <1>4

\* What a transaction at its first write knows once it is allowed its parent.
LEMMA AllowedParent ==
  ASSUME AgencyInv, NEW w \in AgencyWriters, NEW t, t = writers[w],
         \/ t.at = "write" /\ ParentAllowed(t.id, OldParent(t), t.parent)
         \/ t.at = "children"
  PROVE  /\ t.id \in Agencies /\ t.short \in ShortNames /\ t.on \in BOOLEAN
         /\ t.parent \in Agencies \cup {NoAgency}
         /\ t.op = "update" => t.id \in t.held /\ LiveAgency(t.id)
         /\ t.parent # NoAgency =>
               /\ t.parent # t.id /\ t.parent \in t.held
               /\ LiveAgency(t.parent) /\ agencies[t.parent].parent = NoAgency
               /\ ChildrenOf(t.id) = {}
<1>1. AgencyTypes /\ WriterSound(w)
  BY DEF AgencyInv
<1>2. t \in CreateWriter \cup UpdateWriter /\ (t.at = "children" => t.op = "update")
  BY <1>1, WriterTypes DEF UpdateWriter
<1>3. /\ t.id \in Agencies /\ t.short \in ShortNames /\ t.on \in BOOLEAN
      /\ t.parent \in Agencies \cup {NoAgency}
  BY <1>2 DEF CreateWriter, UpdateWriter
<1> QED BY <1>1, <1>2, <1>3 DEF WriterSound, ParentAllowed

\* A live row is a row.
LEMMA LiveRow ==
  ASSUME AgencyTypes, NEW i \in Agencies, LiveAgency(i)
  PROVE  /\ agencies[i] \in AgencyRow /\ agencies[i] # NoAgency /\ ~agencies[i].deleted
         /\ agencies[i].name \in Seq(ShortNames) /\ agencies[i].version \in Nat
         /\ agencies[i].parent \in Agencies \cup {NoAgency}
<1>1. agencies[i] \in AgencyRow /\ agencies[i] # NoAgency /\ ~agencies[i].deleted
  BY DEF AgencyTypes, LiveAgency
<1> QED BY <1>1 DEF AgencyRow

\* The name of a row under an allowed parent.
LEMMA NameBelow ==
  ASSUME AgencyInv, NEW s \in ShortNames, NEW p \in Agencies \cup {NoAgency},
         p # NoAgency => LiveAgency(p) /\ agencies[p].parent = NoAgency
  PROVE  /\ AgencyName(s, p) \in Seq(ShortNames)
         /\ p = NoAgency => Len(AgencyName(s, p)) = 1
         /\ p # NoAgency => /\ Len(AgencyName(s, p)) = 2
                            /\ SubSeq(AgencyName(s, p), 1, 1) = agencies[p].name
<1>1. CASE p = NoAgency
  <2>1. <<s>> \in Seq(ShortNames) /\ Len(<<s>>) = 1
    OBVIOUS
  <2> QED BY <1>1, <2>1 DEF AgencyName
<1>2. CASE p # NoAgency
  <2>1. p \in Agencies
    BY <1>2
  <2>2. agencies[p].name \in Seq(ShortNames)
    BY <1>2, <2>1, LiveRow DEF AgencyInv
  <2>3. Len(agencies[p].name) = 1
    BY <1>2, <2>1, NoAgencyAssumption DEF AgencyInv, HierarchySound, InTree
  <2> QED BY <1>2, <2>2, <2>3, LowerName DEF AgencyName
<1> QED BY <1>1, <1>2

\* A row stays in the tree while its parent stays where it is and keeps its name.
LEMMA StaysInTree ==
  ASSUME NEW i, NEW p, InTree(i), p = agencies[i].parent,
         agencies'[i].parent = p, agencies'[i].name = agencies[i].name,
         p # NoAgency => /\ LiveAgency(p)' /\ agencies'[p].parent = agencies[p].parent
                         /\ agencies'[p].name = agencies[p].name
  PROVE  InTree(i)'
<1>1. CASE p = NoAgency
  BY <1>1 DEF InTree
<1>2. CASE p # NoAgency
  BY <1>2 DEF InTree, LiveAgency
<1> QED BY <1>1, <1>2

\* An agency is created under a parent that is locked.
LEMMA InsertionKeeps ==
  ASSUME AgencyInv, NEW w \in AgencyWriters, InsertAgency(w)
  PROVE  AgencyInv'
<1> PICK t : t = writers[w]
  OBVIOUS
<1> DEFINE name == AgencyName(t.short, t.parent)
<1> DEFINE row == FirstAgency(t.parent, name)
<1>0. AgencyTypes /\ HierarchySound
  BY DEF AgencyInv
<1>1. /\ t.at = "write" /\ t.op = "create" /\ agencies[t.id] = NoAgency
      /\ ParentAllowed(t.id, NoAgency, t.parent)
      /\ agencies' = [agencies EXCEPT ![t.id] = row] /\ EndWriter(w)
  BY DEF InsertAgency
<1>2. /\ t.id \in Agencies /\ t.short \in ShortNames /\ t.parent \in Agencies \cup {NoAgency}
      /\ t.parent # NoAgency =>
               /\ t.parent # t.id /\ t.parent \in t.held
               /\ LiveAgency(t.parent) /\ agencies[t.parent].parent = NoAgency
  BY <1>1, AllowedParent DEF OldParent
<1>3. /\ name \in Seq(ShortNames)
      /\ t.parent = NoAgency => Len(name) = 1
      /\ t.parent # NoAgency => Len(name) = 2 /\ SubSeq(name, 1, 1) = agencies[t.parent].name
  BY <1>2, NameBelow
<1> HIDE DEF name
<1>4. row \in AgencyRow /\ row.parent = t.parent /\ row.name = name
  BY <1>2, <1>3 DEF FirstAgency, AgencyRow
<1> HIDE DEF row
<1>5. /\ agencies'[t.id] = row
      /\ \A i \in Agencies \ {t.id} : agencies'[i] = agencies[i]
  BY <1>0, <1>1, <1>2 DEF AgencyTypes
<1>6. agencies' \in [Agencies -> AgencyRow \cup {NoAgency}]
  BY <1>0, <1>1, <1>4 DEF AgencyTypes
<1>7. \A i \in Agencies : LiveAgency(i) => i # t.id /\ LiveAgency(i)' /\ agencies'[i] = agencies[i]
  BY <1>1, <1>5 DEF LiveAgency
<1>8. HierarchySound'
  <2> SUFFICES ASSUME NEW i \in Agencies, LiveAgency(i)' PROVE InTree(i)'
    BY DEF HierarchySound
  <2>1. CASE i = t.id
    <3>1. CASE t.parent = NoAgency
      BY <1>3, <1>4, <1>5, <2>1, <3>1 DEF InTree
    <3>2. CASE t.parent # NoAgency
      <4>1. t.parent \in Agencies /\ LiveAgency(t.parent)' /\ agencies'[t.parent] = agencies[t.parent]
        BY <1>2, <1>7, <3>2
      <4> QED BY <1>2, <1>3, <1>4, <1>5, <2>1, <3>2, <4>1 DEF InTree
    <3> QED BY <3>1, <3>2
  <2>2. CASE i # t.id
    <3>1. LiveAgency(i) /\ agencies'[i] = agencies[i]
      BY <1>5, <2>2 DEF LiveAgency
    <3>2. InTree(i)
      BY <1>0, <3>1 DEF HierarchySound
    <3> PICK p : p = agencies[i].parent
      OBVIOUS
    <3>3. p # NoAgency => LiveAgency(p)' /\ agencies'[p] = agencies[p]
      BY <1>0, <1>7, <3>1, <3>2, LiveRow DEF InTree
    <3> QED BY <3>1, <3>2, <3>3, StaysInTree
  <2> QED BY <2>1, <2>2
<1>9. \A p \in Agencies \ t.held : ChildrenOf(p)' \subseteq ChildrenOf(p)
  <2> SUFFICES ASSUME NEW p \in Agencies \ t.held, NEW c \in Agencies,
                      LiveAgency(c)', agencies'[c].parent = p
               PROVE  c \in ChildrenOf(p)
    BY DEF ChildrenOf
  <2>1. p # NoAgency
    BY NoAgencyAssumption
  <2>2. c # t.id
    BY <1>2, <1>4, <1>5, <2>1
  <2> QED BY <1>5, <2>2 DEF ChildrenOf, LiveAgency
<1>10. \A i \in Agencies : agencies'[i] = agencies[i] \/ i \in writers[w].held \/ agencies[i] = NoAgency
  BY <1>1, <1>5
<1>11. \A i \in Agencies : agencies[i] # NoAgency => agencies'[i] # NoAgency
  BY <1>1, <1>5
<1> QED BY <1>1, <1>6, <1>8, <1>9, <1>10, <1>11, AgencyWritten

\* What is saved of an update that is allowed.
LEMMA SavedRow ==
  ASSUME AgencyInv, NEW w \in AgencyWriters, NEW t, t = writers[w], t.op = "update",
         \/ t.at = "write" /\ ParentAllowed(t.id, OldParent(t), t.parent)
         \/ t.at = "children"
  PROVE  /\ SavedAgency(t) \in AgencyRow /\ ~SavedAgency(t).deleted
         /\ SavedAgency(t).parent = t.parent
         /\ SavedAgency(t).name = AgencyName(t.short, t.parent)
<1>1. /\ t.id \in Agencies /\ t.short \in ShortNames /\ t.on \in BOOLEAN
      /\ t.parent \in Agencies \cup {NoAgency} /\ LiveAgency(t.id)
      /\ t.parent # NoAgency => LiveAgency(t.parent) /\ agencies[t.parent].parent = NoAgency
  BY AllowedParent
<1>2. AgencyName(t.short, t.parent) \in Seq(ShortNames)
  BY <1>1, NameBelow
<1> PICK row : row = agencies[t.id]
  OBVIOUS
<1>3. row \in AgencyRow /\ row.version \in Nat /\ ~row.deleted
  BY <1>1, LiveRow DEF AgencyInv
<1> PICK name : name = AgencyName(t.short, t.parent)
  OBVIOUS
<1>4. PICK v \in Nat : v = row.version + 1
  BY <1>3
<1>5. SavedAgency(t) = [row EXCEPT !.parent = t.parent, !.enabled = t.on, !.version = v, !.name = name]
  BY <1>4 DEF SavedAgency
<1> QED BY <1>1, <1>2, <1>3, <1>5 DEF AgencyRow

\* A name that stays is saved at once; the children keep theirs.
LEMMA SaveKeepsTree ==
  ASSUME AgencyInv, NEW w \in AgencyWriters, SaveAgency(w)
  PROVE  AgencyInv'
<1> PICK t : t = writers[w]
  OBVIOUS
<1>0. AgencyTypes /\ HierarchySound /\ WriterSound(w)
  BY DEF AgencyInv
<1>1. t.at = "write" /\ t.op = "update" /\ ParentAllowed(t.id, OldParent(t), t.parent)
  BY DEF SaveAgency
<1>2. /\ t.id \in Agencies /\ t.short \in ShortNames /\ t.parent \in Agencies \cup {NoAgency}
      /\ t.id \in t.held /\ LiveAgency(t.id)
      /\ t.parent # NoAgency =>
               /\ t.parent # t.id /\ t.parent \in t.held
               /\ LiveAgency(t.parent) /\ agencies[t.parent].parent = NoAgency
               /\ ChildrenOf(t.id) = {}
  BY <1>1, AllowedParent
<1>3. CASE SavedAgency(t).name # agencies[t.id].name
  <2>1. MoveTo(w, "children") /\ UNCHANGED agencies
    BY <1>3 DEF SaveAgency
  <2>2. t \in UpdateWriter
    BY <1>0, <1>1, WriterTypes DEF CreateWriter
  <2>3. /\ writers' = [writers EXCEPT ![w] = writers'[w]]
        /\ t \in UpdateWriter =>
              /\ writers'[w].at = "children" /\ writers'[w].op = t.op
              /\ writers'[w].held = t.held \cup {}
        /\ t \in UpdateWriter => writers'[w].id = t.id /\ writers'[w].parent = t.parent
        /\ t \in UpdateWriter => writers'[w] \in UpdateWriter
    BY <1>0, <2>1, {} \in SUBSET Agencies, WriterMoves
  <2>4. PICK u : /\ writers'[w] = u /\ writers' = [writers EXCEPT ![w] = u]
                 /\ u.at = "children" /\ u.op = t.op /\ u.held = t.held \cup {}
                 /\ u.id = t.id /\ u.parent = t.parent /\ u \in UpdateWriter
    BY <2>2, <2>3
  <2>5. WriterSound(w)'
    BY <1>1, <1>2, <2>1, <2>4 DEF WriterSound, LiveAgency, ChildrenOf
  <2>6. \A v \in AgencyWriters \ {w} : u.held \cap writers[v].held = {}
    BY <2>4, FreeRow
  <2> QED BY <2>1, <2>4, <2>5, <2>6, AgencyMoves
<1>4. CASE SavedAgency(t).name = agencies[t.id].name
  <2> PICK row : row = SavedAgency(t)
    OBVIOUS
  <2>1. /\ row \in AgencyRow /\ ~row.deleted /\ row.parent = t.parent
        /\ row.name = agencies[t.id].name /\ row.name = AgencyName(t.short, t.parent)
    BY <1>1, <1>4, SavedRow
  <2>2. agencies' = [agencies EXCEPT ![t.id] = row] /\ EndWriter(w)
    BY <1>4 DEF SaveAgency
  <2>3. agencies'[t.id] = row /\ \A i \in Agencies \ {t.id} : agencies'[i] = agencies[i]
    BY <1>0, <1>2, <2>2 DEF AgencyTypes
  <2>4. agencies' \in [Agencies -> AgencyRow \cup {NoAgency}]
    BY <1>0, <2>1, <2>2 DEF AgencyTypes
  <2>5. row # NoAgency
    BY <2>1, NoAgencyAssumption
  <2>6. \A i \in Agencies : LiveAgency(i)' <=> LiveAgency(i)
    BY <1>2, <2>1, <2>3, <2>5 DEF LiveAgency
  <2>7. /\ row.parent = NoAgency => Len(row.name) = 1
        /\ row.parent # NoAgency => /\ Len(row.name) = 2
                                    /\ SubSeq(row.name, 1, 1) = agencies[row.parent].name
    BY <1>2, <2>1, NameBelow
  <2>8. HierarchySound'
    <3> SUFFICES ASSUME NEW i \in Agencies, LiveAgency(i)' PROVE InTree(i)'
      BY DEF HierarchySound
    <3>0. LiveAgency(i) /\ InTree(i)
      BY <1>0, <2>6 DEF HierarchySound
    <3>1. CASE i = t.id
      <4>1. CASE row.parent = NoAgency
        BY <2>3, <2>7, <3>1, <4>1 DEF InTree
      <4>2. CASE row.parent # NoAgency
        <5> PICK p \in Agencies : p = row.parent
          BY <1>2, <2>1, <4>2
        <5>1. /\ p # i /\ LiveAgency(p)' /\ agencies'[p] = agencies[p]
              /\ agencies[p].parent = NoAgency
          BY <1>2, <2>1, <2>3, <2>6, <3>1, <4>2
        <5> QED BY <2>3, <2>7, <3>1, <4>2, <5>1 DEF InTree
      <4> QED BY <4>1, <4>2
    <3>2. CASE i # t.id
      <4> PICK p : p = agencies[i].parent
        OBVIOUS
      <4>1. CASE p = t.id
        <5>1. i \in ChildrenOf(t.id) /\ agencies[p].parent = NoAgency
          BY <1>2, <3>0, <4>1, NoAgencyAssumption DEF ChildrenOf, InTree
        <5>2. t.parent = NoAgency
          BY <1>2, <5>1
        <5>3. LiveAgency(p)' /\ agencies'[p].parent = agencies[p].parent /\ agencies'[p].name = agencies[p].name
          BY <1>2, <2>1, <2>3, <2>6, <4>1, <5>1, <5>2
        <5> QED BY <2>3, <3>0, <3>2, <5>3, StaysInTree
      <4>2. CASE p # t.id
        <5>1. p # NoAgency => LiveAgency(p)' /\ agencies'[p] = agencies[p]
          BY <1>0, <2>3, <2>6, <3>0, <4>2, LiveRow DEF InTree
        <5> QED BY <2>3, <3>0, <3>2, <5>1, StaysInTree
      <4> QED BY <4>1, <4>2
    <3> QED BY <3>1, <3>2
  <2>9. \A p \in Agencies \ t.held : ChildrenOf(p)' \subseteq ChildrenOf(p)
    <3> SUFFICES ASSUME NEW p \in Agencies \ t.held, NEW c \in Agencies,
                        LiveAgency(c)', agencies'[c].parent = p
                 PROVE  c \in ChildrenOf(p)
      BY DEF ChildrenOf
    <3>1. p # NoAgency
      BY NoAgencyAssumption
    <3>2. c # t.id
      BY <1>2, <2>1, <2>3, <3>1
    <3> QED BY <2>3, <2>6, <3>2 DEF ChildrenOf
  <2>10. \A i \in Agencies : agencies'[i] = agencies[i] \/ i \in writers[w].held \/ agencies[i] = NoAgency
    BY <1>2, <2>3
  <2>11. \A i \in Agencies : agencies[i] # NoAgency => agencies'[i] # NoAgency
    BY <2>3, <2>5
  <2> QED BY <2>2, <2>4, <2>8, <2>9, <2>10, <2>11, AgencyWritten
<1> QED BY <1>3, <1>4

\* A new name goes on to the children, all of which are locked.
LEMMA RenamingKeeps ==
  ASSUME AgencyInv, NEW w \in AgencyWriters, RenameChildren(w)
  PROVE  AgencyInv'
<1> PICK t : t = writers[w]
  OBVIOUS
<1> PICK children : children = ChildrenOf(t.id)
  OBVIOUS
<1>0. AgencyTypes /\ HierarchySound
  BY DEF AgencyInv
<1>1. t.at = "children" /\ children \subseteq t.held /\ EndWriter(w)
  BY DEF RenameChildren
<1>2. t.op = "update"
  BY <1>0, <1>1, WriterTypes DEF UpdateWriter
<1>3. /\ t.id \in Agencies /\ t.short \in ShortNames /\ t.parent \in Agencies \cup {NoAgency}
      /\ t.id \in t.held /\ LiveAgency(t.id)
      /\ t.parent # NoAgency =>
               /\ t.parent # t.id /\ t.parent \in t.held
               /\ LiveAgency(t.parent) /\ agencies[t.parent].parent = NoAgency
               /\ children = {}
  BY <1>1, <1>2, AllowedParent
<1> PICK row : row = SavedAgency(t)
  OBVIOUS
<1>4. /\ row \in AgencyRow /\ ~row.deleted /\ row.parent = t.parent
      /\ row.name = AgencyName(t.short, t.parent)
  BY <1>1, <1>2, SavedRow
<1>5. /\ row.name \in Seq(ShortNames)
      /\ row.parent = NoAgency => Len(row.name) = 1
      /\ row.parent # NoAgency => /\ Len(row.name) = 2
                                  /\ SubSeq(row.name, 1, 1) = agencies[row.parent].name
  BY <1>3, <1>4, NameBelow
<1>6. \A c \in children : /\ c \in Agencies /\ LiveAgency(c) /\ agencies[c].parent = t.id /\ c # t.id
                          /\ agencies[t.id].parent = NoAgency
                          /\ Len(agencies[c].name) = 2 /\ Len(agencies[t.id].name) = 1
  BY <1>0, <1>3, NoAgencyAssumption DEF ChildrenOf, HierarchySound, InTree
<1>7. agencies' = [i \in Agencies |->
              CASE i = t.id -> row
                [] i # t.id /\ i \in children -> Renamed(t, i)
                [] OTHER -> agencies[i]]
  BY DEF RenameChildren
<1>8. /\ agencies'[t.id] = row
      /\ \A i \in Agencies \ {t.id} : i \notin children => agencies'[i] = agencies[i]
  BY <1>3, <1>7
<1>9. ASSUME NEW c \in children
      PROVE  /\ agencies'[c] \in AgencyRow /\ ~agencies'[c].deleted
             /\ agencies'[c].parent = t.id
             /\ Len(agencies'[c].name) = 2 /\ SubSeq(agencies'[c].name, 1, 1) = row.name
  <2> PICK old : old = agencies[c]
    OBVIOUS
  <2>1. /\ old \in AgencyRow /\ ~old.deleted /\ old.name \in Seq(ShortNames) /\ old.version \in Nat
        /\ old.parent = t.id /\ Len(old.name) = 2 /\ Len(agencies[t.id].name) = 1
    BY <1>0, <1>6, LiveRow
  <2>2. t.parent = NoAgency
    BY <1>3
  <2> PICK tail : tail = SubSeq(old.name, 2, Len(old.name))
    OBVIOUS
  <2>3. PICK name \in Seq(ShortNames) : /\ name = row.name \o tail /\ Len(name) = 2
                                        /\ SubSeq(name, 1, 1) = row.name
    BY <1>4, <1>5, <2>1, <2>2, MovedName
  <2>4. PICK v \in Nat : v = old.version + 1
    BY <2>1
  <2>5. Renamed(t, c) = [old EXCEPT !.name = name, !.version = v]
    <3>1. Len(agencies[t.id].name) + 1 = 2
      BY <2>1
    <3>2. name = SavedAgency(t).name \o SubSeq(old.name, Len(agencies[t.id].name) + 1, Len(old.name))
      BY <2>3, <3>1
    <3> QED BY <2>4, <3>2 DEF Renamed
  <2>6. agencies'[c] = [old EXCEPT !.name = name, !.version = v]
    BY <1>6, <1>7, <2>5
  <2> QED BY <2>1, <2>3, <2>6 DEF AgencyRow
<1>10. agencies' \in [Agencies -> AgencyRow \cup {NoAgency}]
  <2>1. \A i \in Agencies : agencies'[i] \in AgencyRow \cup {NoAgency}
    <3> SUFFICES ASSUME NEW i \in Agencies PROVE agencies'[i] \in AgencyRow \cup {NoAgency}
      OBVIOUS
    <3>1. CASE i = t.id
      BY <1>4, <1>8, <3>1
    <3>2. CASE i # t.id /\ i \in children
      BY <1>9, <3>2
    <3>3. CASE i # t.id /\ i \notin children
      BY <1>0, <1>8, <3>3 DEF AgencyTypes
    <3> QED BY <3>1, <3>2, <3>3
  <2> QED BY <1>7, <2>1
<1>11. row # NoAgency /\ \A c \in children : agencies'[c] # NoAgency
  BY <1>4, <1>9, NoAgencyAssumption
<1>12. \A i \in Agencies : LiveAgency(i)' <=> LiveAgency(i)
  BY <1>3, <1>4, <1>6, <1>8, <1>9, <1>11 DEF LiveAgency
<1>13. HierarchySound'
  <2> SUFFICES ASSUME NEW i \in Agencies, LiveAgency(i)' PROVE InTree(i)'
    BY DEF HierarchySound
  <2>0. LiveAgency(i) /\ InTree(i)
    BY <1>0, <1>12 DEF HierarchySound
  <2>1. CASE i = t.id
    <3>1. CASE row.parent = NoAgency
      BY <1>5, <1>8, <2>1, <3>1 DEF InTree
    <3>2. CASE row.parent # NoAgency
      <4> PICK p \in Agencies : p = row.parent
        BY <1>3, <1>4, <3>2
      <4>1. /\ p # i /\ LiveAgency(p)' /\ agencies'[p] = agencies[p]
            /\ agencies[p].parent = NoAgency
        BY <1>3, <1>4, <1>8, <1>12, <2>1, <3>2
      <4> QED BY <1>5, <1>8, <2>1, <3>2, <4>1 DEF InTree
    <3> QED BY <3>1, <3>2
  <2>2. CASE i # t.id /\ i \in children
    <3>1. t.parent = NoAgency /\ LiveAgency(t.id)'
      BY <1>3, <1>12, <2>2
    <3>2. t.id # NoAgency
      BY <1>3, NoAgencyAssumption
    <3> QED BY <1>4, <1>8, <1>9, <2>2, <3>1, <3>2 DEF InTree
  <2>3. CASE i # t.id /\ i \notin children
    <3> PICK p : p = agencies[i].parent
      OBVIOUS
    <3>1. p # t.id
      BY <2>0, <2>3 DEF ChildrenOf
    <3>2. p # NoAgency => p \in Agencies /\ LiveAgency(p) /\ agencies[p].parent = NoAgency
      BY <1>0, <2>0, LiveRow DEF InTree
    <3>3. p # NoAgency => p \notin children
      BY <1>3, <1>6, <3>2, NoAgencyAssumption
    <3>4. p # NoAgency => LiveAgency(p)' /\ agencies'[p] = agencies[p]
      BY <1>8, <1>12, <3>1, <3>2, <3>3
    <3> QED BY <1>8, <2>0, <2>3, <3>4, StaysInTree
  <2> QED BY <2>1, <2>2, <2>3
<1>14. \A p \in Agencies \ t.held : ChildrenOf(p)' \subseteq ChildrenOf(p)
  <2> SUFFICES ASSUME NEW p \in Agencies \ t.held, NEW c \in Agencies,
                      LiveAgency(c)', agencies'[c].parent = p
               PROVE  c \in ChildrenOf(p)
    BY DEF ChildrenOf
  <2>1. p # NoAgency /\ p # t.id
    BY <1>3, NoAgencyAssumption
  <2>2. c # t.id /\ c \notin children
    BY <1>3, <1>4, <1>8, <1>9, <2>1
  <2> QED BY <1>8, <1>12, <2>2 DEF ChildrenOf
<1>15. \A i \in Agencies : agencies'[i] = agencies[i] \/ i \in writers[w].held \/ agencies[i] = NoAgency
  BY <1>1, <1>3, <1>8
<1>16. \A i \in Agencies : agencies[i] # NoAgency => agencies'[i] # NoAgency
  BY <1>8, <1>11
<1> QED BY <1>1, <1>10, <1>13, <1>14, <1>15, <1>16, AgencyWritten

\* Agencies are deleted with all their children, or not at all.
LEMMA AgencyDeletionKeeps ==
  ASSUME AgencyInv, NEW w \in AgencyWriters, DeleteAgencies(w)
  PROVE  AgencyInv'
<1> PICK t : t = writers[w]
  OBVIOUS
<1>0. AgencyTypes /\ HierarchySound
  BY DEF AgencyInv
<1>1. t.at = "delete" /\ t.ids \subseteq t.held /\ EndWriter(w)
  BY DEF DeleteAgencies
<1>2. CASE \E i \in t.ids : ChildrenOf(i) \ t.ids # {}
  BY <1>1, <1>2, AgencyEnds DEF DeleteAgencies
<1>3. CASE ~\E i \in t.ids : ChildrenOf(i) \ t.ids # {}
  <2>1. agencies' = [i \in Agencies |-> IF i \in t.ids THEN [agencies[i] EXCEPT !.deleted = TRUE]
                                        ELSE agencies[i]]
    BY <1>3 DEF DeleteAgencies
  <2>2. t.ids \subseteq Agencies /\ \A i \in t.ids : agencies[i] # NoAgency
    BY <1>0, <1>1, WriterTypes DEF DeleteWriter, AgencyInv, WriterSound
  <2>3. \A i \in t.ids : agencies'[i] \in AgencyRow /\ agencies'[i].deleted
    BY <1>0, <2>1, <2>2 DEF AgencyTypes, AgencyRow
  <2>4. \A i \in Agencies \ t.ids : agencies'[i] = agencies[i]
    BY <2>1
  <2>5. agencies' \in [Agencies -> AgencyRow \cup {NoAgency}]
    <3>1. \A i \in Agencies : agencies'[i] \in AgencyRow \cup {NoAgency}
      BY <1>0, <2>3, <2>4 DEF AgencyTypes
    <3> QED BY <2>1, <3>1
  <2>6. \A i \in Agencies : LiveAgency(i)' => i \notin t.ids /\ LiveAgency(i) /\ agencies'[i] = agencies[i]
    BY <2>3, <2>4 DEF LiveAgency
  <2>7. HierarchySound'
    <3> SUFFICES ASSUME NEW i \in Agencies, LiveAgency(i)' PROVE InTree(i)'
      BY DEF HierarchySound
    <3>1. LiveAgency(i) /\ InTree(i) /\ i \notin t.ids /\ agencies'[i] = agencies[i]
      BY <1>0, <2>6 DEF HierarchySound
    <3> PICK p : p = agencies[i].parent
      OBVIOUS
    <3>2. p # NoAgency => p \in Agencies /\ LiveAgency(p)
      BY <1>0, <3>1, LiveRow DEF InTree
    <3>3. p \notin t.ids
      BY <1>3, <3>1 DEF ChildrenOf
    <3>4. p # NoAgency => LiveAgency(p)' /\ agencies'[p] = agencies[p]
      BY <2>4, <3>2, <3>3 DEF LiveAgency
    <3> QED BY <3>1, <3>4, StaysInTree
  <2>8. \A p \in Agencies \ t.held : ChildrenOf(p)' \subseteq ChildrenOf(p)
    BY <2>6 DEF ChildrenOf
  <2>9. \A i \in Agencies : /\ agencies'[i] = agencies[i] \/ i \in writers[w].held
                            /\ agencies[i] # NoAgency => agencies'[i] # NoAgency
    BY <1>1, <2>3, <2>4, NoAgencyAssumption
  <2> QED BY <1>1, <2>5, <2>7, <2>8, <2>9, AgencyWritten
<1> QED BY <1>2, <1>3

\* Every step of every transaction keeps the tree.
LEMMA AgencyStepKeeps == AgencyInv /\ (AgencyNext \/ UNCHANGED agencyVars) => AgencyInv'
<1> SUFFICES ASSUME AgencyInv, AgencyNext \/ UNCHANGED agencyVars PROVE AgencyInv'
  OBVIOUS
<1>1. CASE UNCHANGED agencyVars
  BY <1>1 DEF agencyVars, AgencyInv, AgencyTypes, LocksApart, WriterSound, HierarchySound, InTree,
              LiveAgency, ChildrenOf
<1>2. CASE AgencyNext
  <2>1. PICK w \in AgencyWriters : AgencyStep(w)
    BY <1>2 DEF AgencyNext
  <2>2. CASE RefuseAgency(w) \/ DuplicateAgency(w) \/ BreakDeadlock(w)
    BY <2>2, AgencyEnds DEF RefuseAgency, DuplicateAgency, BreakDeadlock
  <2> QED BY <2>1, <2>2, AgencyBegins, AgencyLocks, InsertionKeeps, SaveKeepsTree, RenamingKeeps,
             AgencyDeletionKeeps DEF AgencyStep
<1> QED BY <1>1, <1>2

\* Whatever agencies are created, moved, renamed and deleted at once, a live agency's parent is
\* live and at the top, and its name starts with the parent's current name
\* (agencies.service.ts: requireParent, update, remove).
THEOREM HierarchyStaysSound == BackOfficeSpec => []HierarchySound
<1>1. BackOfficeInit => AgencyInv
  BY AgencyStart DEF BackOfficeInit
<1>2. AgencyInv /\ [BackOfficeNext]_backVars => AgencyInv'
  BY AgencyStepKeeps, AgenciesAlone
<1>3. AgencyInv => HierarchySound
  BY DEF AgencyInv
<1> QED BY <1>1, <1>2, <1>3, PTL DEF BackOfficeSpec

-----------------------------------------------------------------------------
(* Releases *)

\* A step of the back office is a step of the release or leaves its state as it is.
LEMMA ReleaseAlone == [BackOfficeNext]_backVars => [ReleaseNext]_releaseVars
BY DEF BackOfficeNext, AgenciesStep, NumbersStep, AlertsStep, ReportsStep, VisitsStep,
       ShengxuStep, DictionariesStep, ResourcesStep, ReleaseStep, backVars

\* The stage of an operation says what is known of it.
LEMMA DeployerKinds ==
  ASSUME ReleaseTypes
  PROVE  /\ deployer.at \in DeploySteps => deployer \in Deploying
         /\ deployer.at \in ActivateSteps => deployer \in Activating
         /\ deployer.at = "unlink" => deployer \in [at : {"unlink"}, keep : SUBSET Nat]
BY DEF ReleaseTypes, Deploying, Activating, Cleaning, NoOperation, DeploySteps, ActivateSteps

\* The next stage of an operation keeps the rest of it.
LEMMA StageMoved ==
  ASSUME ReleaseTypes, NEW at, Running(deployer, at)
  PROVE  /\ deployer \in Deploying =>
              /\ deployer'.at = at /\ deployer'.image = deployer.image
              /\ deployer'.named = deployer.named /\ deployer'.release = deployer.release
              /\ at \in DeploySteps => deployer' \in Deploying
         /\ deployer \in Activating =>
              /\ deployer'.at = at /\ deployer'.image = deployer.image
              /\ deployer'.restore = deployer.restore /\ deployer'.release = deployer.release
              /\ deployer'.kind = deployer.kind
              /\ at \in ActivateSteps => deployer' \in Activating
BY DEF Running, Deploying, Activating

\* An operation that ends leaves nothing to be kept.
LEMMA Ended ==
  ASSUME EndOperation
  PROVE  /\ deployer'.at = "idle" /\ deployer' = NoOperation
         /\ deployer'.at \notin DeploySteps \cup ActivateSteps
BY DEF EndOperation, NoOperation, DeploySteps, ActivateSteps

\* What a target supports it serves: compatible migrations are confirmed ones.
LEMMA SupportedServes ==
  ASSUME stateFile.compatible \subseteq confirmed, NEW i, Supports(Manifest(i), Applied)
  PROVE  Serves(i)
BY DEF Supports, Serves, Destructive

\* The states a host can be released on.
LEMMA ReleaseInitInv == ReleaseInit => ReleaseInv /\ ServingInv
<1> SUFFICES ASSUME ReleaseInit PROVE ReleaseInv /\ ServingInv
  OBVIOUS
<1>1. deployer.at = "idle" /\ deployer = NoOperation
  BY DEF ReleaseInit, NoOperation
<1>2. deployer.at \notin DeploySteps \cup ActivateSteps /\ deployer.at # "unlink"
  BY <1>1 DEF DeploySteps, ActivateSteps
<1>3. CASE Current = None
  <2>1. /\ DOMAIN records = {} /\ container = None /\ lastRelease = 0
        /\ stateFile.previous = None /\ stateFile.compatible = {} /\ confirmed = {}
        /\ DOMAIN stateFile = {"current", "previous", "history", "compatible"}
        /\ images \subseteq Images
    BY <1>3, ImagesAssumption, NoneAssumption DEF ReleaseInit, Current
  <2> QED
    BY <1>1, <1>2, <1>3, <2>1 DEF ReleaseInv, ServingInv, ReleaseTypes, VerifiedApplied,
       Verified, ReleasesKept, SchemaServed, CurrentServes
<1>4. CASE Current # None
  <2>1. /\ records = [r \in {1} |-> [image |-> FirstImage, status |-> "verified"]]
        /\ container = FirstImage /\ lastRelease = 1 /\ images = {FirstImage}
        /\ stateFile = [current |-> 1, previous |-> None,
                        history |-> Manifest(FirstImage), compatible |-> {}]
        /\ confirmed = {} /\ Applied = DOMAIN Manifest(FirstImage)
    BY <1>4 DEF ReleaseInit, Current, Applied
  <2>2. /\ DOMAIN records = {1} /\ records[1].image = FirstImage /\ Verified = {1}
        /\ Current = 1 /\ stateFile.previous = None /\ stateFile.compatible = {}
        /\ DOMAIN stateFile = {"current", "previous", "history", "compatible"}
    BY <2>1 DEF Verified, Current
  <2>3. ReleaseTypes
    BY <1>1, <2>1, <2>2, ImagesAssumption DEF ReleaseTypes
  <2>4. Serves(FirstImage) /\ Pending(Manifest(FirstImage)) = {}
    BY <2>1 DEF Serves, Pending
  <2>5. ReleaseInv
    BY <1>2, <2>1, <2>2, <2>3, <2>4, NoneAssumption DEF ReleaseInv, ReleasesKept, VerifiedApplied
  <2>6. ServingInv
    BY <1>2, <2>1, <2>2, <2>4, NoneAssumption DEF ServingInv, SchemaServed, CurrentServes
  <2> QED BY <2>5, <2>6
<1> QED BY <1>3, <1>4

\* An operation that only ends, or leaves the host as it is, keeps what was there.
LEMMA HostKept ==
  ASSUME ReleaseInv, ReleaseTypes',
         UNCHANGED <<migrated, confirmed, stateFile, records>>,
         {records[r].image : r \in {Current, stateFile.previous} \ {None}} \subseteq images',
         deployer'.at \in DeploySteps => DeploymentSound(deployer)',
         deployer'.at \in ActivateSteps => ActivationSound(deployer)',
         deployer'.at = "unlink" => {Current, stateFile.previous} \ {None} \subseteq deployer'.keep
  PROVE  ReleaseInv'
<1>1. /\ Current' = Current /\ Applied' = Applied /\ Verified' = Verified
      /\ \A i : Serves(i)' <=> Serves(i)
      /\ \A m : Pending(m)' = Pending(m)
  BY DEF Current, Applied, Verified, Serves, Pending
<1> QED BY <1>1 DEF ReleaseInv, ReleasesKept, VerifiedApplied

\* Reviewing, building and the beginning of a rollback.
LEMMA PrepareKeeps ==
  ASSUME ReleaseInv, BeginDeploy \/ BuildImage \/ Publish \/ BeginRollback
  PROVE  ReleaseInv'
<1> USE DEF ReleaseInv
<1>0. ReleaseTypes
  OBVIOUS
<1>1. CASE BeginDeploy
  <2>1. PICK image, named :
          /\ image \in Images
          /\ Reviewed(Manifest(image), named)
          /\ named = {} \/ named = Pending(Manifest(image))
          /\ deployer' = [at |-> "build", image |-> image, named |-> named,
                          release |-> lastRelease + 1]
    BY <1>1 DEF BeginDeploy
  <2>2. named \in SUBSET Migrations
    BY <2>1 DEF Migrations, Pending
  <2>3. deployer' \in Deploying
    BY <1>0, <2>1, <2>2 DEF Deploying, DeploySteps, ReleaseTypes
  <2>4. ReleaseTypes'
    BY <1>0, <1>1, <2>3 DEF BeginDeploy, ReleaseTypes
  <2>5. DeploymentSound(deployer)'
    BY <1>0, <1>1, <2>1 DEF BeginDeploy, ReleaseTypes, DeploymentSound
  <2> QED
    BY <1>1, <2>1, <2>4, <2>5, HostKept DEF BeginDeploy, ActivateSteps, ReleasesKept
<1>2. CASE BuildImage
  <2>1. deployer \in Deploying /\ DeploymentSound(deployer) /\ deployer.at = "build"
    BY <1>0, <1>2, DeployerKinds DEF BuildImage, DeploySteps
  <2>2. CASE Reviewed(Manifest(deployer.image), deployer.named)
    <3>1. /\ Running(deployer, "publish") /\ images' = images \cup {deployer.image}
          /\ UNCHANGED <<migrated, confirmed, stateFile, records, container, lastRelease>>
      BY <1>2, <2>2 DEF BuildImage
    <3>2. /\ deployer'.at = "publish" /\ deployer'.image = deployer.image
          /\ deployer'.named = deployer.named /\ deployer'.release = deployer.release
          /\ deployer' \in Deploying
      BY <1>0, <2>1, <3>1, StageMoved DEF DeploySteps
    <3>3. deployer.image \in Images
      BY <2>1 DEF Deploying
    <3>4. ReleaseTypes'
      BY <1>0, <3>1, <3>2, <3>3 DEF ReleaseTypes
    <3>5. Serves(deployer.image)
      BY <2>2, SupportedServes DEF Reviewed
    <3>6. DeploymentSound(deployer)'
      BY <2>1, <2>2, <3>1, <3>2, <3>5
      DEF DeploymentSound, Reviewed, Serves, Pending, Applied, Destructive
    <3> QED
      BY <3>1, <3>2, <3>4, <3>6, HostKept DEF ActivateSteps, ReleasesKept
  <2>3. CASE ~Reviewed(Manifest(deployer.image), deployer.named)
    <3>1. /\ EndOperation /\ images' = images \cup {deployer.image}
          /\ UNCHANGED <<migrated, confirmed, stateFile, records, container, lastRelease>>
      BY <1>2, <2>3 DEF BuildImage
    <3>2. ReleaseTypes'
      BY <1>0, <2>1, <3>1 DEF ReleaseTypes, Deploying, EndOperation
    <3> QED
      BY <3>1, <3>2, Ended, HostKept DEF ReleasesKept
  <2> QED BY <2>2, <2>3
<1>3. CASE Publish
  <2>1. deployer \in Deploying /\ DeploymentSound(deployer) /\ deployer.at = "publish"
    BY <1>0, <1>3, DeployerKinds DEF Publish, DeploySteps
  <2>2. CASE RefusedFirst(Manifest(deployer.image))
    <3>1. /\ EndOperation
          /\ UNCHANGED <<migrated, confirmed, stateFile, records, images, container, lastRelease>>
      BY <1>3, <2>2 DEF Publish
    <3>2. ReleaseTypes'
      BY <1>0, <3>1 DEF ReleaseTypes, EndOperation
    <3> QED BY <3>1, <3>2, Ended, HostKept DEF ReleasesKept
  <2>3. CASE ~RefusedFirst(Manifest(deployer.image))
    <3> DEFINE next == IF deployer.named = {} THEN "record" ELSE "migrate"
    <3>1. /\ Running(deployer, next) /\ confirmed' = confirmed \cup deployer.named
          /\ UNCHANGED <<migrated, stateFile, records, images, container, lastRelease>>
      BY <1>3, <2>3 DEF Publish
    <3>2. /\ deployer'.at = next /\ deployer'.image = deployer.image
          /\ deployer'.named = deployer.named /\ deployer'.release = deployer.release
          /\ deployer' \in Deploying /\ next \in {"record", "migrate"}
      BY <1>0, <2>1, <3>1, StageMoved DEF DeploySteps
    <3>3. ReleaseTypes'
      BY <1>0, <3>1, <3>2 DEF ReleaseTypes
    <3>4. DeploymentSound(deployer)'
      BY <2>1, <3>1, <3>2 DEF DeploymentSound, Serves, Pending, Applied
    <3> QED
      BY <3>1, <3>2, <3>3, <3>4
      DEF ActivateSteps, ReleasesKept, VerifiedApplied, Verified, Current, Pending, Applied
  <2> QED BY <2>2, <2>3
<1>4. CASE BeginRollback
  <2>1. PICK r \in DOMAIN records :
          /\ records[r].status = "verified"
          /\ Supports(Manifest(records[r].image), Applied)
          /\ Pending(Manifest(records[r].image)) = {}
          /\ records[r].image \in images
          /\ deployer' = [at |-> "activate", image |-> records[r].image,
                          restore |-> records[Current].image, release |-> r,
                          kind |-> "rollback"]
    BY <1>4 DEF BeginRollback
  <2>2. Current # None /\ UNCHANGED <<migrated, confirmed, stateFile, records, images,
                                      container, lastRelease>>
    BY <1>4 DEF BeginRollback
  <2>3. records[r].image \in Images /\ records[Current].image \in Images /\ r \in Nat
    BY <1>0, <2>1, <2>2 DEF ReleaseTypes, ReleasesKept, Verified
  <2>4. deployer' \in Activating
    BY <2>1, <2>3 DEF Activating, ActivateSteps
  <2>5. ReleaseTypes'
    BY <1>0, <2>2, <2>4 DEF ReleaseTypes
  <2>6. Serves(records[r].image)
    BY <2>1, SupportedServes
  <2>7. ActivationSound(deployer)'
    BY <2>1, <2>2, <2>6 DEF ActivationSound, Serves, Pending, Applied, Verified
  <2> QED BY <2>1, <2>2, <2>5, <2>7, HostKept DEF DeploySteps, ReleasesKept
<1> QED BY <1>1, <1>2, <1>3, <1>4

\* Migrations are added: what a target knows stays applied.
LEMMA MigratedGrows ==
  ASSUME NEW target, migrated' = Over(migrated, target)
  PROVE  Applied' = Applied \cup DOMAIN target
BY DEF Applied, Over

\* Migrating, and recording what was migrated.
LEMMA MigrateKeeps ==
  ASSUME ReleaseInv, Migrate \/ SaveMigrated \/ Maintain
  PROVE  ReleaseInv'
<1> USE DEF ReleaseInv
<1>0. ReleaseTypes
  OBVIOUS
<1>1. CASE Migrate
  <2>1. deployer \in Deploying /\ DeploymentSound(deployer) /\ deployer.at = "migrate"
    BY <1>0, <1>1, DeployerKinds DEF Migrate, DeploySteps
  <2>2. CASE EndOperation /\ UNCHANGED migrated
    <3>1. UNCHANGED <<migrated, confirmed, stateFile, records, images, container, lastRelease>>
      BY <1>1, <2>2 DEF Migrate
    <3>2. ReleaseTypes'
      BY <1>0, <2>2, <3>1 DEF ReleaseTypes, EndOperation
    <3> QED BY <2>2, <3>1, <3>2, Ended, HostKept DEF ReleasesKept
  <2>3. CASE /\ migrated' = Over(migrated, Manifest(deployer.image))
             /\ Running(deployer, "migrated")
    <3>1. UNCHANGED <<confirmed, stateFile, records, images, container, lastRelease>>
      BY <1>1 DEF Migrate
    <3>2. /\ deployer'.at = "migrated" /\ deployer'.image = deployer.image
          /\ deployer'.named = deployer.named /\ deployer'.release = deployer.release
          /\ deployer' \in Deploying
      BY <1>0, <2>1, <2>3, StageMoved DEF DeploySteps
    <3>3. ReleaseTypes'
      BY <1>0, <3>1, <3>2 DEF ReleaseTypes
    <3>4. Applied' = Applied \cup DOMAIN Manifest(deployer.image)
      BY <2>3, MigratedGrows
    <3>5. Pending(Manifest(deployer.image))' = {}
      BY <3>2, <3>4 DEF Pending
    <3>6. Serves(deployer.image)'
      BY <2>1, <3>1, <3>2, <3>4 DEF DeploymentSound, Serves
    <3>7. DeploymentSound(deployer)'
      BY <2>1, <3>1, <3>2, <3>5, <3>6 DEF DeploymentSound
    <3>8. VerifiedApplied'
      BY <3>1, <3>4 DEF VerifiedApplied, Verified, Pending
    <3> QED
      BY <3>1, <3>2, <3>3, <3>7, <3>8 DEF ActivateSteps, ReleasesKept, Verified, Current
  <2> QED BY <1>1, <2>2, <2>3 DEF Migrate
<1>2. CASE SaveMigrated
  <2>1. deployer \in Deploying /\ DeploymentSound(deployer) /\ deployer.at = "migrated"
    BY <1>0, <1>2, DeployerKinds DEF SaveMigrated, DeploySteps
  <2>2. /\ Running(deployer, "record")
        /\ UNCHANGED <<migrated, confirmed, records, images, container, lastRelease>>
        /\ stateFile'.compatible = stateFile.compatible \cup deployer.named
        /\ stateFile'.current = stateFile.current /\ stateFile'.previous = stateFile.previous
        /\ DOMAIN stateFile' = DOMAIN stateFile
    BY <1>0, <1>2 DEF SaveMigrated, ReleaseTypes
  <2>3. /\ deployer'.at = "record" /\ deployer'.image = deployer.image
        /\ deployer'.named = deployer.named /\ deployer'.release = deployer.release
        /\ deployer' \in Deploying
    BY <1>0, <2>1, <2>2, StageMoved DEF DeploySteps
  <2>4. ReleaseTypes'
    BY <1>0, <2>2, <2>3 DEF ReleaseTypes
  <2>5. DeploymentSound(deployer)'
    BY <2>1, <2>2, <2>3 DEF DeploymentSound, Serves, Pending, Applied
  <2>6. stateFile'.compatible \subseteq confirmed'
    BY <2>1, <2>2 DEF DeploymentSound
  <2> QED
    BY <2>2, <2>3, <2>4, <2>5, <2>6
    DEF ActivateSteps, ReleasesKept, VerifiedApplied, Verified, Current, Pending, Applied
<1>3. CASE Maintain
  <2>1. PICK image \in Images : migrated' = Over(migrated, Manifest(image))
    BY <1>3 DEF Maintain
  <2>2. /\ UNCHANGED <<confirmed, stateFile, records, images, deployer, lastRelease>>
        /\ container' = None /\ deployer.at = "idle"
    BY <1>3 DEF Maintain
  <2>3. Applied' = Applied \cup DOMAIN Manifest(image)
    BY <2>1, MigratedGrows
  <2>4. ReleaseTypes'
    BY <1>0, <2>2 DEF ReleaseTypes
  <2> QED
    BY <2>2, <2>3, <2>4
    DEF DeploySteps, ActivateSteps, ReleasesKept, VerifiedApplied, Verified, Current, Pending
<1> QED BY <1>1, <1>2, <1>3

\* A status that is written does not reach the current and the previous release.
LEMMA RecordWritten ==
  ASSUME ReleaseInv, ReleaseTypes', UNCHANGED <<migrated, confirmed, stateFile, images>>,
         NEW r \in DOMAIN records \cup {lastRelease},
         DOMAIN records' = DOMAIN records \cup {r}, r \notin Verified,
         \A q \in DOMAIN records : q # r => records'[q] = records[q],
         r \in Verified' => Pending(Manifest(records'[r].image)) = {},
         deployer'.at \in DeploySteps => DeploymentSound(deployer)',
         deployer'.at \in ActivateSteps => ActivationSound(deployer)',
         deployer'.at # "unlink"
  PROVE  ReleaseInv'
<1>1. /\ Current' = Current /\ \A m : Pending(m)' = Pending(m)
  BY DEF Current, Pending, Applied
<1>2. Verified' \subseteq Verified \cup {r} /\ Verified \subseteq Verified'
  BY DEF Verified
<1>3. VerifiedApplied'
  BY <1>1, <1>2 DEF VerifiedApplied, ReleaseInv, Verified
<1>4. ReleasesKept'
  BY <1>1, <1>2 DEF ReleasesKept, ReleaseInv, Verified
<1> QED BY <1>3, <1>4 DEF ReleaseInv

\* Recording a release, and activating or restoring one.
LEMMA ActivateKeeps ==
  ASSUME ReleaseInv,
         RecordPending \/ Activate \/ Restore \/ RecordFailed \/ RecordVerified
  PROVE  ReleaseInv'
<1>0. ReleaseTypes
  BY DEF ReleaseInv
<1>1. CASE RecordPending
  <2>1. deployer \in Deploying /\ DeploymentSound(deployer) /\ deployer.at = "record"
    BY <1>0, <1>1, DeployerKinds DEF RecordPending, DeploySteps, ReleaseInv
  <2>2. PICK r, image, restore :
          /\ r = deployer.release /\ image = deployer.image /\ restore = RollbackImage
    OBVIOUS
  <2>3. /\ records' = [q \in DOMAIN records \cup {r} |->
                         IF q = r THEN [image |-> image, status |-> "pending"] ELSE records[q]]
        /\ deployer' = [at |-> "activate", image |-> image, restore |-> restore,
                        release |-> r, kind |-> "deploy"]
        /\ UNCHANGED <<migrated, confirmed, stateFile, images, container, lastRelease>>
    BY <1>1, <2>2 DEF RecordPending
  <2>4. /\ image \in images /\ image \in Images /\ r = lastRelease /\ r \in Nat /\ r > 0
        /\ r \notin DOMAIN records /\ Serves(image) /\ Pending(Manifest(image)) = {}
    BY <2>1, <2>2 DEF DeploymentSound, Deploying
  <2>5. restore \in Images \cup {None}
    <3>1. Current # None => records[Current].image \in Images
      BY <1>0 DEF ReleaseInv, ReleasesKept, ReleaseTypes, Verified
    <3> QED BY <2>2, <3>1 DEF RollbackImage
  <2>6. deployer' \in Activating
    BY <2>3, <2>4, <2>5 DEF Activating, ActivateSteps
  <2>7. /\ DOMAIN records' = DOMAIN records \cup {r}
        /\ records'[r].image = image /\ records'[r].status = "pending"
        /\ records'[r] \in [image : Images, status : {"pending", "failed", "verified"}]
        /\ \A q \in DOMAIN records : q # r => records'[q] = records[q]
    BY <2>3, <2>4
  <2>8. ReleaseTypes'
    BY <1>0, <2>3, <2>4, <2>6, <2>7 DEF ReleaseTypes
  <2>9. ActivationSound(deployer)'
    BY <2>3, <2>4, <2>7 DEF ActivationSound, Serves, Pending, Applied
  <2> QED
    BY <2>3, <2>4, <2>7, <2>8, <2>9, RecordWritten DEF Verified, DeploySteps
<1>2. CASE Activate \/ Restore
  <2>1. deployer \in Activating /\ ActivationSound(deployer) /\ deployer.at \in {"activate", "restore"}
    BY <1>0, <1>2, DeployerKinds DEF Activate, Restore, ActivateSteps, ReleaseInv
  <2>2. PICK at \in {"healthy", "restore", "failed"} : Running(deployer, at)
    BY <1>2 DEF Activate, Restore
  <2>3. /\ UNCHANGED <<migrated, confirmed, stateFile, records, images, lastRelease>>
        /\ container' \in {container, deployer.image, deployer.restore}
    BY <1>2 DEF Activate, Restore
  <2>4. /\ deployer'.at = at /\ deployer'.image = deployer.image
        /\ deployer'.release = deployer.release /\ deployer'.kind = deployer.kind
        /\ deployer' \in Activating
    BY <1>0, <2>1, <2>2, StageMoved DEF ActivateSteps
  <2>5. ReleaseTypes'
    BY <1>0, <2>1, <2>3, <2>4 DEF ReleaseTypes, Activating
  <2>6. ActivationSound(deployer)'
    BY <2>1, <2>3, <2>4 DEF ActivationSound, Serves, Pending, Applied, Verified
  <2> QED
    BY <2>3, <2>4, <2>5, <2>6, HostKept DEF DeploySteps, ReleasesKept, ReleaseInv
<1>3. CASE RecordFailed
  <2>1. deployer \in Activating /\ ActivationSound(deployer) /\ deployer.at = "failed"
    BY <1>0, <1>3, DeployerKinds DEF RecordFailed, ActivateSteps, ReleaseInv
  <2>2. EndOperation /\ UNCHANGED <<migrated, confirmed, stateFile, images, container, lastRelease>>
    BY <1>3 DEF RecordFailed
  <2>3. CASE deployer.kind = "deploy"
    <3>1. PICK r : r = deployer.release /\ r \in DOMAIN records /\ records[r].status = "pending"
      BY <2>1, <2>3 DEF ActivationSound
    <3>2. records' = [records EXCEPT ![r].status = "failed"]
      BY <1>3, <2>3, <3>1 DEF RecordFailed
    <3>3. /\ DOMAIN records' = DOMAIN records \cup {r}
          /\ records'[r] \in [image : Images, status : {"pending", "failed", "verified"}]
          /\ records'[r].status = "failed"
          /\ \A q \in DOMAIN records : q # r => records'[q] = records[q]
      <4>1. records[r] \in [image : Images, status : {"pending", "failed", "verified"}]
        BY <1>0, <3>1 DEF ReleaseTypes
      <4>2. records'[r] = [records[r] EXCEPT !.status = "failed"]
        BY <3>1, <3>2
      <4> QED BY <3>1, <3>2, <4>1, <4>2
    <3>4. ReleaseTypes'
      BY <1>0, <2>2, <3>1, <3>3, Ended DEF ReleaseTypes
    <3> QED
      BY <2>2, <3>1, <3>3, <3>4, Ended, RecordWritten DEF Verified
  <2>4. CASE deployer.kind # "deploy"
    <3>1. UNCHANGED records
      BY <1>3, <2>4 DEF RecordFailed
    <3>2. ReleaseTypes'
      BY <1>0, <2>2, <3>1 DEF ReleaseTypes, EndOperation
    <3> QED BY <2>2, <3>1, <3>2, Ended, HostKept DEF ReleasesKept, ReleaseInv
  <2> QED BY <2>3, <2>4
<1>4. CASE RecordVerified
  <2>1. deployer \in Activating /\ ActivationSound(deployer) /\ deployer.at = "healthy"
    BY <1>0, <1>4, DeployerKinds DEF RecordVerified, ActivateSteps, ReleaseInv
  <2>2. /\ Running(deployer, "switch")
        /\ UNCHANGED <<migrated, confirmed, stateFile, images, container, lastRelease>>
    BY <1>4 DEF RecordVerified
  <2>3. /\ deployer'.at = "switch" /\ deployer'.image = deployer.image
        /\ deployer'.release = deployer.release /\ deployer'.kind = deployer.kind
        /\ deployer' \in Activating
    BY <1>0, <2>1, <2>2, StageMoved DEF ActivateSteps
  <2>4. CASE deployer.kind = "deploy"
    <3>1. PICK r : /\ r = deployer.release /\ r \in DOMAIN records /\ records[r].status = "pending"
                   /\ records[r].image = deployer.image
      BY <2>1, <2>4 DEF ActivationSound
    <3>2. records' = [records EXCEPT ![r].status = "verified"]
      BY <1>4, <2>4, <3>1 DEF RecordVerified
    <3>3. /\ DOMAIN records' = DOMAIN records \cup {r}
          /\ records'[r] \in [image : Images, status : {"pending", "failed", "verified"}]
          /\ records'[r].status = "verified" /\ records'[r].image = deployer.image
          /\ \A q \in DOMAIN records : q # r => records'[q] = records[q]
      <4>1. records[r] \in [image : Images, status : {"pending", "failed", "verified"}]
        BY <1>0, <3>1 DEF ReleaseTypes
      <4>2. records'[r] = [records[r] EXCEPT !.status = "verified"]
        BY <3>1, <3>2
      <4> QED BY <3>1, <3>2, <4>1, <4>2
    <3>4. ReleaseTypes'
      BY <1>0, <2>2, <2>3, <3>1, <3>3 DEF ReleaseTypes
    <3>5. ActivationSound(deployer)'
      BY <2>1, <2>2, <2>3, <3>1, <3>3 DEF ActivationSound, Serves, Pending, Applied, Verified
    <3> QED
      BY <2>1, <2>2, <2>3, <3>1, <3>3, <3>4, <3>5, RecordWritten
      DEF Verified, DeploySteps, ActivationSound
  <2>5. CASE deployer.kind # "deploy"
    <3>1. UNCHANGED records
      BY <1>4, <2>5 DEF RecordVerified
    <3>2. ReleaseTypes'
      BY <1>0, <2>2, <2>3, <3>1 DEF ReleaseTypes
    <3>3. deployer.kind = "rollback"
      BY <2>1, <2>5 DEF Activating
    <3>4. ActivationSound(deployer)'
      BY <2>1, <2>2, <2>3, <3>1, <3>3 DEF ActivationSound, Serves, Pending, Applied, Verified
    <3> QED
      BY <2>2, <2>3, <3>1, <3>2, <3>4, HostKept DEF DeploySteps, ReleasesKept, ReleaseInv
  <2> QED BY <2>4, <2>5
<1> QED BY <1>1, <1>2, <1>3, <1>4

\* Switching to a release, and cleaning up after it.
LEMMA SwitchKeeps ==
  ASSUME ReleaseInv, SwitchState \/ RemoveImages \/ RemoveRecords \/ KillDeployer
  PROVE  ReleaseInv'
<1>0. ReleaseTypes
  BY DEF ReleaseInv
<1>1. CASE SwitchState
  <2>1. deployer \in Activating /\ ActivationSound(deployer) /\ deployer.at = "switch"
    BY <1>0, <1>1, DeployerKinds DEF SwitchState, ActivateSteps, ReleaseInv
  <2>2. /\ deployer' = [at |-> "clean"]
        /\ UNCHANGED <<migrated, confirmed, records, images, container, lastRelease>>
        /\ stateFile'.compatible = stateFile.compatible
        /\ stateFile'.current = deployer.release /\ stateFile'.previous = Current
        /\ DOMAIN stateFile' = DOMAIN stateFile
    BY <1>0, <1>1 DEF SwitchState, ReleaseTypes
  <2>3. ReleaseTypes'
    BY <1>0, <2>2 DEF ReleaseTypes, Cleaning
  <2>4. ReleasesKept'
    BY <2>1, <2>2 DEF ReleaseInv, ReleasesKept, ActivationSound, Current, Verified
  <2> QED
    BY <2>2, <2>3, <2>4
    DEF ReleaseInv, DeploySteps, ActivateSteps, VerifiedApplied, Verified, Pending, Applied
<1>2. CASE RemoveImages
  <2>1. /\ images' \subseteq images /\ ProtectedImages \cap images \subseteq images'
        /\ deployer' = [at |-> "unlink", keep |-> Protected]
        /\ UNCHANGED <<migrated, confirmed, stateFile, records, container, lastRelease>>
    BY <1>2 DEF RemoveImages
  <2>2. /\ {Current, stateFile.previous} \ {None} \subseteq Protected
        /\ Protected \subseteq DOMAIN records
    BY DEF Protected, Recent, Verified, ReleaseInv, ReleasesKept
  <2>3. deployer' \in Cleaning
    BY <1>0, <2>1, <2>2 DEF Cleaning, ReleaseTypes
  <2>4. ReleaseTypes'
    BY <1>0, <2>1, <2>3 DEF ReleaseTypes
  <2>5. {records[r].image : r \in {Current, stateFile.previous} \ {None}} \subseteq images'
    BY <2>1, <2>2 DEF ProtectedImages, ReleaseInv, ReleasesKept
  <2> QED BY <2>1, <2>2, <2>4, <2>5, HostKept DEF DeploySteps, ActivateSteps
<1>3. CASE RemoveRecords
  <2>1. /\ deployer.at = "unlink" /\ EndOperation
        /\ records' = [r \in DOMAIN records \cap deployer.keep |-> records[r]]
        /\ UNCHANGED <<migrated, confirmed, stateFile, images, container, lastRelease>>
    BY <1>3 DEF RemoveRecords
  <2>2. ReleaseTypes'
    BY <1>0, <2>1 DEF ReleaseTypes, EndOperation
  <2>3. {Current, stateFile.previous} \ {None} \subseteq deployer.keep
    BY <2>1 DEF ReleaseInv
  <2>4. Verified' = Verified \cap deployer.keep /\ Current' = Current
    BY <2>1 DEF Verified, Current
  <2>5. ReleasesKept' /\ VerifiedApplied'
    BY <2>1, <2>3, <2>4
    DEF ReleaseInv, ReleasesKept, VerifiedApplied, Verified, Current, Pending, Applied
  <2> QED BY <2>1, <2>2, <2>5, Ended DEF ReleaseInv
<1>4. CASE KillDeployer
  <2>1. EndOperation /\ UNCHANGED <<migrated, confirmed, stateFile, records, images, container, lastRelease>>
    BY <1>4 DEF KillDeployer
  <2>2. ReleaseTypes'
    BY <1>0, <2>1 DEF ReleaseTypes, EndOperation
  <2> QED BY <2>1, <2>2, Ended, HostKept DEF ReleasesKept, ReleaseInv
<1> QED BY <1>1, <1>2, <1>3, <1>4

\* Every step of a release keeps the invariant.
LEMMA ReleaseKeeps == ReleaseInv /\ [ReleaseNext]_releaseVars => ReleaseInv'
<1>1. ASSUME ReleaseInv, UNCHANGED releaseVars PROVE ReleaseInv'
  BY <1>1 DEF releaseVars, ReleaseInv, ReleaseTypes, VerifiedApplied, DeploymentSound,
     ActivationSound, ReleasesKept, Verified, Serves, Pending, Applied, Current
<1> QED
  BY <1>1, PrepareKeeps, MigrateKeeps, ActivateKeeps, SwitchKeeps DEF ReleaseNext

\* The current release goes on to serve the database when some other does.
LEMMA CurrentStays ==
  ASSUME CurrentServes, ReleaseInv, deployer.at # "switch",
         \A i : Serves(i)' => Serves(i), \A i : Serves(i) => Serves(i)',
         Current' = Current, Current # None => records'[Current].image = records[Current].image,
         \A r \in Verified' : \/ r \in Verified /\ records'[r].image = records[r].image
                              \/ deployer'.at = "switch" /\ r = deployer'.release
  PROVE  CurrentServes'
BY DEF CurrentServes

\* The steps of a deployment up to its record leave it to the same images to serve the
\* database: what is confirmed was pending, and what is migrated was confirmed.
LEMMA DeployServes ==
  ASSUME ReleaseInv, ServingInv, BeginDeploy \/ BuildImage \/ Publish \/ Migrate \/ SaveMigrated
  PROVE  ServingInv'
<1>0. ReleaseTypes
  BY DEF ReleaseInv
<1>1. /\ UNCHANGED <<records, container>> /\ Current' = Current
      /\ deployer'.at \notin ActivateSteps /\ deployer.at # "switch"
  <2>1. CASE EndOperation /\ (BuildImage \/ Publish \/ Migrate)
    BY <1>0, <2>1, Ended DEF BuildImage, Publish, Migrate, Current
  <2>2. CASE BeginDeploy
    BY <2>2 DEF BeginDeploy, Current, ActivateSteps
  <2>3. CASE SaveMigrated \/ (~EndOperation /\ (BuildImage \/ Publish \/ Migrate))
    <3>1. deployer.at \in DeploySteps
      BY <2>3 DEF BuildImage, Publish, Migrate, SaveMigrated, DeploySteps
    <3>2. PICK at \in {"publish", "record", "migrate", "migrated"} : Running(deployer, at)
      BY <2>3 DEF BuildImage, Publish, Migrate, SaveMigrated
    <3>3. deployer'.at = at
      BY <1>0, <3>1, <3>2, DeployerKinds, StageMoved
    <3>4. UNCHANGED <<records, container>> /\ Current' = Current
      BY <1>0, <2>3 DEF BuildImage, Publish, Migrate, SaveMigrated, Current, ReleaseTypes
    <3> QED BY <3>1, <3>3, <3>4 DEF DeploySteps, ActivateSteps
  <2> QED BY <2>1, <2>2, <2>3
<1>2. /\ \A i : Serves(i)' => Serves(i)
      /\ \A i : Serves(i) => Serves(i)'
  <2>1. CASE UNCHANGED <<migrated, confirmed>>
    BY <2>1 DEF Serves, Applied
  <2>2. CASE Publish /\ confirmed' # confirmed
    <3>1. DeploymentSound(deployer) /\ deployer.at = "publish"
      BY <2>2 DEF ReleaseInv, Publish, DeploySteps
    <3>2. deployer.named \cap Applied = {} /\ confirmed' = confirmed \cup deployer.named
          /\ UNCHANGED migrated
      BY <2>2, <3>1 DEF DeploymentSound, Pending, Publish
    <3> QED BY <3>2 DEF Serves, Applied
  <2>3. CASE Migrate /\ migrated' # migrated
    <3>1. DeploymentSound(deployer) /\ deployer.at = "migrate"
      BY <2>3 DEF ReleaseInv, Migrate, DeploySteps
    <3>2. /\ DOMAIN Manifest(deployer.image) \ Applied \subseteq confirmed
          /\ (DOMAIN Manifest(deployer.image) \ Applied) \cap Breaking = {}
      BY <3>1 DEF DeploymentSound, Pending
    <3>3. /\ Applied' = Applied \cup DOMAIN Manifest(deployer.image) /\ UNCHANGED confirmed
      BY <2>3, MigratedGrows DEF Migrate
    <3> QED BY <3>2, <3>3 DEF Serves
  <2> QED BY <2>1, <2>2, <2>3 DEF BeginDeploy, BuildImage, Publish, Migrate, SaveMigrated
<1>3. CurrentServes'
  BY <1>1, <1>2, CurrentStays DEF ServingInv, Verified
<1> QED BY <1>1, <1>2, <1>3 DEF ServingInv, SchemaServed

\* The steps that activate an image find one that serves the database, as is the one to be
\* restored.
LEMMA ActivateServes ==
  ASSUME ReleaseInv, ServingInv,
         BeginRollback \/ RecordPending \/ Activate \/ Restore \/ RecordFailed \/ RecordVerified
  PROVE  ServingInv'
<1>0. ReleaseTypes
  BY DEF ReleaseInv
<1>1. /\ UNCHANGED <<migrated, confirmed, stateFile>> /\ Current' = Current
      /\ deployer.at # "switch"
  BY DEF BeginRollback, RecordPending, Activate, Restore, RecordFailed, RecordVerified, Current
<1>2. /\ \A i : Serves(i)' => Serves(i)
      /\ \A i : Serves(i) => Serves(i)'
  BY <1>1 DEF Serves, Applied
<1>3. CASE BeginRollback
  <2>1. PICK r \in DOMAIN records :
          /\ r \in Verified /\ Supports(Manifest(records[r].image), Applied)
          /\ deployer' = [at |-> "activate", image |-> records[r].image,
                          restore |-> records[Current].image, release |-> r,
                          kind |-> "rollback"]
    BY <1>3 DEF BeginRollback, Verified
  <2>2. Serves(records[Current].image)
    BY <1>1, <2>1, SupportedServes DEF ServingInv, CurrentServes, ReleaseInv
  <2>3. CurrentServes' /\ UNCHANGED <<records, container>>
    BY <1>1, <1>2, <1>3, CurrentStays DEF BeginRollback, ServingInv, Verified
  <2> QED BY <1>2, <2>1, <2>2, <2>3 DEF ServingInv, SchemaServed
<1>4. CASE RecordPending
  <2>1. DeploymentSound(deployer) /\ deployer.at = "record"
    BY <1>4 DEF RecordPending, DeploySteps, ReleaseInv
  <2>2. PICK r, restore : r = deployer.release /\ restore = RollbackImage
    OBVIOUS
  <2>3. /\ records' = [q \in DOMAIN records \cup {r} |->
                         IF q = r THEN [image |-> deployer.image, status |-> "pending"]
                         ELSE records[q]]
        /\ deployer' = [at |-> "activate", image |-> deployer.image, restore |-> restore,
                        release |-> r, kind |-> "deploy"]
        /\ UNCHANGED container
    BY <1>4, <2>2 DEF RecordPending
  <2>4. r \notin DOMAIN records
    BY <2>1, <2>2 DEF DeploymentSound
  <2>5. restore = None \/ Serves(restore)
    BY <2>2, SupportedServes DEF RollbackImage, ReleaseInv
  <2>6. Current # None => Current \in DOMAIN records
    BY DEF ReleaseInv, ReleasesKept, Verified
  <2>7. \A q \in Verified' : q \in Verified /\ records'[q] = records[q]
    BY <2>3, <2>4 DEF Verified
  <2>8. CurrentServes'
    BY <1>1, <1>2, <2>3, <2>4, <2>6, <2>7, CurrentStays DEF ServingInv
  <2> QED BY <1>2, <2>3, <2>5, <2>8 DEF ServingInv, SchemaServed
<1>5. CASE Activate \/ Restore
  <2>1. deployer \in Activating /\ ActivationSound(deployer)
    BY <1>0, <1>5, DeployerKinds DEF Activate, Restore, ActivateSteps, ReleaseInv
  <2>2. PICK at \in {"healthy", "restore", "failed"} : Running(deployer, at)
    BY <1>5 DEF Activate, Restore
  <2>3. /\ UNCHANGED records
        /\ container' \in {container, deployer.image, deployer.restore}
    BY <1>5 DEF Activate, Restore
  <2>4. deployer'.restore = deployer.restore
    BY <1>0, <2>1, <2>2, StageMoved
  <2>5. Serves(deployer.image) /\ (deployer.restore = None \/ Serves(deployer.restore))
    BY <1>5, <2>1 DEF ActivationSound, ServingInv, Activate, Restore, ActivateSteps
  <2>6. CurrentServes'
    BY <1>1, <1>2, <2>3, CurrentStays DEF ServingInv, Verified
  <2> QED BY <1>2, <2>3, <2>4, <2>5, <2>6 DEF ServingInv, SchemaServed
<1>6. CASE RecordFailed \/ RecordVerified
  <2>1. deployer \in Activating /\ ActivationSound(deployer) /\ deployer.at \in ActivateSteps
    BY <1>0, <1>6, DeployerKinds DEF RecordFailed, RecordVerified, ActivateSteps, ReleaseInv
  <2>2. PICK r : r = deployer.release /\ r \in DOMAIN records
    BY <2>1 DEF ActivationSound
  <2>3. PICK status \in {"failed", "verified"} :
          /\ records' = records \/ records' = [records EXCEPT ![r].status = status]
          /\ status = "verified" => Running(deployer, "switch")
          /\ status = "failed" => EndOperation
    BY <1>6, <2>2 DEF RecordFailed, RecordVerified
  <2>4. UNCHANGED container
    BY <1>6 DEF RecordFailed, RecordVerified
  <2>5. /\ \A q \in DOMAIN records : /\ q # r => records'[q] = records[q]
                                     /\ records'[q].image = records[q].image
        /\ DOMAIN records' = DOMAIN records
    <3>1. CASE records' = records
      BY <3>1
    <3>2. CASE records' = [records EXCEPT ![r].status = status]
      <4>1. records'[r] = [records[r] EXCEPT !.status = status] /\ DOMAIN records' = DOMAIN records
        BY <2>2, <3>2
      <4>2. records[r] \in [image : Images, status : {"pending", "failed", "verified"}]
        BY <1>0, <2>2 DEF ReleaseTypes
      <4>3. records'[r].image = records[r].image
        BY <4>1, <4>2
      <4> QED BY <2>2, <3>2, <4>1, <4>3
    <3> QED BY <2>3, <3>1, <3>2
  <2>6. \/ deployer'.at = "switch" /\ deployer'.release = r
           /\ deployer'.restore = deployer.restore
        \/ /\ deployer'.at = "idle" /\ deployer'.at \notin ActivateSteps
           /\ records' = records \/ records'[r].status = "failed"
    <3>1. CASE status = "verified"
      BY <1>0, <2>1, <2>2, <2>3, <3>1, StageMoved
    <3>2. CASE status = "failed"
      <4>1. records' = records \/ records'[r].status = "failed"
        <5>1. records[r] \in [image : Images, status : {"pending", "failed", "verified"}]
          BY <1>0, <2>2 DEF ReleaseTypes
        <5> QED BY <2>2, <2>3, <3>2, <5>1
      <4> QED BY <2>3, <3>2, <4>1, Ended
    <3> QED BY <3>1, <3>2
  <2>7. \A q \in Verified' : \/ q \in Verified /\ records'[q].image = records[q].image
                             \/ deployer'.at = "switch" /\ q = deployer'.release
    BY <2>5, <2>6 DEF Verified
  <2>8. Current # None => Current \in DOMAIN records
    BY DEF ReleaseInv, ReleasesKept, Verified
  <2>9. CurrentServes'
    BY <1>1, <1>2, <2>5, <2>7, <2>8, CurrentStays DEF ServingInv
  <2> QED
    BY <1>2, <2>1, <2>4, <2>6, <2>9 DEF ServingInv, SchemaServed
<1> QED BY <1>3, <1>4, <1>5, <1>6

\* Switching to a release makes one current that serves; cleaning up takes nothing that is
\* in use; a maintenance stops the container and leaves no release that serves.
LEMMA SwitchServes ==
  ASSUME ReleaseInv, ServingInv,
         SwitchState \/ RemoveImages \/ RemoveRecords \/ Maintain
           \/ (KillDeployer /\ deployer.at # "switch")
  PROVE  ServingInv'
<1>0. ReleaseTypes
  BY DEF ReleaseInv
<1>1. CASE SwitchState
  <2>1. ActivationSound(deployer)
    BY <1>1 DEF SwitchState, ActivateSteps, ReleaseInv
  <2>2. /\ deployer' = [at |-> "clean"] /\ Current' = deployer.release
        /\ UNCHANGED <<migrated, confirmed, records, container>>
    BY <1>0, <1>1 DEF SwitchState, ReleaseTypes, Current
  <2>3. \A i : Serves(i) => Serves(i)'
    BY <2>2 DEF Serves, Applied
  <2>4. deployer.release # None
    BY <1>0, <2>1, NoneAssumption DEF ActivationSound, ReleaseTypes
  <2>5. CurrentServes'
    BY <2>1, <2>2, <2>3, <2>4 DEF CurrentServes, ActivationSound
  <2> QED BY <2>2, <2>3, <2>5 DEF ServingInv, SchemaServed, ActivateSteps
<1>2. CASE RemoveImages \/ RemoveRecords \/ (KillDeployer /\ deployer.at # "switch")
  <2>1. /\ deployer'.at \notin ActivateSteps /\ deployer.at # "switch"
        /\ UNCHANGED <<migrated, confirmed, stateFile, container>> /\ Current' = Current
    BY <1>2, Ended DEF RemoveImages, RemoveRecords, KillDeployer, Current, ActivateSteps
  <2>2. /\ \A i : Serves(i)' => Serves(i)
        /\ \A i : Serves(i) => Serves(i)'
    BY <2>1 DEF Serves, Applied
  <2>3. /\ Current # None => records'[Current] = records[Current]
        /\ \A r \in Verified' : r \in Verified /\ records'[r] = records[r]
    <3>1. CASE UNCHANGED records
      BY <3>1 DEF Verified
    <3>2. CASE RemoveRecords
      <4>1. /\ records' = [r \in DOMAIN records \cap deployer.keep |-> records[r]]
            /\ Current # None => Current \in DOMAIN records \cap deployer.keep
        BY <3>2 DEF RemoveRecords, ReleaseInv, ReleasesKept, Verified
      <4> QED BY <4>1 DEF Verified
    <3> QED BY <1>2, <3>1, <3>2 DEF RemoveImages, KillDeployer
  <2>4. CurrentServes'
    BY <2>1, <2>2, <2>3, CurrentStays DEF ServingInv
  <2> QED BY <2>1, <2>2, <2>4 DEF ServingInv, SchemaServed
<1>3. CASE Maintain
  <2>1. PICK image \in Images :
          /\ Pending(Manifest(image)) \cap Breaking # {}
          /\ migrated' = Over(migrated, Manifest(image))
    BY <1>3 DEF Maintain, Destructive
  <2>2. /\ UNCHANGED <<records, deployer>> /\ container' = None /\ deployer.at = "idle"
    BY <1>3 DEF Maintain
  <2>3. PICK m : m \in Breaking /\ m \in DOMAIN Manifest(image) /\ m \notin Applied
    BY <2>1 DEF Pending
  <2>4. m \in Applied'
    BY <2>1, <2>3, MigratedGrows
  <2>5. \A r \in Verified : m \notin DOMAIN Manifest(records[r].image)
    BY <2>3 DEF ReleaseInv, VerifiedApplied, Pending
  <2>6. \A r \in Verified' : ~Serves(records[r].image)'
    BY <2>2, <2>3, <2>4, <2>5 DEF Serves, Verified
  <2> QED BY <2>2, <2>6 DEF ServingInv, SchemaServed, CurrentServes, ActivateSteps
<1> QED BY <1>1, <1>2, <1>3

\* Every step keeps a container that serves, unless the process is killed before the switch.
LEMMA ServingStep ==
  ASSUME "switch" \notin KillPoints, ReleaseInv, ServingInv, [ReleaseNext]_releaseVars
  PROVE  ServingInv'
<1>1. CASE UNCHANGED releaseVars
  BY <1>1 DEF releaseVars, ServingInv, SchemaServed, CurrentServes, Verified, Serves, Applied,
     Current
<1>2. KillDeployer => deployer.at # "switch"
  BY DEF KillDeployer
<1>3. CASE BeginDeploy \/ BuildImage \/ Publish \/ Migrate \/ SaveMigrated
  BY <1>3, DeployServes
<1>4. CASE BeginRollback \/ RecordPending \/ Activate \/ Restore \/ RecordFailed \/ RecordVerified
  BY <1>4, ActivateServes
<1>5. CASE SwitchState \/ RemoveImages \/ RemoveRecords \/ Maintain \/ KillDeployer
  BY <1>2, <1>5, SwitchServes
<1> QED BY <1>1, <1>3, <1>4, <1>5 DEF ReleaseNext

\* Cleanup never takes the record or the image of the release in use or of the one before it,
\* and both were healthy once, whatever fails or is killed (deploy.py: cleanup_plan, publish,
\* rollback).
THEOREM ReleasesStayKept == BackOfficeSpec => []ReleasesKept
<1>1. BackOfficeInit => ReleaseInv
  BY ReleaseInitInv DEF BackOfficeInit, ReleaseShut
<1>2. ReleaseInv /\ [BackOfficeNext]_backVars => ReleaseInv'
  BY ReleaseKeeps, ReleaseAlone
<1>3. ReleaseInv => ReleasesKept
  BY DEF ReleaseInv
<1> QED BY <1>1, <1>2, <1>3, PTL DEF BackOfficeSpec

\* Whatever fails or is rolled back, and wherever the process is killed but between the record
\* of a healthy release and the state file, the container serves the database it finds
\* (deploy.py: check_schema, review_migrations, publish, activate_or_restore).
THEOREM SchemaStaysServed ==
  ASSUME "switch" \notin KillPoints
  PROVE  BackOfficeSpec => []SchemaServed
<1>1. BackOfficeInit => ReleaseInv /\ ServingInv
  BY ReleaseInitInv DEF BackOfficeInit, ReleaseShut
<1>2. ReleaseInv /\ ServingInv /\ [BackOfficeNext]_backVars => (ReleaseInv /\ ServingInv)'
  BY ReleaseKeeps, ServingStep, ReleaseAlone
<1>3. ServingInv => SchemaServed
  BY DEF ServingInv
<1> QED BY <1>1, <1>2, <1>3, PTL DEF BackOfficeSpec

=============================================================================
