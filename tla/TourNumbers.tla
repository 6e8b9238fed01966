---------------------------- MODULE TourNumbers ----------------------------
(***************************************************************************)
(* How a tour gets its number: src/tours/tours.service.ts insertTour and   *)
(* src/tours/tour-rules.ts.  A transaction takes the next value of its     *)
(* creator's counter for the day, then a lock on what its number starts    *)
(* and ends with, reads the numbers that start and end so, picks a free    *)
(* one and inserts the tour.  Linked accounts share a code and so compete  *)
(* for numbers though each has its own counter.                            *)
(*                                                                         *)
(* A number is its parts; the written form is read back into one set of    *)
(* parts when no code is another one followed by digits.                   *)
(***************************************************************************)
EXTENDS Integers, FiniteSets

CONSTANTS
    Creators,
    TourCode(_),    \* creator -> users.tour_code
    Countries,
    Days,           \* pickup dates
    Inserts,        \* the transactions, each of which runs once
    MaxSequence     \* bound: values of a counter

VARIABLES
    counters,   \* <<creator, day>> -> last value
    tours,      \* committed tours: [no, creator, day, sequence]
    inserts     \* transaction -> [at, ...]

numberVars == <<counters, tours, inserts>>

(* tourNumberBase: prefix, day and code; and the country at the end. *)
Base(creator, day, country) ==
    [day |-> day, code |-> TourCode(creator), country |-> country]

(* tourNumberCandidate: k = 0 writes no (k). *)
Candidate(base, sequence, k) == [base |-> base, sequence |-> sequence, k |-> k]

NumberPicked(base, sequence, taken) ==
    Candidate(base, sequence,
              CHOOSE k \in 0 .. Cardinality(taken) :
                  /\ Candidate(base, sequence, k) \notin taken
                  /\ \A j \in 0 .. k - 1 : Candidate(base, sequence, j) \in taken)

(* The row of the counter and the lock on the base are held to the end. *)
Holding(t) == inserts[t].at \in {"counted", "locked", "picked"}

CounterBusy(creator, day) ==
    \E t \in Inserts : Holding(t) /\ inserts[t].creator = creator /\ inserts[t].day = day

BaseBusy(base) ==
    \E t \in Inserts : inserts[t].at \in {"locked", "picked"} /\ inserts[t].base = base

-----------------------------------------------------------------------------
NumberInit ==
    /\ counters = [c \in Creators \X Days |-> 0]
    /\ tours = {}
    /\ inserts = [t \in Inserts |-> [at |-> "idle"]]

(* INSERT ... ON CONFLICT DO UPDATE ... RETURNING last_value *)
TakeSequence(t) ==
    /\ inserts[t].at = "idle"
    /\ \E c \in Creators : \E d \in Days : \E n \in Countries :
          /\ ~CounterBusy(c, d)
          /\ counters[<<c, d>>] < MaxSequence
          /\ inserts' = [inserts EXCEPT ![t] =
                [at |-> "counted", creator |-> c, day |-> d, base |-> Base(c, d, n),
                 sequence |-> counters[<<c, d>>] + 1]]
    /\ UNCHANGED <<counters, tours>>

(* pg_advisory_xact_lock *)
LockBase_NoWait(t) ==
    /\ inserts[t].at = "counted"
    /\ inserts' = [inserts EXCEPT ![t].at = "locked"]
    /\ UNCHANGED <<counters, tours>>

LockBase(t) ==
    /\ inserts[t].at = "counted"
    /\ ~BaseBusy(inserts[t].base)
    /\ inserts' = [inserts EXCEPT ![t].at = "locked"]
    /\ UNCHANGED <<counters, tours>>

(* The statement reads every committed tour whose number starts and ends   *)
(* like this one's, cancelled tours included.                              *)
PickNumber(t) ==
    /\ inserts[t].at = "locked"
    /\ LET taken == {n \in {r.no : r \in tours} : n.base = inserts[t].base}
       IN  inserts' = [inserts EXCEPT ![t] =
              [at |-> "picked", creator |-> @.creator, day |-> @.day, base |-> @.base,
               sequence |-> @.sequence,
               no |-> NumberPicked(@.base, @.sequence, taken)]]
    /\ UNCHANGED <<counters, tours>>

InsertNumbered(t) ==
    /\ inserts[t].at = "picked"
    /\ tours' = tours \cup {[no |-> inserts[t].no, creator |-> inserts[t].creator,
                             day |-> inserts[t].day, sequence |-> inserts[t].sequence]}
    /\ counters' = [counters EXCEPT ![<<inserts[t].creator, inserts[t].day>>] =
                       inserts[t].sequence]
    /\ inserts' = [inserts EXCEPT ![t] = [at |-> "done"]]

(* A later check of the transaction fails: its value of the counter goes   *)
(* back with everything else.                                              *)
AbortInsert(t) ==
    /\ Holding(t)
    /\ inserts' = [inserts EXCEPT ![t] = [at |-> "done"]]
    /\ UNCHANGED <<counters, tours>>

NumberNext ==
    \E t \in Inserts :
        \/ TakeSequence(t) \/ LockBase(t) \/ PickNumber(t) \/ InsertNumbered(t)
        \/ AbortInsert(t)

-----------------------------------------------------------------------------
(* The number a transaction has picked is free until it commits, so that   *)
(* the unique constraint never turns a tour away.                          *)
PickedStayFree ==
    \A t \in Inserts : inserts[t].at = "picked" =>
        /\ inserts[t].no \notin {r.no : r \in tours}
        /\ \A u \in Inserts \ {t} :
              inserts[u].at = "picked" => inserts[u].no # inserts[t].no

ToursOf(c, d) == {r \in tours : r.creator = c /\ r.day = d}

(* A creator's tours of a day count 1, 2, 3... without a gap or a repeat.  *)
SequencesCount ==
    \A c \in Creators : \A d \in Days :
        /\ {r.sequence : r \in ToursOf(c, d)} = 1 .. counters[<<c, d>>]
        /\ Cardinality(ToursOf(c, d)) = counters[<<c, d>>]

(* Every tour gets a number of its own, and the next one of its creator.   *)
NumbersFree == PickedStayFree /\ SequencesCount

-----------------------------------------------------------------------------
(* The invariant behind it, for any sets of creators and transactions.     *)
Bases == {Base(c, d, n) : c \in Creators, d \in Days, n \in Countries}

TourNumber == [base : Bases, sequence : Nat, k : Nat]

Numbered == [no : TourNumber, creator : Creators, day : Days, sequence : Nat]

InsertStage ==
    [at : {"idle", "done"}]
    \cup [at : {"counted", "locked"}, creator : Creators, day : Days, base : Bases,
          sequence : Nat]
    \cup [at : {"picked"}, creator : Creators, day : Days, base : Bases, sequence : Nat,
          no : TourNumber]

NumberTypes ==
    /\ counters \in [Creators \X Days -> Nat]
    /\ tours \in SUBSET Numbered
    /\ IsFiniteSet(tours)
    /\ inserts \in [Inserts -> InsertStage]

(* A counter that has been advanced and a base that is locked have one     *)
(* owner each, who still has the next value of the counter.                *)
OwnCounter ==
    \A t \in Inserts : Holding(t) =>
        /\ inserts[t].sequence = counters[<<inserts[t].creator, inserts[t].day>>] + 1
        /\ \A u \in Inserts \ {t} :
              Holding(u) => <<inserts[u].creator, inserts[u].day>>
                            # <<inserts[t].creator, inserts[t].day>>

OwnBase ==
    \A t \in Inserts : inserts[t].at \in {"locked", "picked"} =>
        /\ inserts[t].at = "picked" => inserts[t].no.base = inserts[t].base
        /\ \A u \in Inserts \ {t} :
              inserts[u].at \in {"locked", "picked"} => inserts[u].base # inserts[t].base

NumberInv == NumberTypes /\ OwnCounter /\ OwnBase /\ NumbersFree
=============================================================================
