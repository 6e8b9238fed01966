-------------------------- MODULE ItineraryProofs --------------------------
(***************************************************************************)
(* Proofs about the saves of a draft itinerary: for every plan, catalogue  *)
(* and sequence of edits, a saved plan can be saved again and nothing      *)
(* changes, its prices are explained, no price of a selection changes      *)
(* without a row in the adjustments, the breakdown of its quote adds up,   *)
(* and a quote that may be generated misses nothing.                       *)
(*                                                                         *)
(* The invariant ItineraryInv says of the plan alone what a save leaves    *)
(* behind.  The tables of Rows give back the plan they were written from;  *)
(* a save of an acceptable document settles each section; a settled plan   *)
(* is acceptable and its own normal form.                                  *)
(***************************************************************************)
EXTENDS ItineraryRules, FiniteSetTheorems, SequenceTheorems, TLAPS

-----------------------------------------------------------------------------
(* Sums.  SumFunction adds the values of a function one after the other,   *)
(* each time at the point that CHOOSE takes next.                          *)

Taken(s) == CHOOSE x \in s : TRUE

Adds(g, f, S) ==
    g = [s \in SUBSET S |-> IF s = {} THEN 0 ELSE f[Taken(s)] + g[s \ {Taken(s)}]]

\* Induction over the subsets of a finite set: a set of subsets that has the empty one,
\* and each one whose strict subsets it has, has them all.
LEMMA SubsetInduction ==
  ASSUME NEW S, IsFiniteSet(S), NEW P,
         \A s \in SUBSET S : (\A u \in SUBSET s : u # s => u \in P) => s \in P
  PROVE  \A s \in SUBSET S : s \in P
<1> DEFINE T == {s \in SUBSET S : s \notin P}
<1>1. T \subseteq FiniteSubsetsOf(S)
  BY FS_Subset DEF FiniteSubsetsOf
<1>2. SUFFICES ASSUME T # {} PROVE FALSE
  OBVIOUS
<1>3. PICK s \in T : \A r \in T : <<r, s>> \notin StrictSubsetOrdering(S)
  <2> HIDE DEF T
  <2> QED BY <1>1, <1>2, FS_StrictSubsetOrderingWellFounded, WFMin
<1>4. ASSUME NEW u \in SUBSET s, u # s
      PROVE  u \in P
  <2>1. <<u, s>> \in StrictSubsetOrdering(S)
    BY <1>4 DEF StrictSubsetOrdering
  <2> QED BY <1>3, <2>1
<1> QED BY <1>4

\* Two such functions agree on the sets that both have, if what they add agrees there.
LEMMA AddsAgree ==
  ASSUME NEW S, NEW f, NEW g, Adds(g, f, S),
         NEW T, T \subseteq S, IsFiniteSet(T), NEW e, NEW h, Adds(h, e, T),
         \A x \in T : f[x] = e[x]
  PROVE  \A s \in SUBSET T : g[s] = h[s]
<1> DEFINE P == {s \in SUBSET T : g[s] = h[s]}
<1>1. ASSUME NEW s \in SUBSET T, \A u \in SUBSET s : u # s => u \in P
      PROVE  s \in P
  <2>0. /\ g[s] = IF s = {} THEN 0 ELSE f[Taken(s)] + g[s \ {Taken(s)}]
        /\ h[s] = IF s = {} THEN 0 ELSE e[Taken(s)] + h[s \ {Taken(s)}]
    BY DEF Adds
  <2>1. CASE s = {}
    BY <2>0, <2>1
  <2>2. CASE s # {}
    <3>1. Taken(s) \in s
      BY <2>2 DEF Taken
    <3>2. s \ {Taken(s)} \in P
      BY <1>1, <3>1
    <3> QED BY <2>0, <2>2, <3>1, <3>2
  <2> QED BY <2>1, <2>2
<1> HIDE DEF P
<1>2. \A s \in SUBSET T : s \in P
  BY <1>1, SubsetInduction
<1> QED BY <1>2 DEF P

\* There is such a function.
LEMMA AddsExists ==
  ASSUME NEW S, IsFiniteSet(S), NEW f
  PROVE  \E g : Adds(g, f, S)
<1> DEFINE P == {s \in SUBSET S : \E g : Adds(g, f, s)}
           G(s) == CHOOSE g : Adds(g, f, s)
<1>1. ASSUME NEW s \in SUBSET S, \A u \in SUBSET s : u # s => u \in P
      PROVE  s \in P
  <2> DEFINE v(u) == IF u = {} THEN 0
                     ELSE f[Taken(u)] + G(u \ {Taken(u)})[u \ {Taken(u)}]
             g == [u \in SUBSET s |-> v(u)]
  <2>1. \A u \in SUBSET s : u # {} => Taken(u) \in u
    BY DEF Taken
  <2>2. \A u \in SUBSET s : u # s => Adds(G(u), f, u)
    BY <1>1
  <2> HIDE DEF G
  <2>3. ASSUME NEW u \in SUBSET s, u # s
        PROVE  g[u] = G(u)[u]
    <3>1. Adds(G(u), f, u)
      BY <2>2, <2>3
    <3>2. G(u)[u] = IF u = {} THEN 0 ELSE f[Taken(u)] + G(u)[u \ {Taken(u)}]
      BY <3>1 DEF Adds
    <3>3. g[u] = v(u)
      OBVIOUS
    <3>4. CASE u = {}
      BY <3>2, <3>3, <3>4
    <3>5. CASE u # {}
      <4> DEFINE w == u \ {Taken(u)}
      <4>1. w \in SUBSET s /\ w # s /\ w \in SUBSET u
        BY <2>1, <3>5
      <4>6. w \subseteq u /\ \A x \in w : f[x] = f[x]
        OBVIOUS
      <4>2. Adds(G(w), f, w)
        BY <2>2, <4>1
      <4>3. IsFiniteSet(w)
        BY <4>1, FS_Subset
      <4> HIDE DEF w
      <4>4. \A x \in SUBSET w : G(u)[x] = G(w)[x]
        BY ONLY <3>1, <4>2, <4>3, <4>6, AddsAgree
      <4>5. G(u)[w] = G(w)[w]
        BY <4>4
      <4> QED BY <3>2, <3>3, <3>5, <4>5 DEF w
    <3> QED BY <3>4, <3>5
  <2>4. ASSUME NEW u \in SUBSET s
        PROVE  g[u] = IF u = {} THEN 0 ELSE f[Taken(u)] + g[u \ {Taken(u)}]
    <3>1. CASE u = {}
      BY <3>1
    <3>2. CASE u # {}
      <4>1. u \ {Taken(u)} \in SUBSET s /\ u \ {Taken(u)} # s
        BY <2>1, <3>2
      <4>2. g[u \ {Taken(u)}] = G(u \ {Taken(u)})[u \ {Taken(u)}]
        BY <2>3, <4>1
      <4>3. g[u] = f[Taken(u)] + G(u \ {Taken(u)})[u \ {Taken(u)}]
        BY <3>2
      <4> QED BY <3>2, <4>2, <4>3
    <3> QED BY <3>1, <3>2
  <2>5. Adds(g, f, s)
    <3>1. g = [u \in SUBSET s |-> g[u]]
      OBVIOUS
    <3> HIDE DEF g
    <3> QED BY <2>4, <3>1 DEF Adds
  <2> QED BY <2>5
<1> HIDE DEF P
<1>2. \A s \in SUBSET S : s \in P
  BY <1>1, SubsetInduction
<1> QED BY <1>2 DEF P

\* SumFunction is the last value of such a function.
LEMMA SumAdds ==
  ASSUME NEW f, IsFiniteSet(DOMAIN f)
  PROVE  \E g : Adds(g, f, DOMAIN f) /\ SumFunction(f) = g[DOMAIN f]
<1> DEFINE it == CHOOSE g : g = [s \in SUBSET DOMAIN f |->
                                   IF s = {} THEN 0 ELSE f[Taken(s)] + g[s \ {Taken(s)}]]
<1>1. \E g : g = [s \in SUBSET DOMAIN f |->
                    IF s = {} THEN 0 ELSE f[Taken(s)] + g[s \ {Taken(s)}]]
  <2>1. \E g : Adds(g, f, DOMAIN f)
    BY AddsExists
  <2> QED BY <2>1 DEF Adds
<1>2. it = [s \in SUBSET DOMAIN f |-> IF s = {} THEN 0 ELSE f[Taken(s)] + it[s \ {Taken(s)}]]
  BY <1>1
<1>3. SumFunction(f) = it[DOMAIN f]
  BY DEF SumFunction, SumFunctionOnSet, FoldFunctionOnSet, MapThenFoldSet, Taken
<1> HIDE DEF it
<1> QED BY <1>2, <1>3 DEF Adds

\* The order in which the values are added does not matter.
LEMMA AnyOrder ==
  ASSUME NEW S, IsFiniteSet(S), NEW f \in [S -> Int], NEW g, Adds(g, f, S)
  PROVE  \A s \in SUBSET S : g[s] \in Int /\ \A x \in s : g[s] = f[x] + g[s \ {x}]
<1> DEFINE P == {s \in SUBSET S : g[s] \in Int /\ \A x \in s : g[s] = f[x] + g[s \ {x}]}
<1>1. ASSUME NEW s \in SUBSET S, \A u \in SUBSET s : u # s => u \in P
      PROVE  s \in P
  <2>0. g[s] = IF s = {} THEN 0 ELSE f[Taken(s)] + g[s \ {Taken(s)}]
    BY DEF Adds
  <2>1. CASE s = {}
    BY <2>0, <2>1
  <2>2. CASE s # {}
    <3> DEFINE y == Taken(s)
    <3>1. y \in s
      BY <2>2 DEF Taken
    <3> HIDE DEF y
    <3>2. g[s] = f[y] + g[s \ {y}]
      BY <2>0, <2>2 DEF y
    <3>3. s \ {y} \in P /\ f[y] \in Int
      BY <1>1, <3>1
    <3>4. ASSUME NEW x \in s, x # y
          PROVE  g[s] = f[x] + g[s \ {x}]
      <4>1. s \ {x} \in P /\ f[x] \in Int
        BY <1>1
      <4>2. g[s \ {x}] = f[y] + g[(s \ {x}) \ {y}]
        BY <3>1, <3>4, <4>1
      <4>3. g[s \ {y}] = f[x] + g[(s \ {y}) \ {x}]
        BY <3>3, <3>4
      <4>4. (s \ {x}) \ {y} = (s \ {y}) \ {x} /\ (s \ {x}) \ {y} \in P
        BY <1>1, <3>1
      <4>5. g[(s \ {x}) \ {y}] \in Int
        BY <4>4
      <4> DEFINE sum == g[(s \ {x}) \ {y}]
      <4>6. g[s \ {x}] = f[y] + sum /\ g[s \ {y}] = f[x] + sum /\ sum \in Int
        BY <4>2, <4>3, <4>4, <4>5
      <4>7. f[x] \in Int /\ f[y] \in Int
        BY <3>3, <4>1
      <4> HIDE DEF P, sum
      <4> QED BY <3>2, <4>6, <4>7
    <3>5. \A x \in s : g[s] = f[x] + g[s \ {x}]
      BY <3>2, <3>4
    <3>6. g[s \ {y}] \in Int
      BY <3>3
    <3>7. g[s] \in Int
      BY <3>2, <3>3, <3>6
    <3> QED BY <3>5, <3>7
  <2> QED BY <2>1, <2>2
<1> HIDE DEF P
<1>2. \A s \in SUBSET S : s \in P
  BY <1>1, SubsetInduction
<1> QED BY <1>2 DEF P

\* A sum of natural numbers is one.
LEMMA SumOfCosts ==
  ASSUME NEW S, IsFiniteSet(S), NEW f \in [S -> Nat]
  PROVE  SumFunction(f) \in Nat
<1>1. DOMAIN f = S
  OBVIOUS
<1>2. PICK g : Adds(g, f, S) /\ SumFunction(f) = g[S]
  BY <1>1, SumAdds
<1> DEFINE P == {s \in SUBSET S : g[s] \in Nat}
<1>3. ASSUME NEW s \in SUBSET S, \A u \in SUBSET s : u # s => u \in P
      PROVE  s \in P
  <2>1. g[s] = IF s = {} THEN 0 ELSE f[Taken(s)] + g[s \ {Taken(s)}]
    BY <1>2 DEF Adds
  <2>2. CASE s = {}
    BY <2>1, <2>2
  <2>3. CASE s # {}
    <3>1. Taken(s) \in s
      BY <2>3 DEF Taken
    <3>2. s \ {Taken(s)} \in P /\ f[Taken(s)] \in Nat
      BY <1>3, <3>1
    <3> QED BY <2>1, <2>3, <3>2
  <2> QED BY <2>2, <2>3
<1> HIDE DEF P
<1>4. \A s \in SUBSET S : s \in P
  BY <1>3, SubsetInduction
<1> QED BY <1>2, <1>4 DEF P

\* The sum of nothing.
LEMMA SumOfNone == SumFunction([x \in {} |-> 0]) = 0
<1> DEFINE f == [x \in {} |-> 0]
<1>1. DOMAIN f = {} /\ IsFiniteSet(DOMAIN f)
  BY FS_EmptySet
<1> HIDE DEF f
<1>2. PICK g : Adds(g, f, DOMAIN f) /\ SumFunction(f) = g[DOMAIN f]
  BY <1>1, SumAdds
<1>3. g[{}] = 0
  BY <1>1, <1>2 DEF Adds
<1> QED BY <1>1, <1>2, <1>3 DEF f

\* A sum is a number, and one value more or less changes it by that value.
LEMMA SumOfOneMore ==
  ASSUME NEW S, IsFiniteSet(S), NEW f \in [S -> Int], NEW x \in S
  PROVE  /\ SumFunction(f) \in Int /\ SumFunction([y \in S \ {x} |-> f[y]]) \in Int
         /\ SumFunction(f) = f[x] + SumFunction([y \in S \ {x} |-> f[y]])
<1> DEFINE T == S \ {x}
           e == [y \in T |-> f[y]]
<1>1. DOMAIN f = S /\ DOMAIN e = T /\ T \subseteq S /\ IsFiniteSet(T)
  BY FS_Subset
<1>2. \A y \in T : e[y] = f[y]
  OBVIOUS
<1>9. e \in [T -> Int]
  OBVIOUS
<1> HIDE DEF e, T
<1>3. PICK g : Adds(g, f, S) /\ SumFunction(f) = g[S]
  BY <1>1, SumAdds
<1>4. PICK h : Adds(h, e, T) /\ SumFunction(e) = h[T]
  BY <1>1, SumAdds
<1>5. \A s \in SUBSET T : h[s] = g[s]
  BY ONLY <1>1, <1>2, <1>3, <1>4, AddsAgree
<1>6. g[S] \in Int /\ g[S] = f[x] + g[S \ {x}]
  <2>1. g[S] \in Int
    BY <1>3, AnyOrder
  <2>2. \A z \in S : g[S] = f[z] + g[S \ {z}]
    BY <1>3, AnyOrder
  <2> QED BY <2>1, <2>2
<1>7. h[T] \in Int
  BY <1>1, <1>4, <1>9, AnyOrder
<1>8. h[T] = g[T]
  BY <1>5
<1> QED BY <1>3, <1>4, <1>6, <1>7, <1>8 DEF e, T

-----------------------------------------------------------------------------
(* The sections of a plan.                                                 *)

\* What the sections of a plan are.
LEMMA PlanFields ==
  ASSUME NEW Q, NEW data \in PlanOf(Q)
  PROVE  /\ data.destinations \subseteq Cities
         /\ data.days \in Seq(DayInput)
         /\ data.deleted \in Seq(DayInput)
         /\ data.items \in [ItemNames -> ItemInput \cup {Nothing}]
         /\ data.hotels \in [HotelTiers \X Cities -> HotelInput \cup {Nothing}]
         /\ data.vehicles \in [VehicleTiers -> VehiclePlanInput]
         /\ data.guide \in GuideInput \cup {Nothing}
         /\ data.pax \subseteq GroupSizes
         /\ data.quote \in Q
         /\ data.destinations # {} /\ data.days # <<>> /\ data.pax # {}
BY DEF PlanOf

\* A plan is the record of its sections.
LEMMA PlanSections ==
  ASSUME NEW Q, NEW data \in PlanOf(Q)
  PROVE  data = [destinations |-> data.destinations, days |-> data.days,
                 deleted |-> data.deleted, items |-> data.items, hotels |-> data.hotels,
                 vehicles |-> data.vehicles, guide |-> data.guide, pax |-> data.pax,
                 quote |-> data.quote]
BY DEF PlanOf

\* The sections that normalize replaces, and those that it keeps.
LEMMA NormalizedFields ==
  ASSUME NEW Q, NEW new \in PlanOf(Q), NEW old
  PROVE  Normalized(new, old) =
           [destinations |-> new.destinations, days |-> DaysSaved(new, old),
            deleted |-> new.deleted, items |-> ItemsSaved(new, old),
            hotels |-> HotelsSaved(new, old),
            vehicles |-> [t \in VehicleTiers |-> GroupSaved(new, old, t)],
            guide |-> GuideSaved(new, old), pax |-> new.pax, quote |-> QuoteSaved(new)]
<1> DEFINE days == DaysSaved(new, old)
           items == ItemsSaved(new, old)
           hotels == HotelsSaved(new, old)
           vehicles == [t \in VehicleTiers |-> GroupSaved(new, old, t)]
           guide == GuideSaved(new, old)
           quote == QuoteSaved(new)
<1>1. new = [destinations |-> new.destinations, days |-> new.days, deleted |-> new.deleted,
             items |-> new.items, hotels |-> new.hotels, vehicles |-> new.vehicles,
             guide |-> new.guide, pax |-> new.pax, quote |-> new.quote]
  BY PlanSections
<1>2. Normalized(new, old) =
        [new EXCEPT !.days = days, !.items = items, !.hotels = hotels,
                    !.vehicles = vehicles, !.guide = guide, !.quote = quote]
  BY DEF Normalized
<1> HIDE DEF days, items, hotels, vehicles, guide, quote
<1>3. Normalized(new, old) =
        [destinations |-> new.destinations, days |-> days, deleted |-> new.deleted,
         items |-> items, hotels |-> hotels, vehicles |-> vehicles, guide |-> guide,
         pax |-> new.pax, quote |-> quote]
  BY <1>1, <1>2
<1> QED BY <1>3 DEF days, items, hotels, vehicles, guide, quote

\* A price of the catalogue is a number of cents.
LEMMA CatalogueCents ==
  ASSUME CatalogueType, NEW r \in Resources
  PROVE  catalogue[r].price \in Cents /\ catalogue[r].group \in Cents
BY PricesAssumption DEF CatalogueType, Cents

\* A set of natural numbers that has an element has a least one: the initial segments
\* below its elements are finite sets, which strict inclusion orders well.
LEMMA LeastOf ==
  ASSUME NEW S \in SUBSET Nat, S # {}
  PROVE  \E k \in S : \A j \in S : ~(j < k)
<1> DEFINE T == {0 .. k : k \in S}
<1>1. T \subseteq FiniteSubsetsOf(Nat)
  <2> SUFFICES ASSUME NEW k \in S
               PROVE  0 .. k \in FiniteSubsetsOf(Nat)
    OBVIOUS
  <2>1. IsFiniteSet(0 .. k)
    BY FS_Interval
  <2> QED BY <2>1 DEF FiniteSubsetsOf
<1>2. T # {}
  OBVIOUS
<1>3. PICK s \in T : \A r \in T : <<r, s>> \notin StrictSubsetOrdering(Nat)
  <2> HIDE DEF T
  <2> QED BY <1>1, <1>2, FS_StrictSubsetOrderingWellFounded, WFMin
<1>4. PICK k \in S : s = 0 .. k
  OBVIOUS
<1>5. ASSUME NEW j \in S, j < k
      PROVE  FALSE
  <2>1. 0 .. j \subseteq 0 .. k /\ k \in 0 .. k /\ k \notin 0 .. j
    BY <1>5
  <2>2. <<0 .. j, s>> \in StrictSubsetOrdering(Nat)
    BY <2>1, <1>4 DEF StrictSubsetOrdering
  <2> QED BY <1>3, <2>2
<1> QED BY <1>5

\* A non-empty finite set of numbers has a greatest one: of the finite sets of the
\* elements from one of them on, one is contained in no other.
LEMMA GreatestOf ==
  ASSUME NEW S \in SUBSET Nat, IsFiniteSet(S), S # {}
  PROVE  \E k \in S : \A j \in S : ~(k < j)
<1> DEFINE From(k) == {j \in S : k <= j}
           T == {From(k) : k \in S}
<1>1. T \subseteq FiniteSubsetsOf(S)
  <2> SUFFICES ASSUME NEW k \in S
               PROVE  From(k) \in FiniteSubsetsOf(S)
    OBVIOUS
  <2>1. IsFiniteSet(From(k))
    BY FS_Subset
  <2> QED BY <2>1 DEF FiniteSubsetsOf
<1>2. T # {}
  OBVIOUS
<1>3. PICK s \in T : \A r \in T : <<r, s>> \notin StrictSubsetOrdering(S)
  <2> HIDE DEF T
  <2> QED BY <1>1, <1>2, FS_StrictSubsetOrderingWellFounded, WFMin
<1>4. PICK k \in S : s = From(k)
  OBVIOUS
<1>5. ASSUME NEW j \in S, k < j
      PROVE  FALSE
  <2>1. From(j) \subseteq From(k) /\ k \in From(k) /\ k \notin From(j)
    <3>1. k \in Nat /\ j \in Nat /\ k < j
      BY <1>5
    <3>2. ASSUME NEW i \in From(j) PROVE i \in From(k)
      <4>1. i \in S /\ i \in Nat /\ j <= i
        OBVIOUS
      <4> QED BY <3>1, <4>1
    <3>3. k \in From(k) /\ k \notin From(j)
      BY <3>1
    <3> QED BY <3>2, <3>3
  <2>2. <<From(j), s>> \in StrictSubsetOrdering(S)
    <3> HIDE DEF From
    <3>1. From(j) \subseteq S /\ From(k) \subseteq S
      BY DEF From
    <3> QED BY <2>1, <3>1, <1>4 DEF StrictSubsetOrdering
  <2>3. From(j) \in T
    OBVIOUS
  <2> QED BY <1>3, <2>2, <2>3
<1> QED BY <1>5

\* The catalogue has what the itinerary is created with.
LEMMA CatalogueStart == ItineraryInit => CatalogueType
<1> SUFFICES ASSUME ItineraryInit PROVE CatalogueType
  OBVIOUS
<1>1. Prices \in SUBSET Nat /\ IsFiniteSet(Prices) /\ Prices # {}
  BY PricesAssumption
<1>2. Min(Prices) \in Prices
  <2>1. PICK k \in Prices : \A j \in Prices : ~(j < k)
    BY <1>1, LeastOf
  <2>2. \A j \in Prices : k =< j
    BY <1>1, <2>1
  <2> QED BY <2>2 DEF Min
<1>3. Max(Prices) \in Prices
  <2>1. PICK k \in Prices : \A j \in Prices : ~(k < j)
    BY <1>1, GreatestOf
  <2>2. \A j \in Prices : k >= j
    BY <1>1, <2>1
  <2> QED BY <2>2 DEF Max
<1> QED BY <1>2, <1>3 DEF ItineraryInit, CatalogueType

-----------------------------------------------------------------------------
(* The tables give back the plan.                                          *)

\* A set that is numbered 1 to n without repetition has n elements.
LEMMA Numbered ==
  ASSUME NEW n \in Nat, NEW S, NEW f \in [1 .. n -> S],
         \A x \in S : \E i \in 1 .. n : f[i] = x,
         \A i, j \in 1 .. n : f[i] = f[j] => i = j
  PROVE  IsFiniteSet(S) /\ Cardinality(S) = n
<1>1. IsFiniteSet(1 .. n) /\ Cardinality(1 .. n) = n
  BY FS_Interval
<1>2. f \in Bijection(1 .. n, S)
  <2>1. f \in Injection(1 .. n, S)
    BY DEF Injection, IsInjective
  <2>2. f \in Surjection(1 .. n, S)
    BY DEF Surjection
  <2> QED BY <2>1, <2>2 DEF Bijection
<1>3. ExistsBijection(1 .. n, S)
  BY <1>2 DEF ExistsBijection
<1> QED BY <1>1, <1>3, FS_Bijection

\* The rows are the days of s, numbered on from c.
NumberedRows(rows, s, c, b) ==
    /\ \A r \in rows : \E i \in 1 .. Len(s) :
          r = [at |-> c + i, deleted |-> b, day |-> s[i]]
    /\ \A i \in 1 .. Len(s) : [at |-> c + i, deleted |-> b, day |-> s[i]] \in rows

\* The days of a sequence, numbered on from c, come back in their order.
LEMMA InOrderOf ==
  ASSUME NEW S, NEW s \in Seq(S), NEW c \in Nat, NEW b, NEW rows,
         NumberedRows(rows, s, c, b)
  PROVE  InOrder(rows) = s
<1> DEFINE n == Len(s)
           row(i) == [at |-> c + i, deleted |-> b, day |-> s[i]]
<1>0. /\ \A r \in rows : \E i \in 1 .. n : r = row(i)
      /\ \A i \in 1 .. n : row(i) \in rows
  BY DEF NumberedRows
<1>1. n \in Nat /\ s = [i \in 1 .. n |-> s[i]]
  BY LenProperties
<1>2. \A i, j \in 1 .. n : /\ row(i).at < row(j).at <=> i < j
                           /\ row(i) = row(j) => i = j
  BY <1>1
<1>3. Cardinality(rows) = n
  <2> DEFINE f == [i \in 1 .. n |-> row(i)]
  <2>1. f \in [1 .. n -> rows]
    BY <1>0
  <2>2. /\ \A x \in rows : \E i \in 1 .. n : f[i] = x
        /\ \A i, j \in 1 .. n : f[i] = f[j] => i = j
    BY <1>0, <1>2
  <2> HIDE DEF f, n
  <2> QED BY <1>1, <2>1, <2>2, Numbered
<1>4. ASSUME NEW i \in 1 .. n
      PROVE  Cardinality({r \in rows : r.at < row(i).at}) = i - 1
  <2> DEFINE first == {r \in rows : r.at < row(i).at}
             f == [j \in 1 .. i - 1 |-> row(j)]
  <2>1. i - 1 \in Nat /\ \A j \in 1 .. i - 1 : j \in 1 .. n /\ j < i
    BY <1>1
  <2>2. f \in [1 .. i - 1 -> first]
    BY <1>0, <1>2, <2>1
  <2>3. ASSUME NEW x \in first PROVE \E j \in 1 .. i - 1 : f[j] = x
    <3>1. PICK j \in 1 .. n : x = row(j)
      BY <1>0
    <3>2. j < i
      BY <1>2, <3>1
    <3>3. j \in 1 .. i - 1
      BY <1>1, <3>2
    <3> QED BY <3>1, <3>3
  <2>4. \A j, k \in 1 .. i - 1 : f[j] = f[k] => j = k
    BY <1>2, <2>1
  <2> HIDE DEF f, first
  <2>5. Cardinality(first) = i - 1
    BY <2>1, <2>2, <2>3, <2>4, Numbered
  <2> QED BY <2>5 DEF first
<1> DEFINE before(r) == Cardinality({q \in rows : q.at < r.at})
<1>5. ASSUME NEW i \in 1 .. n
      PROVE  (CHOOSE r \in rows : before(r) = i - 1).day = s[i]
  <2>1. row(i) \in rows /\ before(row(i)) = i - 1
    BY <1>0, <1>4
  <2>2. ASSUME NEW r \in rows, before(r) = i - 1 PROVE r = row(i)
    <3>1. PICK j \in 1 .. n : r = row(j)
      BY <1>0
    <3>2. before(row(j)) = j - 1
      BY <1>4
    <3> HIDE DEF before, row
    <3>3. j - 1 = i - 1
      BY <2>2, <3>1, <3>2
    <3>4. j = i
      BY <1>1, <3>3
    <3> QED BY <3>1, <3>4
  <2>3. (CHOOSE r \in rows : before(r) = i - 1) = row(i)
    <3> HIDE DEF before, row
    <3> QED BY <2>1, <2>2
  <2>4. row(i).day = s[i]
    OBVIOUS
  <2> HIDE DEF before, row
  <2> QED BY <2>3, <2>4
<1>6. InOrder(rows) =
        [i \in 1 .. Cardinality(rows) |-> (CHOOSE r \in rows : before(r) = i - 1).day]
  BY DEF InOrder
<1>7. InOrder(rows) = [i \in 1 .. n |-> s[i]]
  <2> HIDE DEF before, row
  <2> QED BY <1>3, <1>5, <1>6
<1> QED BY <1>1, <1>7

\* The segments of a tier come back as they were.
LEMMA RangesLoaded ==
  ASSUME NEW data, NEW t \in VehicleTiers, NEW S, data.vehicles[t].ranges \in Seq(S)
  PROVE  RangesOf(Rows(data), t) = data.vehicles[t].ranges
<1> DEFINE ranges == data.vehicles[t].ranges
           n == Len(ranges)
           row(r) == <<t, r, ranges[r]>>
           own == {r \in Rows(data).ranges : r[1] = t}
<1>1. n \in Nat /\ DOMAIN ranges = 1 .. n /\ ranges = [r \in 1 .. n |-> ranges[r]]
  BY LenProperties
<1>2. own = {row(r) : r \in 1 .. n}
  <2>1. Rows(data).ranges = UNION {{<<u, r, data.vehicles[u].ranges[r]>> :
                              r \in DOMAIN data.vehicles[u].ranges} : u \in VehicleTiers}
    BY DEF Rows
  <2>2. ASSUME NEW x \in own PROVE x \in {row(r) : r \in 1 .. n}
    <3>1. PICK u \in VehicleTiers : x \in {<<u, r, data.vehicles[u].ranges[r]>> :
                                              r \in DOMAIN data.vehicles[u].ranges}
      BY <2>1
    <3>2. u = t
      BY <3>1
    <3> QED BY <1>1, <3>1, <3>2
  <2>3. ASSUME NEW r \in 1 .. n PROVE row(r) \in own
    BY <1>1, <2>1
  <2> QED BY <2>2, <2>3
<1>3. Cardinality(own) = n
  <2> DEFINE f == [r \in 1 .. n |-> row(r)]
  <2>1. f \in [1 .. n -> own]
    BY <1>2
  <2>2. \A x \in own : \E r \in 1 .. n : f[r] = x
    BY <1>2
  <2>3. \A r, q \in 1 .. n : f[r] = f[q] => r = q
    OBVIOUS
  <2> HIDE DEF f, own, n
  <2> QED BY <1>1, <2>1, <2>2, <2>3, Numbered
<1>4. ASSUME NEW r \in 1 .. n PROVE (CHOOSE x \in own : x[2] = r)[3] = ranges[r]
  <2>1. row(r) \in own /\ row(r)[2] = r /\ row(r)[3] = ranges[r]
    BY <1>2
  <2>2. \A x \in own : x[2] = r => x = row(r)
    BY <1>2
  <2> HIDE DEF own, row
  <2>3. (CHOOSE x \in own : x[2] = r) = row(r)
    BY <2>1, <2>2
  <2> QED BY <2>1, <2>3
<1>5. RangesOf(Rows(data), t) =
        [r \in 1 .. Cardinality(own) |-> (CHOOSE x \in own : x[2] = r)[3]]
  BY DEF RangesOf
<1> HIDE DEF own
<1> QED BY <1>1, <1>3, <1>4, <1>5

\* The prices of an option come back under their sizes of group.
LEMMA PricesLoaded ==
  ASSUME NEW data, NEW o \in DOMAIN data.quote.options,
         NEW costs, data.quote.options[o] = [p \in data.pax |-> costs[p]]
  PROVE  PricesUnder(Rows(data), o) = data.quote.options[o]
<1> DEFINE row(p) == <<o, p, data.quote.options[o][p]>>
           own == {r \in Rows(data).prices : r[1] = o}
<1>1. own = {row(p) : p \in data.pax}
  <2>1. Rows(data).prices = UNION {{<<q, p, data.quote.options[q][p]>> : p \in data.pax} :
                                      q \in DOMAIN data.quote.options}
    BY DEF Rows
  <2>2. ASSUME NEW x \in own PROVE x \in {row(p) : p \in data.pax}
    <3>1. PICK q \in DOMAIN data.quote.options :
            x \in {<<q, p, data.quote.options[q][p]>> : p \in data.pax}
      BY <2>1
    <3>2. q = o
      BY <3>1
    <3> QED BY <3>1, <3>2
  <2>3. ASSUME NEW p \in data.pax PROVE row(p) \in own
    BY <2>1
  <2> QED BY <2>2, <2>3
<1>2. {r[2] : r \in own} = data.pax
  <2>1. \A r \in own : r[2] \in data.pax
    BY <1>1
  <2>2. \A p \in data.pax : row(p) \in own /\ row(p)[2] = p
    BY <1>1
  <2> HIDE DEF own, row
  <2> QED BY <2>1, <2>2
<1>3. ASSUME NEW p \in data.pax
      PROVE  (CHOOSE r \in own : r[2] = p)[3] = data.quote.options[o][p]
  <2>1. row(p) \in own /\ row(p)[2] = p /\ row(p)[3] = data.quote.options[o][p]
    BY <1>1
  <2>2. \A x \in own : x[2] = p => x = row(p)
    BY <1>1
  <2> HIDE DEF own, row
  <2>3. (CHOOSE x \in own : x[2] = p) = row(p)
    BY <2>1, <2>2
  <2> QED BY <2>1, <2>3
<1>4. PricesUnder(Rows(data), o) =
        [p \in {r[2] : r \in own} |-> (CHOOSE r \in own : r[2] = p)[3]]
  BY DEF PricesUnder
<1> HIDE DEF own
<1> QED BY <1>2, <1>3, <1>4

\* The days come back in their order, the deleted ones apart.
LEMMA DaysLoaded ==
  ASSUME NEW data, NEW S, data.days \in Seq(S), data.deleted \in Seq(S)
  PROVE  /\ InOrder({r \in Rows(data).days : ~r.deleted}) = data.days
         /\ InOrder({r \in Rows(data).days : r.deleted}) = data.deleted
<1> DEFINE active == {[at |-> i, deleted |-> FALSE, day |-> data.days[i]] :
                         i \in DOMAIN data.days}
           gone == {[at |-> Len(data.days) + i, deleted |-> TRUE, day |-> data.deleted[i]] :
                       i \in DOMAIN data.deleted}
<1>1. /\ Len(data.days) \in Nat /\ DOMAIN data.days = 1 .. Len(data.days)
      /\ DOMAIN data.deleted = 1 .. Len(data.deleted)
  BY LenProperties
<1>2. Rows(data).days = active \cup gone
  BY DEF Rows
<1>3. {r \in Rows(data).days : ~r.deleted} = active
  <2>1. \A r \in active : ~r.deleted
    OBVIOUS
  <2>2. \A r \in gone : r.deleted
    OBVIOUS
  <2> QED BY <1>2, <2>1, <2>2
<1>4. {r \in Rows(data).days : r.deleted} = gone
  <2>1. \A r \in active : ~r.deleted
    OBVIOUS
  <2>2. \A r \in gone : r.deleted
    OBVIOUS
  <2> QED BY <1>2, <2>1, <2>2
<1>5. InOrder(active) = data.days
  <2>1. PICK c \in Nat, b \in BOOLEAN : c = 0 /\ b = FALSE
    OBVIOUS
  <2>2. \A i \in 1 .. Len(data.days) : c + i = i
    BY <1>1, <2>1
  <2>3. \A r \in active : \E i \in 1 .. Len(data.days) :
           r = [at |-> c + i, deleted |-> b, day |-> data.days[i]]
    BY <1>1, <2>1, <2>2
  <2>4. \A i \in 1 .. Len(data.days) :
           [at |-> c + i, deleted |-> b, day |-> data.days[i]] \in active
    BY <1>1, <2>1, <2>2
  <2> HIDE DEF active
  <2>5. NumberedRows(active, data.days, c, b)
    BY <2>3, <2>4 DEF NumberedRows
  <2> QED BY <2>5, InOrderOf
<1>6. InOrder(gone) = data.deleted
  <2>1. PICK c \in Nat, b \in BOOLEAN : c = Len(data.days) /\ b = TRUE
    BY <1>1
  <2>2. \A r \in gone : \E i \in 1 .. Len(data.deleted) :
           r = [at |-> c + i, deleted |-> b, day |-> data.deleted[i]]
    BY <1>1, <2>1
  <2>3. \A i \in 1 .. Len(data.deleted) :
           [at |-> c + i, deleted |-> b, day |-> data.deleted[i]] \in gone
    BY <1>1, <2>1
  <2> HIDE DEF gone
  <2>4. NumberedRows(gone, data.deleted, c, b)
    BY <2>2, <2>3 DEF NumberedRows
  <2> QED BY <2>4, InOrderOf
<1> QED BY <1>3, <1>4, <1>5, <1>6

\* What a client sends is a plan of the DTO types.
LEMMA InputFields ==
  ASSUME NEW data, ItineraryInput(data)
  PROVE  /\ data \in PlanOf(QuoteInput(data.quote))
         /\ data.destinations \subseteq Cities
         /\ data.days \in Seq(DayInput) /\ data.deleted \in Seq(DayInput)
         /\ data.items \in [ItemNames -> ItemInput \cup {Nothing}]
         /\ data.hotels \in [HotelTiers \X Cities -> HotelInput \cup {Nothing}]
         /\ data.vehicles \in [VehicleTiers -> VehiclePlanInput]
         /\ data.guide \in GuideInput \cup {Nothing}
         /\ data.pax \subseteq GroupSizes
         /\ data.quote \in QuoteInput(data.quote)
         /\ data.destinations # {} /\ data.days # <<>> /\ data.pax # {}
<1>1. data \in PlanOf(QuoteInput(data.quote))
  BY DEF ItineraryInput
<1> QED BY <1>1, PlanFields

\* So is a settled plan.
LEMMA SettledFields ==
  ASSUME NEW data, Settled(data)
  PROVE  /\ data \in PlanOf(QuoteInput(data.quote))
         /\ data.destinations \subseteq Cities
         /\ data.days \in Seq(DayInput) /\ data.deleted \in Seq(DayInput)
         /\ data.items \in [ItemNames -> ItemInput \cup {Nothing}]
         /\ data.hotels \in [HotelTiers \X Cities -> HotelInput \cup {Nothing}]
         /\ data.vehicles \in [VehicleTiers -> VehiclePlanInput]
         /\ data.guide \in GuideInput \cup {Nothing}
         /\ data.pax \subseteq GroupSizes
         /\ data.quote \in QuoteInput(data.quote)
<1>1. ItineraryInput(data)
  BY DEF Settled
<1> QED BY <1>1, InputFields

\* A vehicle plan of a settled plan.
LEMMA SettledGroup ==
  ASSUME NEW data, Settled(data), NEW t \in VehicleTiers
  PROVE  /\ GroupSettled(data, t)
         /\ data.vehicles[t] \in [ranges : Seq(ArrangementInput), mode : Modes \cup {NoMode},
                                  total : Cents, segment : Cents, reason : Reason]
BY SettledFields DEF Settled, VehiclePlanInput

\* The options of a settled plan are those its hotels and vehicles offer, each with a
\* price, or none, for each size of group.
LEMMA SettledOptions ==
  ASSUME NEW data, Settled(data)
  PROVE  /\ DOMAIN data.quote.options = OfferedTiers(data) \X UsedVehicleTiers(data)
         /\ \A o \in DOMAIN data.quote.options :
               data.quote.options[o] = [p \in data.pax |-> data.quote.options[o][p]]
<1>1. data.quote = QuoteSaved(data) /\ data.quote \in QuoteInput(data.quote)
  BY SettledFields DEF Settled
<1>2. QuoteSaved(data).options = OptionsSaved(data)
  BY <1>1 DEF QuoteSaved, QuoteInput
<1>3. data.quote.options = OptionsSaved(data)
  BY <1>1, <1>2
<1>4. DOMAIN OptionsSaved(data) = OfferedTiers(data) \X UsedVehicleTiers(data)
  BY DEF OptionsSaved
<1>5. \A o \in DOMAIN OptionsSaved(data) :
         OptionsSaved(data)[o] = [p \in data.pax |-> OptionsSaved(data)[o][p]]
  BY DEF OptionsSaved
<1> QED BY <1>3, <1>4, <1>5

\* The tables of a settled plan give it back.
LEMMA LoadedRows ==
  ASSUME NEW data, Settled(data)
  PROVE  Loaded(Rows(data)) = data
<1> DEFINE rows == Rows(data)
           vehicles == [t \in VehicleTiers |->
                          [data.vehicles[t] EXCEPT !.ranges = RangesOf(rows, t)]]
           options == [o \in rows.options |-> PricesUnder(rows, o)]
<1>1. rows.rest = data /\ rows.options = DOMAIN data.quote.options
  BY DEF Rows
<1>2. /\ InOrder({r \in rows.days : ~r.deleted}) = data.days
      /\ InOrder({r \in rows.days : r.deleted}) = data.deleted
  BY SettledFields, DaysLoaded
<1>3. vehicles = data.vehicles
  <2>1. ASSUME NEW t \in VehicleTiers
        PROVE  [data.vehicles[t] EXCEPT !.ranges = RangesOf(rows, t)] = data.vehicles[t]
    <3>1. RangesOf(rows, t) = data.vehicles[t].ranges
      <4>1. data.vehicles[t].ranges \in Seq(ArrangementInput)
        BY SettledGroup
      <4> QED BY <4>1, RangesLoaded
    <3> HIDE DEF rows
    <3> QED BY <3>1, SettledGroup
  <2>2. data.vehicles = [t \in VehicleTiers |-> data.vehicles[t]]
    BY SettledFields
  <2> HIDE DEF rows
  <2> QED BY <2>1, <2>2
<1>4. [data.quote EXCEPT !.options = options] = data.quote
  <2>1. \A o \in DOMAIN data.quote.options : PricesUnder(rows, o) = data.quote.options[o]
    BY SettledOptions, PricesLoaded
  <2>2. data.quote.options = [o \in DOMAIN data.quote.options |-> data.quote.options[o]]
    BY SettledFields, SettledOptions DEF QuoteInput, QuoteSaved, OptionsSaved, Settled
  <2>3. options = data.quote.options
    <3> HIDE DEF rows
    <3> QED BY <1>1, <2>1, <2>2
  <2> HIDE DEF options
  <2> QED BY <2>3, SettledFields DEF QuoteInput
<1>5. Loaded(rows) = [data EXCEPT !.days = data.days, !.deleted = data.deleted,
                                  !.vehicles = vehicles, !.quote = [@ EXCEPT !.options = options]]
  <2> HIDE DEF rows
  <2> QED BY <1>1, <1>2 DEF Loaded
<1> HIDE DEF rows, vehicles, options
<1> QED BY <1>3, <1>4, <1>5, SettledFields, ZenonT(60) DEF rows, PlanOf

-----------------------------------------------------------------------------
(* What a save leaves behind, section by section.                          *)

\* A price that is kept keeps an accounted reason; one that changes is given a reason
\* when it departs from the reference.
LEMMA KeptAccounted ==
  ASSUME NEW price, NEW previous, NEW reference, NEW reason, NEW oldReason,
         NEW lenient, ~lenient,
         ReasonGiven(price, previous, reference, lenient, reason),
         previous # NoPrice /\ price = previous /\ ~Restored(price, reference)
         => oldReason # Blank
  PROVE  LET kept == ReasonKept(price, previous, reference, lenient, reason, oldReason)
         IN  /\ price = NoPrice => kept = Blank
             /\ price # NoPrice /\ ~Restored(price, reference) => kept # Blank
             /\ kept \in {Blank, reason, oldReason}
BY DEF ReasonGiven, ReasonKept, NeedsReason, Changed

\* An item is saved as sent, but for the reference, the diners and the reason.
LEMMA ItemSaved ==
  ASSUME CatalogueType, NEW new, ItineraryInput(new), NEW old,
         old = Nothing \/ Settled(old), ItemsOk(new, old), NEW m \in Known(new.items)
  PROVE  /\ ItemsSaved(new, old)[m] \in ItemInput
         /\ ItemsSaved(new, old)[m].day = new.items[m].day
         /\ ItemsSaved(new, old)[m].resource = new.items[m].resource
         /\ ItemsSaved(new, old)[m].slot = new.items[m].slot
         /\ ItemsSaved(new, old)[m].price = new.items[m].price
         /\ ItemsSaved(new, old)[m].reference = ItemReference(new, old, m)
         /\ ItemsSaved(new, old)[m].reason =
              ReasonKept(new.items[m].price, PriceBefore(OldItem(new, old, m)),
                         ItemReference(new, old, m), FALSE, new.items[m].reason,
                         ReasonBefore(OldItem(new, old, m)))
         /\ new.items[m].resource = CustomMeal
            => ItemsSaved(new, old)[m].reference = NoPrice
         /\ Accounted(ItemsSaved(new, old)[m])
<1> DEFINE saved == ItemsSaved(new, old)
<1> DEFINE item == new.items[m]
           was == OldItem(new, old, m)
           ref == ItemReference(new, old, m)
           diners == ItemDiners(new, old, m)
           reason == ReasonKept(item.price, PriceBefore(was), ref, FALSE, item.reason,
                                ReasonBefore(was))
<1>0. /\ new.items \in [ItemNames -> ItemInput \cup {Nothing}] /\ Nothing \notin ItemInput
      /\ m \in ItemNames /\ new.items[m] # Nothing
  BY InputFields, NothingAssumption DEF Known
<1>1. item \in ItemInput /\ m \in Known(new.items)
  BY <1>0
<1>2. saved[m] = [item EXCEPT !.reference = ref, !.diners = diners, !.reason = reason]
  BY <1>0 DEF ItemsSaved
<1>3. was = Nothing \/ (/\ was \in ItemInput /\ Accounted(was) /\ was # Nothing
                        /\ was.resource = item.resource
                        /\ was.resource = CustomMeal => was.reference = NoPrice)
  <2>1. CASE old = Nothing
    BY <2>1 DEF OldItem
  <2>2. CASE old # Nothing
    <3>1. Settled(old) /\ old.items \in [ItemNames -> ItemInput \cup {Nothing}]
      BY <2>2, SettledFields
    <3>2. CASE was = Nothing
      BY <3>2
    <3>3. CASE was # Nothing
      <4>1. /\ was = old.items[m] /\ old.items[m] # Nothing
            /\ old.items[m].resource = new.items[m].resource
        BY <2>2, <3>3 DEF OldItem
      <4>2. m \in Known(old.items)
        BY <1>0, <3>1, <4>1 DEF Known
      <4>3. /\ Accounted(was)
            /\ was.resource = CustomMeal => was.reference = NoPrice
        BY <3>1, <4>1, <4>2 DEF Settled, ItemsSettled
      <4>4. was \in ItemInput
        BY <1>0, <3>1, <4>1
      <4> QED BY <4>1, <4>3, <4>4
    <3> QED BY <3>2, <3>3
  <2> QED BY <2>1, <2>2
<1>4. ref \in Cents /\ (item.resource = CustomMeal => ref = NoPrice)
  <2>1. CASE item.resource = CustomMeal
    BY <2>1 DEF ItemReference, Cents
  <2>2. CASE item.resource # CustomMeal /\ was # Nothing
    <3>1. ref = was.reference
      BY <2>2 DEF ItemReference
    <3>2. was.reference \in Cents
      BY <1>3, <2>2 DEF ItemInput
    <3> QED BY <2>2, <3>1, <3>2
  <2>3. CASE item.resource # CustomMeal /\ was = Nothing
    <3>1. item.resource \in Resources
      BY <1>1, <2>3 DEF ItemInput, Resources
    <3>2. ref = catalogue[item.resource].price
      BY <2>3 DEF ItemReference
    <3> QED BY <2>3, <3>1, <3>2, CatalogueCents
  <2> QED BY <2>1, <2>2, <2>3
<1>5. diners \in (Nat \ {0}) \cup {Nothing}
  <2>1. CASE item.resource = CustomMeal
    BY <1>1, <2>1 DEF ItemDiners, ItemInput
  <2>2. CASE item.resource # CustomMeal /\ was # Nothing
    <3>1. diners = was.diners
      BY <2>2 DEF ItemDiners
    <3> QED BY <1>3, <2>2, <3>1 DEF ItemInput
  <2>3. CASE item.resource # CustomMeal /\ was = Nothing
    <3>1. item.resource \in Restaurants \cup Attractions
      BY <1>1, <2>3 DEF ItemInput
    <3>2. diners = TableSize[item.resource]
      BY <2>3 DEF ItemDiners
    <3> QED BY <3>1, <3>2, TableSizeAssumption
  <2> QED BY <2>1, <2>2, <2>3
<1>6. ReasonGiven(item.price, PriceBefore(was), ref, FALSE, item.reason)
  BY <1>1 DEF ItemsOk
<1>7. PriceBefore(was) # NoPrice /\ item.price = PriceBefore(was)
      /\ ~Restored(item.price, ref) => ReasonBefore(was) # Blank
  <2>1. CASE was = Nothing
    BY <2>1 DEF PriceBefore
  <2>2. CASE was # Nothing
    <3>1. ref = was.reference
      BY <1>3, <2>2 DEF ItemReference
    <3>2. PriceBefore(was) = was.price /\ ReasonBefore(was) = was.reason
      BY <2>2 DEF PriceBefore, ReasonBefore
    <3> QED BY <1>3, <2>2, <3>1, <3>2 DEF Accounted
  <2> QED BY <2>1, <2>2
<1> HIDE DEF item, was, ref, diners, saved
<1>8. /\ item.price = NoPrice => reason = Blank
      /\ item.price # NoPrice /\ ~Restored(item.price, ref) => reason # Blank
      /\ reason \in {Blank, item.reason, ReasonBefore(was)}
  BY <1>6, <1>7, KeptAccounted
<1>9. reason \in Reason
  <2>1. ReasonBefore(was) \in Reason /\ item.reason \in Reason /\ Blank \in Reason
    BY <1>1, <1>3 DEF ReasonBefore, Reason, ItemInput
  <2> QED BY <1>8, <2>1
<1> HIDE DEF reason
<1>10. /\ saved[m] \in ItemInput
       /\ saved[m].day = item.day /\ saved[m].resource = item.resource
       /\ saved[m].slot = item.slot /\ saved[m].price = item.price
       /\ saved[m].reference = ref /\ saved[m].reason = reason
  BY <1>1, <1>2, <1>4, <1>5, <1>9 DEF ItemInput
<1>11. Accounted(saved[m])
  BY <1>8, <1>10 DEF Accounted
<1> QED BY <1>4, <1>10, <1>11 DEF item, was, ref, reason, saved

\* The items that are saved are those sent.
LEMMA ItemsSavedType ==
  ASSUME CatalogueType, NEW new, ItineraryInput(new), NEW old,
         old = Nothing \/ Settled(old), ItemsOk(new, old)
  PROVE  /\ ItemsSaved(new, old) \in [ItemNames -> ItemInput \cup {Nothing}]
         /\ Known(ItemsSaved(new, old)) = Known(new.items)
<1> DEFINE saved == ItemsSaved(new, old)
<1>1. new.items \in [ItemNames -> ItemInput \cup {Nothing}] /\ Nothing \notin ItemInput
  BY InputFields, NothingAssumption
<1>2. DOMAIN saved = ItemNames /\ saved = [m \in ItemNames |-> saved[m]]
  BY <1>1 DEF ItemsSaved
<1>3. ASSUME NEW m \in ItemNames, new.items[m] = Nothing
      PROVE  saved[m] = Nothing
  BY <1>1, <1>3 DEF ItemsSaved
<1>4. ASSUME NEW m \in ItemNames, new.items[m] # Nothing
      PROVE  saved[m] \in ItemInput
  <2>1. m \in Known(new.items)
    BY <1>1, <1>4 DEF Known
  <2> QED BY <2>1, ItemSaved
<1> HIDE DEF saved
<1>5. saved \in [ItemNames -> ItemInput \cup {Nothing}]
  BY <1>2, <1>3, <1>4
<1>6. Known(saved) = Known(new.items)
  BY <1>1, <1>2, <1>3, <1>4 DEF Known
<1> QED BY <1>5, <1>6 DEF saved

\* The hotels are saved as sent, but for the reference and the reason.
LEMMA HotelsSavedType ==
  ASSUME CatalogueType, NEW new, ItineraryInput(new), NEW old,
         old = Nothing \/ Settled(old), HotelsOk(new, old)
  PROVE  LET saved == HotelsSaved(new, old)
         IN  /\ saved \in [HotelTiers \X Cities -> HotelInput \cup {Nothing}]
             /\ Known(saved) = Known(new.hotels)
             /\ \A k \in Known(saved) :
                   /\ saved[k].hotel = new.hotels[k].hotel
                   /\ saved[k].basis = new.hotels[k].basis
                   /\ saved[k].price = new.hotels[k].price
                   /\ saved[k].reference = HotelReference(new, old, k)
                   /\ saved[k].reason =
                        ReasonKept(new.hotels[k].price, HotelPriceBefore(new, old, k),
                                   HotelReference(new, old, k), FALSE, new.hotels[k].reason,
                                   ReasonBefore(OldHotel(new, old, k)))
                   /\ Accounted(saved[k])
<1> DEFINE saved == HotelsSaved(new, old)
<1>1. /\ new.hotels \in [HotelTiers \X Cities -> HotelInput \cup {Nothing}]
      /\ Nothing \notin HotelInput
  BY InputFields, NothingAssumption
<1>2. DOMAIN saved = HotelTiers \X Cities
  BY <1>1 DEF HotelsSaved
<1>3. ASSUME NEW k \in HotelTiers \X Cities, new.hotels[k] = Nothing
      PROVE  saved[k] = Nothing
  BY <1>1, <1>3 DEF HotelsSaved
<1>4. ASSUME NEW k \in HotelTiers \X Cities, new.hotels[k] # Nothing
      PROVE  /\ saved[k] \in HotelInput
             /\ saved[k].hotel = new.hotels[k].hotel
             /\ saved[k].basis = new.hotels[k].basis
             /\ saved[k].price = new.hotels[k].price
             /\ saved[k].reference = HotelReference(new, old, k)
             /\ saved[k].reason =
                  ReasonKept(new.hotels[k].price, HotelPriceBefore(new, old, k),
                             HotelReference(new, old, k), FALSE, new.hotels[k].reason,
                             ReasonBefore(OldHotel(new, old, k)))
             /\ Accounted(saved[k])
  <2> DEFINE hotel == new.hotels[k]
             was == OldHotel(new, old, k)
             ref == HotelReference(new, old, k)
             before == HotelPriceBefore(new, old, k)
             reason == ReasonKept(hotel.price, before, ref, FALSE, hotel.reason,
                                  ReasonBefore(was))
  <2>1. hotel \in HotelInput /\ k \in Known(new.hotels)
    BY <1>1, <1>4 DEF Known
  <2>2. saved[k] = [hotel EXCEPT !.reference = ref, !.reason = reason]
    BY <1>1, <1>4 DEF HotelsSaved
  <2>3. was = Nothing \/ (was \in HotelInput /\ Accounted(was) /\ was # Nothing)
    <3>1. CASE old = Nothing
      BY <3>1 DEF OldHotel
    <3>2. CASE old # Nothing
      <4>1. Settled(old) /\ old.hotels \in [HotelTiers \X Cities -> HotelInput \cup {Nothing}]
        BY <3>2, SettledFields
      <4>2. CASE was = Nothing
        BY <4>2
      <4>3. CASE was # Nothing
        <5>1. was = old.hotels[k] /\ old.hotels[k] # Nothing
          BY <3>2, <4>3 DEF OldHotel
        <5>2. k \in Known(old.hotels)
          BY <4>1, <5>1 DEF Known
        <5> QED BY <4>1, <5>1, <5>2 DEF Settled, HotelsSettled
      <4> QED BY <4>2, <4>3
    <3> QED BY <3>1, <3>2
  <2>4. ref \in Cents
    <3>1. CASE SameBasis(new, old, k)
      <4>1. ref = was.reference /\ was # Nothing
        BY <3>1 DEF HotelReference, SameBasis
      <4> QED BY <2>3, <4>1 DEF HotelInput
    <3>2. CASE ~SameBasis(new, old, k)
      <4>1. hotel.hotel \in Resources
        BY <2>1 DEF HotelInput, Resources
      <4>2. ref \in {catalogue[hotel.hotel].group, catalogue[hotel.hotel].price}
        BY <3>2 DEF HotelReference
      <4> QED BY <4>1, <4>2, CatalogueCents
    <3> QED BY <3>1, <3>2
  <2>5. ReasonGiven(hotel.price, before, ref, FALSE, hotel.reason)
    BY <2>1 DEF HotelsOk
  <2>6. before # NoPrice /\ hotel.price = before /\ ~Restored(hotel.price, ref)
        => ReasonBefore(was) # Blank
    <3>1. CASE ~SameBasis(new, old, k)
      BY <3>1 DEF HotelPriceBefore
    <3>2. CASE SameBasis(new, old, k)
      <4>1. ref = was.reference /\ was # Nothing /\ before = was.price
        BY <3>2 DEF HotelReference, SameBasis, HotelPriceBefore
      <4> QED BY <2>3, <4>1 DEF Accounted, ReasonBefore
    <3> QED BY <3>1, <3>2
  <2> HIDE DEF hotel, was, ref, before
  <2>7. /\ hotel.price = NoPrice => reason = Blank
        /\ hotel.price # NoPrice /\ ~Restored(hotel.price, ref) => reason # Blank
        /\ reason \in {Blank, hotel.reason, ReasonBefore(was)}
    BY <2>5, <2>6, KeptAccounted
  <2>8. reason \in Reason
    <3>1. ReasonBefore(was) \in Reason /\ hotel.reason \in Reason /\ Blank \in Reason
      BY <2>1, <2>3 DEF ReasonBefore, Reason, HotelInput
    <3> QED BY <2>7, <3>1
  <2> HIDE DEF reason
  <2>9. /\ saved[k] \in HotelInput
        /\ saved[k].hotel = hotel.hotel /\ saved[k].basis = hotel.basis
        /\ saved[k].price = hotel.price
        /\ saved[k].reference = ref /\ saved[k].reason = reason
    BY <2>1, <2>2, <2>4, <2>8 DEF HotelInput
  <2>10. Accounted(saved[k])
    BY <2>7, <2>9 DEF Accounted
  <2> QED BY <2>9, <2>10 DEF hotel, was, ref, before, reason
<1>5. saved = [k \in HotelTiers \X Cities |-> saved[k]]
  BY <1>1 DEF HotelsSaved
<1> HIDE DEF saved
<1>6. saved \in [HotelTiers \X Cities -> HotelInput \cup {Nothing}]
  BY <1>3, <1>4, <1>5
<1>7. Known(saved) = Known(new.hotels)
  BY <1>1, <1>2, <1>3, <1>4 DEF Known
<1>8. \A k \in Known(saved) : k \in HotelTiers \X Cities /\ new.hotels[k] # Nothing
  BY <1>1, <1>7 DEF Known
<1> QED BY <1>4, <1>6, <1>7, <1>8 DEF saved

\* The guide is saved as sent, but for the reference and the reason.
LEMMA GuideSavedType ==
  ASSUME CatalogueType, NEW new, ItineraryInput(new), NEW old,
         old = Nothing \/ Settled(old), GuideOk(new, old)
  PROVE  LET saved == GuideSaved(new, old)
             was == OldGuide(new, old)
             ref == GuideReference(new, old)
         IN  /\ saved \in GuideInput \cup {Nothing}
             /\ saved # Nothing =>
                  /\ new.guide # Nothing
                  /\ saved.city = new.guide.city /\ saved.guide = new.guide.guide
                  /\ saved.price = new.guide.price
                  /\ saved.reason = ReasonKept(new.guide.price, PriceBefore(was), ref, FALSE,
                                               new.guide.reason, ReasonBefore(was))
                  /\ ReasonGiven(new.guide.price, PriceBefore(was), ref, FALSE,
                                 new.guide.reason)
                  /\ saved.city \in new.destinations
                  /\ Accounted(saved)
<1> DEFINE saved == GuideSaved(new, old)
           sent == new.guide
           was == OldGuide(new, old)
           ref == GuideReference(new, old)
           reason == ReasonKept(sent.price, PriceBefore(was), ref, FALSE, sent.reason,
                                ReasonBefore(was))
<1>1. new.guide \in GuideInput \cup {Nothing} /\ Nothing \notin GuideInput
  BY InputFields, NothingAssumption
<1>2. CASE new.guide = Nothing
  BY <1>2 DEF GuideSaved
<1>3. CASE new.guide # Nothing
  <2>1. sent \in GuideInput
    BY <1>1, <1>3
  <2>2. saved = [sent EXCEPT !.reference = ref, !.reason = reason]
    BY <1>3 DEF GuideSaved
  <2>3. was = Nothing \/ (was \in GuideInput /\ Accounted(was) /\ was # Nothing)
    <3>1. CASE old = Nothing
      BY <3>1 DEF OldGuide
    <3>2. CASE old # Nothing
      <4>1. Settled(old) /\ old.guide \in GuideInput \cup {Nothing}
        BY <3>2, SettledFields
      <4>2. was = Nothing \/ (was = old.guide /\ old.guide # Nothing)
        BY <3>2 DEF OldGuide
      <4> QED BY <4>1, <4>2 DEF Settled, GuideSettled
    <3> QED BY <3>1, <3>2
  <2>4. ref \in Cents
    <3>1. CASE was # Nothing
      <4>1. ref = was.reference
        BY <3>1 DEF GuideReference
      <4> QED BY <2>3, <3>1, <4>1 DEF GuideInput
    <3>2. CASE was = Nothing
      <4>1. sent.guide \in Resources
        BY <2>1 DEF GuideInput, Resources
      <4>2. ref = catalogue[sent.guide].price
        BY <3>2 DEF GuideReference
      <4> QED BY <4>1, <4>2, CatalogueCents
    <3> QED BY <3>1, <3>2
  <2>5. /\ ReasonGiven(sent.price, PriceBefore(was), ref, FALSE, sent.reason)
        /\ sent.city \in new.destinations
    BY <1>3 DEF GuideOk
  <2>6. PriceBefore(was) # NoPrice /\ sent.price = PriceBefore(was)
        /\ ~Restored(sent.price, ref) => ReasonBefore(was) # Blank
    <3>1. CASE was = Nothing
      BY <3>1 DEF PriceBefore
    <3>2. CASE was # Nothing
      <4>1. ref = was.reference /\ PriceBefore(was) = was.price
            /\ ReasonBefore(was) = was.reason
        BY <3>2 DEF GuideReference, PriceBefore, ReasonBefore
      <4> QED BY <2>3, <3>2, <4>1 DEF Accounted
    <3> QED BY <3>1, <3>2
  <2> HIDE DEF sent, was, ref
  <2>7. /\ sent.price = NoPrice => reason = Blank
        /\ sent.price # NoPrice /\ ~Restored(sent.price, ref) => reason # Blank
        /\ reason \in {Blank, sent.reason, ReasonBefore(was)}
    BY <2>5, <2>6, KeptAccounted
  <2>8. reason \in Reason
    <3>1. ReasonBefore(was) \in Reason /\ sent.reason \in Reason /\ Blank \in Reason
      BY <2>1, <2>3 DEF ReasonBefore, Reason, GuideInput
    <3> QED BY <2>7, <3>1
  <2> HIDE DEF reason
  <2>9. /\ saved \in GuideInput
        /\ saved.city = sent.city /\ saved.guide = sent.guide /\ saved.price = sent.price
        /\ saved.reference = ref /\ saved.reason = reason
    BY <2>1, <2>2, <2>4, <2>8 DEF GuideInput
  <2>10. Accounted(saved)
    BY <2>7, <2>9 DEF Accounted
  <2> QED BY <1>3, <2>5, <2>9, <2>10 DEF sent, was, ref, reason
<1> QED BY <1>2, <1>3

\* The sum of the segments of a vehicle plan is a price.
LEMMA SegmentCents ==
  ASSUME NEW ranges \in Seq(ArrangementInput)
  PROVE  SegmentTotal(ranges) \in Cents
<1> DEFINE f == [r \in DOMAIN ranges |-> ranges[r].total]
<1>1. CASE \E r \in DOMAIN ranges : ranges[r].total = NoPrice
  BY <1>1 DEF SegmentTotal, Cents
<1>2. CASE \A r \in DOMAIN ranges : ranges[r].total # NoPrice
  <2>1. f \in [DOMAIN ranges -> Nat]
    <3>1. \A r \in DOMAIN ranges : ranges[r] \in ArrangementInput
      BY ElementOfSeq, LenProperties
    <3> QED BY <1>2, <3>1 DEF ArrangementInput, Cents
  <2>2. IsFiniteSet(DOMAIN ranges)
    BY LenProperties, FS_Interval
  <2> HIDE DEF f
  <2>3. SumFunction(f) \in Nat
    BY <2>1, <2>2, SumOfCosts
  <2> QED BY <1>2, <2>3 DEF SegmentTotal, Cents, f
<1> QED BY <1>1, <1>2

\* The pricing mode of a saved vehicle plan is known.
LEMMA ModeKnown ==
  ASSUME NEW new, ItineraryInput(new), NEW old, old = Nothing \/ Settled(old),
         NEW t \in VehicleTiers
  PROVE  Mode(new, old, t) \in Modes
<1>1. new.vehicles[t].mode \in Modes \cup {NoMode}
  BY InputFields DEF VehiclePlanInput
<1>2. OldGroup(old, t).mode \in Modes \cup {NoMode}
  <2>1. CASE old = Nothing
    BY <2>1 DEF OldGroup, NoGroup
  <2>2. CASE old # Nothing
    BY <2>2, SettledGroup DEF OldGroup
  <2> QED BY <2>1, <2>2
<1>3. "automatic" \in Modes /\ "manual" \in Modes
  BY DEF Modes
<1> QED BY <1>1, <1>2, <1>3 DEF Mode

\* A vehicle plan is saved with the sum of its segments, and in automatic mode with no
\* other price.
LEMMA GroupSavedType ==
  ASSUME NEW new, ItineraryInput(new), NEW old, old = Nothing \/ Settled(old),
         NEW t \in VehicleTiers, GroupOk(new, old, t)
  PROVE  LET saved == GroupSaved(new, old, t)
             sent == new.vehicles[t]
             was == OldGroup(old, t)
         IN  /\ saved \in VehiclePlanInput
             /\ saved.ranges = sent.ranges
             /\ saved.mode = Mode(new, old, t)
             /\ saved.segment = SegmentTotal(sent.ranges)
             /\ saved.mode = "automatic" =>
                  /\ saved.total = saved.segment /\ saved.reason = Blank
                  /\ saved.ranges # <<>> => saved.segment # NoPrice
             /\ saved.ranges = <<>> => saved.total = NoPrice
             /\ saved.mode # "automatic" /\ saved.total # NoPrice /\ was.total # NoPrice =>
                  /\ saved.reason = ReasonKept(saved.total, was.total, saved.segment, TRUE,
                                               sent.reason, was.reason)
                  /\ ReasonGiven(saved.total, was.total, saved.segment, TRUE, sent.reason)
<1> DEFINE saved == GroupSaved(new, old, t)
           sent == new.vehicles[t]
           was == OldGroup(old, t)
           segment == SegmentTotal(sent.ranges)
           mode == Mode(new, old, t)
           total == IF mode = "automatic" THEN segment ELSE GroupTotalSent(sent)
           reason == CASE mode = "automatic" -> Blank
                       [] mode # "automatic" /\ total = NoPrice -> sent.reason
                       [] mode # "automatic" /\ total # NoPrice /\ was.total = NoPrice -> Blank
                       [] mode # "automatic" /\ total # NoPrice /\ was.total # NoPrice ->
                            ReasonKept(total, was.total, segment, TRUE, sent.reason, was.reason)
<1>1. sent \in VehiclePlanInput
  BY InputFields
<1>2. was.reason \in Reason
  <2>1. CASE old = Nothing
    BY <2>1 DEF OldGroup, NoGroup, Reason
  <2>2. CASE old # Nothing
    BY <2>2, SettledGroup DEF OldGroup
  <2> QED BY <2>1, <2>2
<1>3. saved = [sent EXCEPT !.mode = mode, !.segment = segment, !.total = total,
                           !.reason = reason]
  BY DEF GroupSaved
<1>4. reason \in Reason
  <2>1. sent.reason \in Reason /\ Blank \in Reason
    BY <1>1 DEF VehiclePlanInput, Reason
  <2>2. ReasonKept(total, was.total, segment, TRUE, sent.reason, was.reason)
          \in {Blank, sent.reason, was.reason}
    BY DEF ReasonKept
  <2> HIDE DEF total, mode, segment
  <2>3. CASE mode = "automatic"
    BY <2>1, <2>3
  <2>4. CASE mode # "automatic" /\ total = NoPrice
    BY <2>1, <2>4
  <2>5. CASE mode # "automatic" /\ total # NoPrice /\ was.total = NoPrice
    BY <2>1, <2>5
  <2>6. CASE mode # "automatic" /\ total # NoPrice /\ was.total # NoPrice
    <3>1. reason = ReasonKept(total, was.total, segment, TRUE, sent.reason, was.reason)
      BY <2>6
    <3> QED BY <1>2, <2>1, <2>2, <3>1
  <2> QED BY <2>3, <2>4, <2>5, <2>6
<1>5. mode \in Modes /\ segment \in Cents /\ total \in Cents
  <2>1. sent.ranges \in Seq(ArrangementInput) /\ sent.total \in Cents
    BY <1>1 DEF VehiclePlanInput
  <2>2. segment \in Cents
    BY <2>1, SegmentCents
  <2> QED BY <2>1, <2>2, ModeKnown DEF GroupTotalSent, Cents
<1>6. mode = "automatic" => reason = Blank /\ total = segment
  BY DEF ReasonKept
<1>7. mode # "automatic" /\ total # NoPrice /\ was.total # NoPrice
      => reason = ReasonKept(total, was.total, segment, TRUE, sent.reason, was.reason)
  <2> HIDE DEF total, mode, segment
  <2> QED OBVIOUS
<1>8. sent.ranges = <<>> => total = NoPrice
  BY DEF GroupTotalSent, SegmentTotal
<1> HIDE DEF mode, segment, total, reason, sent, was
<1>9. /\ saved.ranges = sent.ranges /\ saved.mode = mode /\ saved.segment = segment
      /\ saved.total = total /\ saved.reason = reason
      /\ saved \in VehiclePlanInput
  BY <1>1, <1>3, <1>4, <1>5 DEF VehiclePlanInput
<1>10. /\ saved.mode = "automatic" /\ saved.ranges # <<>> => saved.segment # NoPrice
       /\ saved.mode # "automatic" /\ was.total # NoPrice
          => ReasonGiven(saved.total, was.total, saved.segment, TRUE, sent.reason)
  BY DEF GroupOk, sent, was
<1> HIDE DEF saved
<1>11. saved = GroupSaved(new, old, t) /\ mode = Mode(new, old, t)
       /\ segment = SegmentTotal(sent.ranges) /\ sent = new.vehicles[t]
       /\ was = OldGroup(old, t)
  BY DEF saved, mode, segment, sent, was
<1> QED BY <1>6, <1>7, <1>8, <1>9, <1>10, <1>11

\* The days are saved as sent, but for the departure and the breakfast.
LEMMA DaysSavedType ==
  ASSUME NEW new, ItineraryInput(new), NEW old
  PROVE  LET saved == DaysSaved(new, old)
         IN  /\ saved \in Seq(DayInput) /\ Len(saved) = Len(new.days)
             /\ DOMAIN saved = DOMAIN new.days /\ DOMAIN saved = 1 .. Len(new.days)
             /\ \A i \in DOMAIN saved :
                   /\ saved[i].id = new.days[i].id
                   /\ saved[i].overnight = new.days[i].overnight
                   /\ saved[i].meals = new.days[i].meals
                   /\ saved[i].departure = Departure(new, old, i)
                   /\ saved[i].breakfast = Breakfast(new, i)
<1> DEFINE saved == DaysSaved(new, old)
           n == Len(new.days)
<1>1. new.days \in Seq(DayInput) /\ n \in Nat /\ DOMAIN new.days = 1 .. n
  BY InputFields, LenProperties
<1>2. saved = [i \in 1 .. n |->
                 [new.days[i] EXCEPT !.departure = Departure(new, old, i),
                                     !.breakfast = Breakfast(new, i)]]
  BY <1>1 DEF DaysSaved
<1>3. ASSUME NEW i \in 1 .. n
      PROVE  /\ saved[i] \in DayInput
             /\ saved[i].id = new.days[i].id
             /\ saved[i].overnight = new.days[i].overnight
             /\ saved[i].meals = new.days[i].meals
             /\ saved[i].departure = Departure(new, old, i)
             /\ saved[i].breakfast = Breakfast(new, i)
  <2>1. new.days[i] \in DayInput
    BY <1>1, ElementOfSeq
  <2>2. Departure(new, old, i) \in Cities \cup {NoCity}
    <3>1. new.days[i].departure \in Cities \cup {NoCity}
      BY <2>1 DEF DayInput
    <3>2. i > 1 => new.days[i - 1].overnight \in Cities \cup {NoCity, Unset}
      <4>1. i > 1 => i - 1 \in 1 .. n
        BY <1>1
      <4>2. i > 1 => new.days[i - 1] \in DayInput
        BY <1>1, <4>1, ElementOfSeq
      <4> QED BY <4>2 DEF DayInput
    <3> QED BY <3>1, <3>2 DEF Departure
  <2>3. Breakfast(new, i) \in BOOLEAN
    BY DEF Breakfast
  <2>4. saved[i] = [new.days[i] EXCEPT !.departure = Departure(new, old, i),
                                       !.breakfast = Breakfast(new, i)]
    BY <1>2
  <2> QED BY <2>1, <2>2, <2>3, <2>4 DEF DayInput
<1>4. saved = [i \in 1 .. n |-> saved[i]]
  BY <1>2
<1> HIDE DEF saved
<1>5. saved \in [1 .. n -> DayInput]
  BY <1>3, <1>4
<1>6. saved \in Seq(DayInput) /\ Len(saved) = n /\ DOMAIN saved = 1 .. n
  BY <1>1, <1>5
<1> QED BY <1>1, <1>3, <1>6 DEF saved

\* The costs of the quote are filled in for the plan's sizes of group and cities; filling
\* them in again changes nothing.
LEMMA FilledAgain ==
  ASSUME NEW costs, costs \in Costs(costs), NEW keys
  PROVE  /\ Filled(costs, keys) \in Costs(Filled(costs, keys))
         /\ DOMAIN Filled(costs, keys) = keys
         /\ Filled(Filled(costs, keys), keys) = Filled(costs, keys)
BY DEF Costs, Filled, Cents

\* The quote of a saved plan is complete: for its sizes of group, its cities, and the
\* options that its hotels and vehicles offer.
LEMMA QuoteSettled ==
  ASSUME NEW new, ItineraryInput(new), QuoteOk(new), NEW saved,
         saved.destinations = new.destinations, saved.pax = new.pax,
         saved.quote = QuoteSaved(new),
         OfferedTiers(saved) = OfferedTiers(new),
         UsedVehicleTiers(saved) = UsedVehicleTiers(new)
  PROVE  /\ saved.quote \in QuoteInput(saved.quote)
         /\ \A o \in DOMAIN saved.quote.options :
               saved.quote.options[o] \in Costs(saved.quote.options[o])
         /\ QuoteOk(saved)
         /\ QuoteSaved(saved) = saved.quote
<1> DEFINE pax == Filled(new.quote.paxOther, new.pax)
           rooms == Filled(new.quote.rooms, new.destinations)
           options == OptionsSaved(new)
<1>1. new.quote \in QuoteInput(new.quote)
  BY InputFields
<1>2. new.quote.paxOther \in Costs(new.quote.paxOther)
      /\ new.quote.rooms \in Costs(new.quote.rooms)
  BY <1>1 DEF QuoteInput
<1>3. /\ pax \in Costs(pax) /\ DOMAIN pax = new.pax /\ Filled(pax, new.pax) = pax
      /\ rooms \in Costs(rooms) /\ DOMAIN rooms = new.destinations
      /\ Filled(rooms, new.destinations) = rooms
  BY <1>2, FilledAgain
<1>4. saved.quote = [new.quote EXCEPT !.paxOther = pax, !.rooms = rooms,
                                      !.options = options]
  BY DEF QuoteSaved
<1>5. \A o \in OfferedTiers(new) \X UsedVehicleTiers(new) : DOMAIN options[o] = new.pax
  BY DEF OptionsSaved
<1>6. DOMAIN options = OfferedTiers(new) \X UsedVehicleTiers(new)
  BY DEF OptionsSaved
<1>7. OptionsSaved(saved) =
        [o \in OfferedTiers(new) \X UsedVehicleTiers(new) |->
            [p \in new.pax |->
                IF o \in DOMAIN saved.quote.options /\ p \in DOMAIN saved.quote.options[o]
                THEN saved.quote.options[o][p] ELSE NoPrice]]
  BY DEF OptionsSaved
<1>8. options = [o \in OfferedTiers(new) \X UsedVehicleTiers(new) |->
                   [p \in new.pax |-> options[o][p]]]
  BY DEF OptionsSaved
<1>15. \A o \in DOMAIN options : options[o] \in Costs(options[o])
  <2>1. ASSUME NEW o \in OfferedTiers(new) \X UsedVehicleTiers(new), NEW p \in new.pax
        PROVE  options[o][p] \in Cents
    <3>1. options[o][p] = IF o \in DOMAIN new.quote.options /\ p \in DOMAIN new.quote.options[o]
                          THEN new.quote.options[o][p] ELSE NoPrice
      BY DEF OptionsSaved
    <3>2. o \in DOMAIN new.quote.options =>
             new.quote.options[o] \in [DOMAIN new.quote.options[o] -> Cents]
      BY DEF ItineraryInput, Costs
    <3>3. NoPrice \in Cents
      BY DEF Cents
    <3> HIDE DEF options
    <3> QED BY <3>1, <3>2, <3>3
  <2> HIDE DEF options
  <2> QED BY <1>5, <1>6, <1>8, <2>1 DEF Costs
<1> HIDE DEF pax, rooms, options
<1>9. /\ saved.quote.paxOther = pax /\ saved.quote.rooms = rooms
      /\ saved.quote.options = options
      /\ saved.quote.other = new.quote.other
      /\ saved.quote.otherReason = new.quote.otherReason
      /\ saved.quote.tip = new.quote.tip
      /\ saved.quote = [other |-> new.quote.other, otherReason |-> new.quote.otherReason,
                        paxOther |-> pax, rooms |-> rooms, options |-> options,
                        tip |-> new.quote.tip]
  BY <1>1, <1>4 DEF QuoteInput
<1>10. saved.quote \in QuoteInput(saved.quote)
  BY <1>1, <1>3, <1>9 DEF QuoteInput
<1>11. QuoteOk(saved)
  <2>1. KnownPrice(new.quote.other) > 0 => new.quote.otherReason # Blank
    BY DEF QuoteOk
  <2> QED BY <2>1, <1>3, <1>5, <1>6, <1>9 DEF QuoteOk
<1>12. OptionsSaved(saved) = options
  BY <1>5, <1>6, <1>7, <1>8, <1>9
<1>13. QuoteSaved(saved) = [saved.quote EXCEPT !.paxOther = pax, !.rooms = rooms,
                                               !.options = options]
  BY <1>3, <1>9, <1>12 DEF QuoteSaved
<1>14. QuoteSaved(saved) = saved.quote
  BY <1>9, <1>13
<1> QED BY <1>9, <1>10, <1>11, <1>14, <1>15

\* The days of a plan are its active days and then its deleted days.
LEMMA AllDaysOf ==
  ASSUME NEW data, data.days \in Seq(DayInput), data.deleted \in Seq(DayInput)
  PROVE  /\ AllDays(data) \in Seq(DayInput)
         /\ Len(AllDays(data)) = Len(data.days) + Len(data.deleted)
         /\ \A i \in 1 .. Len(data.days) + Len(data.deleted) :
               AllDays(data)[i] = IF i <= Len(data.days) THEN data.days[i]
                                  ELSE data.deleted[i - Len(data.days)]
<1> DEFINE days == data.days
           deleted == data.deleted
<1> HIDE DEF days, deleted
<1>1. days \in Seq(DayInput) /\ deleted \in Seq(DayInput) /\ AllDays(data) = days \o deleted
  BY DEF days, deleted, AllDays
<1>2. /\ days \o deleted \in Seq(DayInput)
      /\ Len(days \o deleted) = Len(days) + Len(deleted)
      /\ \A i \in 1 .. Len(days) + Len(deleted) :
            (days \o deleted)[i] = IF i <= Len(days) THEN days[i] ELSE deleted[i - Len(days)]
  BY <1>1, ConcatProperties
<1> QED BY <1>1, <1>2 DEF days, deleted

\* An acceptable document, normalised, is a settled plan.
LEMMA SaveSettles ==
  ASSUME CatalogueType, NEW new, ItineraryInput(new), NEW old,
         old = Nothing \/ Settled(old), Acceptable(new, old)
  PROVE  Settled(Normalized(new, old))
<1> DEFINE saved == Normalized(new, old)
<1>1. /\ saved = [destinations |-> new.destinations, days |-> DaysSaved(new, old),
                  deleted |-> new.deleted, items |-> ItemsSaved(new, old),
                  hotels |-> HotelsSaved(new, old),
                  vehicles |-> [t \in VehicleTiers |-> GroupSaved(new, old, t)],
                  guide |-> GuideSaved(new, old), pax |-> new.pax, quote |-> QuoteSaved(new)]
  BY InputFields, NormalizedFields
<1> HIDE DEF saved
<1>2. /\ saved.destinations = new.destinations /\ saved.days = DaysSaved(new, old)
      /\ saved.deleted = new.deleted /\ saved.items = ItemsSaved(new, old)
      /\ saved.hotels = HotelsSaved(new, old)
      /\ saved.vehicles = [t \in VehicleTiers |-> GroupSaved(new, old, t)]
      /\ saved.guide = GuideSaved(new, old) /\ saved.pax = new.pax
      /\ saved.quote = QuoteSaved(new)
  BY <1>1
<1>3. /\ DaysOk(new) /\ ItemsOk(new, old) /\ HotelsOk(new, old) /\ GuideOk(new, old)
      /\ \A t \in VehicleTiers : GroupOk(new, old, t)
      /\ QuoteOk(new)
  BY DEF Acceptable
<1>4. /\ saved.days \in Seq(DayInput) /\ Len(saved.days) = Len(new.days)
      /\ DOMAIN saved.days = DOMAIN new.days /\ DOMAIN saved.days = 1 .. Len(new.days)
      /\ \A i \in DOMAIN saved.days :
            /\ saved.days[i].id = new.days[i].id
            /\ saved.days[i].overnight = new.days[i].overnight
            /\ saved.days[i].meals = new.days[i].meals
            /\ saved.days[i].departure = Departure(new, old, i)
            /\ saved.days[i].breakfast = Breakfast(new, i)
  BY <1>2, DaysSavedType
<1>5. /\ saved.items \in [ItemNames -> ItemInput \cup {Nothing}]
      /\ Known(saved.items) = Known(new.items)
      /\ \A m \in Known(saved.items) :
            /\ saved.items[m].day = new.items[m].day
            /\ saved.items[m].resource = new.items[m].resource
            /\ saved.items[m].slot = new.items[m].slot
            /\ new.items[m].resource = CustomMeal => saved.items[m].reference = NoPrice
            /\ Accounted(saved.items[m])
  <2> DEFINE items == ItemsSaved(new, old)
  <2>1. /\ items \in [ItemNames -> ItemInput \cup {Nothing}]
        /\ Known(items) = Known(new.items)
        /\ \A m \in Known(items) :
              /\ items[m].day = new.items[m].day
              /\ items[m].resource = new.items[m].resource
              /\ items[m].slot = new.items[m].slot
              /\ new.items[m].resource = CustomMeal => items[m].reference = NoPrice
              /\ Accounted(items[m])
    <3>1. ItemsOk(new, old)
      BY <1>3
    <3>2. items \in [ItemNames -> ItemInput \cup {Nothing}]
          /\ Known(items) = Known(new.items)
      BY <3>1, ItemsSavedType
    <3>3. ASSUME NEW m \in Known(items)
          PROVE  /\ items[m].day = new.items[m].day
                 /\ items[m].resource = new.items[m].resource
                 /\ items[m].slot = new.items[m].slot
                 /\ new.items[m].resource = CustomMeal => items[m].reference = NoPrice
                 /\ Accounted(items[m])
      <4>1. m \in Known(new.items)
        BY <3>2
      <4>2. /\ items[m].day = new.items[m].day
        BY <3>1, <4>1, ItemSaved, ZenonT(60)
      <4>3. /\ items[m].resource = new.items[m].resource
            /\ items[m].slot = new.items[m].slot
        BY <3>1, <4>1, ItemSaved, ZenonT(60)
      <4>4. new.items[m].resource = CustomMeal => items[m].reference = NoPrice
        BY <3>1, <4>1, ItemSaved, ZenonT(60)
      <4>5. Accounted(items[m])
        BY <3>1, <4>1, ItemSaved
      <4> QED BY <4>2, <4>3, <4>4, <4>5
    <3> QED BY <3>2, <3>3
  <2> HIDE DEF items
  <2>2. saved.items = items
    BY <1>2 DEF items
  <2> QED BY <2>1, <2>2
<1>6. /\ saved.hotels \in [HotelTiers \X Cities -> HotelInput \cup {Nothing}]
      /\ Known(saved.hotels) = Known(new.hotels)
      /\ \A k \in Known(saved.hotels) : Accounted(saved.hotels[k])
  <2> DEFINE hotels == HotelsSaved(new, old)
  <2>1. /\ hotels \in [HotelTiers \X Cities -> HotelInput \cup {Nothing}]
        /\ Known(hotels) = Known(new.hotels)
        /\ \A k \in Known(hotels) : Accounted(hotels[k])
    BY <1>3, HotelsSavedType
  <2> HIDE DEF hotels
  <2>2. saved.hotels = hotels
    BY <1>2 DEF hotels
  <2> QED BY <2>1, <2>2
<1>7. /\ saved.guide \in GuideInput \cup {Nothing}
      /\ saved.guide # Nothing => saved.guide.city \in new.destinations
                                  /\ Accounted(saved.guide)
  <2> DEFINE guide == GuideSaved(new, old)
  <2>1. /\ guide \in GuideInput \cup {Nothing}
        /\ guide # Nothing => guide.city \in new.destinations /\ Accounted(guide)
    BY <1>3, GuideSavedType
  <2> HIDE DEF guide
  <2>2. saved.guide = guide
    BY <1>2 DEF guide
  <2> QED BY <2>1, <2>2
<1>8. OfferedTiers(saved) = OfferedTiers(new)
      /\ \A t \in HotelTiers, c \in Cities :
            saved.hotels[<<t, c>>] # Nothing <=> new.hotels[<<t, c>>] # Nothing
  <2>1. DOMAIN new.hotels = HotelTiers \X Cities /\ DOMAIN saved.hotels = HotelTiers \X Cities
    BY <1>6, InputFields
  <2>2. \A t \in HotelTiers, c \in Cities :
            saved.hotels[<<t, c>>] # Nothing <=> new.hotels[<<t, c>>] # Nothing
    BY <1>6, <2>1 DEF Known
  <2> QED BY <2>2 DEF OfferedTiers
<1>9. ASSUME NEW t \in VehicleTiers
      PROVE  /\ saved.vehicles[t].ranges = new.vehicles[t].ranges /\ GroupSettled(saved, t)
             /\ saved.vehicles[t] \in VehiclePlanInput
  <2> DEFINE group == GroupSaved(new, old, t)
  <2>1. saved.vehicles[t] = group
    BY <1>2
  <2>2. /\ group \in VehiclePlanInput
        /\ group.ranges = new.vehicles[t].ranges
        /\ group.mode = Mode(new, old, t)
        /\ group.segment = SegmentTotal(new.vehicles[t].ranges)
        /\ group.mode = "automatic" =>
             /\ group.total = group.segment /\ group.reason = Blank
             /\ group.ranges # <<>> => group.segment # NoPrice
        /\ group.ranges = <<>> => group.total = NoPrice
    BY <1>3, GroupSavedType, ZenonT(60)
  <2>3. group.mode # NoMode
    BY <2>2, ModeKnown, NoModeAssumption
  <2> HIDE DEF group
  <2>4. RangesOk(saved, t)
    <3>1. RangesOk(new, t)
      BY <1>3 DEF GroupOk
    <3>2. saved.vehicles[t].ranges = new.vehicles[t].ranges
      BY <2>1, <2>2
    <3> QED BY <3>1, <3>2, <1>2, <1>4 DEF RangesOk
  <2> QED BY <2>1, <2>2, <2>3, <2>4 DEF GroupSettled
<1>10. UsedVehicleTiers(saved) = UsedVehicleTiers(new)
  BY <1>9 DEF UsedVehicleTiers
<1>11. /\ saved.quote \in QuoteInput(saved.quote) /\ QuoteOk(saved)
       /\ \A o \in DOMAIN saved.quote.options :
             saved.quote.options[o] \in Costs(saved.quote.options[o])
       /\ QuoteSaved(saved) = saved.quote
  BY <1>2, <1>3, <1>8, <1>10, QuoteSettled
<1>12. ItineraryInput(saved)
  <2>1. saved.vehicles \in [VehicleTiers -> VehiclePlanInput]
    BY <1>2, <1>9
  <2>2. /\ saved.destinations \in (SUBSET Cities) \ {{}} /\ saved.deleted \in Seq(DayInput)
        /\ saved.pax \in (SUBSET GroupSizes) \ {{}}
    BY <1>2, InputFields
  <2>6. saved.days \in Seq(DayInput) \ {<<>>}
    <3>1. new.days # <<>> /\ new.days \in Seq(DayInput)
      BY InputFields
    <3>2. Len(new.days) # 0
      BY <3>1
    <3> QED BY <1>4, <3>2
  <2>3. saved = [destinations |-> saved.destinations, days |-> saved.days,
                 deleted |-> saved.deleted, items |-> saved.items, hotels |-> saved.hotels,
                 vehicles |-> saved.vehicles, guide |-> saved.guide, pax |-> saved.pax,
                 quote |-> saved.quote]
    BY <1>1, <1>2
  <2> DEFINE Q == QuoteInput(saved.quote)
  <2>4. saved.quote \in Q
    BY <1>11
  <2> HIDE DEF Q
  <2>5. saved \in PlanOf(Q)
    BY <1>5, <1>6, <1>7, <2>1, <2>2, <2>3, <2>4, <2>6 DEF PlanOf
  <2> QED BY <1>11, <2>5 DEF Q, ItineraryInput
<1>13. \A id, s : MealsAt(saved, id, s) = MealsAt(new, id, s)
  BY <1>5 DEF MealsAt
<1>14. DaysOk(saved)
  <2>1. /\ DOMAIN AllDays(saved) = DOMAIN AllDays(new)
        /\ \A i \in DOMAIN AllDays(saved) : AllDays(saved)[i].id = AllDays(new)[i].id
    <3>1. /\ new.days \in Seq(DayInput) /\ new.deleted \in Seq(DayInput)
          /\ saved.days \in Seq(DayInput) /\ saved.deleted = new.deleted
      BY <1>2, <1>4, InputFields
    <3>2. /\ Len(new.days) \in Nat /\ Len(new.deleted) \in Nat
          /\ DOMAIN new.days = 1 .. Len(new.days)
      BY <3>1, LenProperties
    <3>3. /\ AllDays(new) \in Seq(DayInput) /\ AllDays(saved) \in Seq(DayInput)
          /\ Len(AllDays(new)) = Len(new.days) + Len(new.deleted)
          /\ Len(AllDays(saved)) = Len(new.days) + Len(new.deleted)
          /\ \A i \in 1 .. Len(new.days) + Len(new.deleted) :
                /\ AllDays(new)[i] = IF i <= Len(new.days) THEN new.days[i]
                                     ELSE new.deleted[i - Len(new.days)]
                /\ AllDays(saved)[i] = IF i <= Len(new.days) THEN saved.days[i]
                                       ELSE new.deleted[i - Len(new.days)]
      <4>1. /\ AllDays(new) \in Seq(DayInput)
            /\ Len(AllDays(new)) = Len(new.days) + Len(new.deleted)
            /\ \A i \in 1 .. Len(new.days) + Len(new.deleted) :
                  AllDays(new)[i] = IF i <= Len(new.days) THEN new.days[i]
                                    ELSE new.deleted[i - Len(new.days)]
        BY <3>1, AllDaysOf
      <4>2. saved.deleted \in Seq(DayInput) /\ saved.days \in Seq(DayInput)
            /\ saved.deleted = new.deleted /\ Len(saved.days) = Len(new.days)
        BY <1>2, <1>4, <3>1
      <4>3. /\ AllDays(saved) \in Seq(DayInput)
            /\ Len(AllDays(saved)) = Len(saved.days) + Len(saved.deleted)
            /\ \A i \in 1 .. Len(saved.days) + Len(saved.deleted) :
                  AllDays(saved)[i] = IF i <= Len(saved.days) THEN saved.days[i]
                                      ELSE saved.deleted[i - Len(saved.days)]
        BY <4>2, AllDaysOf
      <4> QED BY <4>1, <4>2, <4>3
    <3>4. /\ DOMAIN AllDays(new) = 1 .. Len(new.days) + Len(new.deleted)
          /\ DOMAIN AllDays(saved) = 1 .. Len(new.days) + Len(new.deleted)
      BY <3>3, LenProperties
    <3>5. \A i \in 1 .. Len(new.days) + Len(new.deleted) :
             i <= Len(new.days) => i \in DOMAIN saved.days
      BY <1>4, <3>2
    <3> QED BY <1>4, <3>3, <3>4, <3>5
  <2>2. ASSUME NEW i \in DOMAIN saved.days
        PROVE  /\ saved.days[i].overnight \in saved.destinations \cup {NoCity, Unset}
               /\ \A s \in MealSlots :
                     /\ Cardinality(MealsAt(saved, saved.days[i].id, s)) <= 1
                     /\ MealsAt(saved, saved.days[i].id, s) # {} => s \in saved.days[i].meals
    <3>1. i \in DOMAIN new.days
      BY <1>4
    <3>2. /\ new.days[i].overnight \in new.destinations \cup {NoCity, Unset}
          /\ \A s \in MealSlots :
                /\ Cardinality(MealsAt(new, new.days[i].id, s)) <= 1
                /\ MealsAt(new, new.days[i].id, s) # {} => s \in new.days[i].meals
      BY <1>3, <3>1 DEF DaysOk
    <3>3. /\ saved.days[i].id = new.days[i].id
          /\ saved.days[i].overnight = new.days[i].overnight
          /\ saved.days[i].meals = new.days[i].meals
          /\ saved.destinations = new.destinations
      BY <1>2, <1>4
    <3>4. \A s \in MealSlots : MealsAt(saved, saved.days[i].id, s)
                                 = MealsAt(new, new.days[i].id, s)
      BY <1>13, <3>3
    <3> QED BY <3>2, <3>3, <3>4
  <2>3. \A i, j \in DOMAIN AllDays(saved) :
           i # j => AllDays(saved)[i].id # AllDays(saved)[j].id
    BY <1>3, <2>1 DEF DaysOk
  <2> QED BY <2>2, <2>3 DEF DaysOk
<1>15. DaysSettled(saved)
  <2>1. ASSUME NEW i \in DOMAIN saved.days PROVE saved.days[i].breakfast = Breakfast(saved, i)
    <3>1. saved.days[i].breakfast = Breakfast(new, i)
      BY <1>4
    <3>2. i > 1 => i - 1 \in DOMAIN saved.days
      BY <1>4
    <3>3. i > 1 => saved.days[i - 1].overnight = new.days[i - 1].overnight
      BY <1>4, <3>2
    <3>4. \A t \in OfferedTiers(new) : t \in HotelTiers
      BY DEF OfferedTiers
    <3>5. Breakfast(saved, i) = Breakfast(new, i)
      BY <1>8, <3>3, <3>4 DEF Breakfast
    <3> QED BY <3>1, <3>5
  <2>2. ASSUME NEW i \in DOMAIN saved.days, i > 1, saved.days[i].departure = NoCity
        PROVE  saved.days[i - 1].overnight \in {NoCity, Unset}
    <3>1. Departure(new, old, i) = NoCity
      BY <1>4, <2>2
    <3>2. saved.days[i - 1].overnight = new.days[i - 1].overnight
      <4>1. i - 1 \in DOMAIN saved.days
        BY <1>4, <2>2
      <4> QED BY <1>4, <4>1
    <3> QED BY <2>2, <3>1, <3>2 DEF Departure
  <2> QED BY <1>14, <2>1, <2>2 DEF DaysSettled
<1>16. ItemsSettled(saved)
  <2>1. DayIds(saved.days) = DayIds(new.days)
    BY <1>4 DEF DayIds
  <2>2. ActiveItems(saved) = ActiveItems(new)
    BY <1>5, <2>1 DEF ActiveItems
  <2>3. NoRepeatedResource(saved)
    <3>1. \A m \in ActiveItems(saved) : saved.items[m].resource = new.items[m].resource
      BY <1>5 DEF ActiveItems
    <3> QED BY <1>3, <2>2, <3>1 DEF ItemsOk, NoRepeatedResource
  <2>4. \A m \in Known(new.items) : (new.items[m].slot # Nothing)
                                      = (new.items[m].resource \notin Attractions)
    BY <1>3 DEF ItemsOk
  <2> QED BY <1>5, <2>3, <2>4 DEF ItemsSettled
<1>17. HotelsSettled(saved)
  BY <1>2, <1>3, <1>6 DEF HotelsSettled, HotelsOk
<1>18. GuideSettled(saved)
  BY <1>2, <1>7 DEF GuideSettled
<1>19. Settled(saved)
  BY <1>9, <1>11, <1>12, <1>15, <1>16, <1>17, <1>18 DEF Settled
<1> QED BY <1>19 DEF saved

-----------------------------------------------------------------------------
(* A settled plan is acceptable and its own normal form.                   *)

\* A day of a settled plan keeps its departure: the night before it is the one that the
\* plan has, since no two days share an id.
LEMMA DepartureStands ==
  ASSUME NEW data, data # Nothing, Settled(data), NEW i \in DOMAIN data.days
  PROVE  Departure(data, data, i) = data.days[i].departure
<1> DEFINE all == AllDays(data)
           day == data.days[i]
           before == OldNightBefore(data, day.id)
           night == data.days[i - 1].overnight
<1>1. /\ data.days \in Seq(DayInput) /\ data.deleted \in Seq(DayInput)
      /\ DOMAIN data.days = 1 .. Len(data.days)
      /\ Len(data.days) \in Nat /\ Len(data.deleted) \in Nat
  BY SettledFields, LenProperties
<1>2. DaysSettled(data) /\ DaysOk(data)
  BY DEF Settled, DaysSettled
<1>3. CASE ~(i > 1)
  BY <1>3 DEF Departure
<1>4. CASE i > 1 /\ day.departure = NoCity
  <2>1. night \in {NoCity, Unset}
    BY <1>2, <1>4 DEF DaysSettled
  <2> QED BY <1>4, <2>1 DEF Departure
<1>5. CASE i > 1 /\ day.departure # NoCity
  <2>1. before = night
    <3>1. OldDays(data) = all
      BY DEF OldDays
    <3>2. /\ all \in Seq(DayInput)
          /\ Len(all) = Len(data.days) + Len(data.deleted)
          /\ \A k \in 1 .. Len(data.days) + Len(data.deleted) :
                all[k] = IF k <= Len(data.days) THEN data.days[k]
                         ELSE data.deleted[k - Len(data.days)]
      BY <1>1, AllDaysOf
    <3>3. DOMAIN all = 1 .. Len(all) /\ Len(all) \in Nat
      BY <3>2, LenProperties
    <3> HIDE DEF all
    <3>4. /\ i \in 2 .. Len(all) /\ i - 1 \in 1 .. Len(all)
          /\ all[i] = day /\ all[i - 1] = data.days[i - 1]
      <4> DEFINE n == Len(data.days)
                 m == Len(data.deleted)
      <4>1. i \in 1 .. n /\ n \in Nat /\ m \in Nat /\ i > 1
        BY <1>1, <1>5
      <4>2. Len(all) = n + m
        BY <3>2
      <4>3. \A k \in 1 .. n + m : k <= n => all[k] = data.days[k]
        BY <3>2
      <4> HIDE DEF n, m
      <4>4. /\ i \in 1 .. n + m /\ i <= n
            /\ i - 1 \in 1 .. n + m /\ i - 1 <= n
            /\ i \in 2 .. n + m
        BY <4>1
      <4> QED BY <4>2, <4>3, <4>4
    <3>5. \A k \in 2 .. Len(all) : all[k].id = day.id => k = i
      <4>1. \A k, j \in DOMAIN all : k # j => all[k].id # all[j].id
        BY <1>2 DEF DaysOk, all
      <4>2. i \in DOMAIN all /\ \A k \in 2 .. Len(all) : k \in DOMAIN all
        <5>1. i \in 1 .. Len(all)
          BY <3>3, <3>4
        <5>2. \A k \in 2 .. Len(all) : k \in 1 .. Len(all)
          BY <3>3
        <5> QED BY <3>3, <5>1, <5>2
      <4> QED BY <3>4, <4>1, <4>2
    <3> DEFINE places == {k \in 2 .. Len(all) : all[k].id = day.id}
    <3>6. places = {i}
      BY <3>4, <3>5
    <3>7. Min(places) = i
      <4>1. i \in Int
        BY <3>4
      <4>2. \A x : x \in {i} /\ (\A y \in {i} : x =< y) <=> x = i
        BY <4>1
      <4> HIDE DEF places
      <4>3. Min({i}) = i
        BY <4>2 DEF Min
      <4> QED BY <3>6, <4>3
    <3>8. before = IF places = {} THEN NoCity ELSE all[Min(places) - 1].overnight
      BY <3>1 DEF OldNightBefore
    <3> HIDE DEF places
    <3> QED BY <3>4, <3>6, <3>7, <3>8
  <2>2. CASE before \notin {NoCity, Unset} /\ day.departure = before
    <3> HIDE DEF before, night
    <3>1. Departure(data, data, i) = IF night = Unset THEN NoCity ELSE night
      BY <1>5, <2>2 DEF Departure, before, night
    <3> QED BY <2>1, <2>2, <3>1
  <2>3. CASE ~(before \notin {NoCity, Unset} /\ day.departure = before)
    BY <1>5, <2>3 DEF Departure
  <2> QED BY <2>2, <2>3
<1> QED BY <1>3, <1>4, <1>5

\* The days of a settled plan stand.
LEMMA DaysStand ==
  ASSUME NEW data, data # Nothing, Settled(data)
  PROVE  DaysSaved(data, data) = data.days
<1>1. /\ data.days \in Seq(DayInput) /\ data.days = [i \in DOMAIN data.days |-> data.days[i]]
      /\ \A i \in DOMAIN data.days : data.days[i] \in DayInput
  BY SettledFields, LenProperties, ElementOfSeq
<1>2. \A i \in DOMAIN data.days : data.days[i].breakfast = Breakfast(data, i)
  BY DEF Settled, DaysSettled
<1>3. ASSUME NEW i \in DOMAIN data.days
      PROVE  [data.days[i] EXCEPT !.departure = Departure(data, data, i),
                                  !.breakfast = Breakfast(data, i)] = data.days[i]
  <2>1. Departure(data, data, i) = data.days[i].departure
    BY DepartureStands
  <2> QED BY <1>1, <1>2, <2>1 DEF DayInput
<1> QED BY <1>1, <1>3 DEF DaysSaved

\* The items of a settled plan stand: they are their own saved items.
LEMMA ItemsStand ==
  ASSUME NEW data, data # Nothing, Settled(data)
  PROVE  ItemsOk(data, data) /\ ItemsSaved(data, data) = data.items
<1>1. data.items \in [ItemNames -> ItemInput \cup {Nothing}]
  BY SettledFields
<1>2. ItemsSettled(data)
  BY DEF Settled
<1>3. ASSUME NEW m \in Known(data.items)
      PROVE  LET item == data.items[m]
                 ref == ItemReference(data, data, m)
             IN  /\ item \in ItemInput /\ item # Nothing
                 /\ OldItem(data, data, m) = item
                 /\ PriceBefore(item) = item.price /\ ReasonBefore(item) = item.reason
                 /\ ref = item.reference
                 /\ ItemDiners(data, data, m) = item.diners
                 /\ ReasonGiven(item.price, item.price, ref, FALSE, item.reason)
                 /\ ReasonKept(item.price, item.price, ref, FALSE, item.reason, item.reason)
                      = item.reason
  <2> DEFINE item == data.items[m]
             ref == ItemReference(data, data, m)
  <2>1. item \in ItemInput /\ item # Nothing
    BY <1>1 DEF Known
  <2>2. OldItem(data, data, m) = item
    BY <2>1 DEF OldItem
  <2>3. PriceBefore(item) = item.price /\ ReasonBefore(item) = item.reason
    BY <2>1 DEF PriceBefore, ReasonBefore
  <2>4. item.resource = CustomMeal => item.reference = NoPrice
    BY <1>2 DEF ItemsSettled
  <2>5. ref = item.reference /\ ItemDiners(data, data, m) = item.diners
    BY <2>1, <2>2, <2>4 DEF ItemReference, ItemDiners
  <2>6. item.price = NoPrice => item.reason = Blank
    BY <1>2 DEF ItemsSettled, Accounted
  <2> HIDE DEF item, ref
  <2>7. /\ ReasonGiven(item.price, item.price, ref, FALSE, item.reason)
        /\ ReasonKept(item.price, item.price, ref, FALSE, item.reason, item.reason)
             = item.reason
    BY <2>6 DEF ReasonGiven, ReasonKept, NeedsReason, Changed
  <2> QED BY <2>1, <2>2, <2>3, <2>5, <2>7 DEF item, ref
<1>4. ItemsOk(data, data)
  <2>1. ASSUME NEW m \in Known(data.items)
        PROVE  LET item == data.items[m]
                   was == OldItem(data, data, m)
               IN  /\ (item.slot # Nothing) = (item.resource \notin Attractions)
                   /\ item.resource # CustomMeal /\ was = Nothing
                      => catalogue[item.resource].enabled
                   /\ ReasonGiven(item.price, PriceBefore(was),
                                  ItemReference(data, data, m), FALSE, item.reason)
    BY <1>2, <1>3 DEF ItemsSettled
  <2>2. NoRepeatedResource(data)
    BY <1>2 DEF ItemsSettled
  <2> QED BY <2>1, <2>2 DEF ItemsOk
<1>5. ItemsSaved(data, data) = data.items
  <2> DEFINE saved == ItemsSaved(data, data)
  <2>1. saved = [m \in ItemNames |-> saved[m]]
    BY <1>1 DEF ItemsSaved
  <2>2. ASSUME NEW m \in ItemNames PROVE saved[m] = data.items[m]
    <3>1. CASE data.items[m] = Nothing
      BY <1>1, <3>1 DEF ItemsSaved
    <3>2. CASE data.items[m] # Nothing
      <4> DEFINE item == data.items[m]
      <4>1. m \in Known(data.items)
        BY <1>1, <3>2 DEF Known
      <4>2. saved[m] = [item EXCEPT !.reference = item.reference, !.diners = item.diners,
                                    !.reason = item.reason]
        <5>1. saved[m] =
               [item EXCEPT
                  !.reference = ItemReference(data, data, m),
                  !.diners = ItemDiners(data, data, m),
                  !.reason = ReasonKept(item.price, PriceBefore(OldItem(data, data, m)),
                                        ItemReference(data, data, m), FALSE, item.reason,
                                        ReasonBefore(OldItem(data, data, m)))]
          BY <1>1, <3>2 DEF ItemsSaved
        <5> QED BY <1>3, <4>1, <5>1
      <4>3. item \in ItemInput
        BY <1>3, <4>1
      <4> HIDE DEF item, saved
      <4>4. saved[m] = item
        BY <4>2, <4>3 DEF ItemInput
      <4> QED BY <4>4 DEF item
    <3> QED BY <3>1, <3>2
  <2> HIDE DEF saved
  <2>3. saved = data.items
    BY <1>1, <2>1, <2>2
  <2> QED BY <2>3 DEF saved
<1> QED BY <1>4, <1>5

\* The hotels of a settled plan stand: each is its own saved selection.
LEMMA HotelsStand ==
  ASSUME NEW data, data # Nothing, Settled(data)
  PROVE  HotelsOk(data, data) /\ HotelsSaved(data, data) = data.hotels
<1>1. data.hotels \in [HotelTiers \X Cities -> HotelInput \cup {Nothing}]
  BY SettledFields
<1>2. HotelsSettled(data)
  BY DEF Settled
<1>3. ASSUME NEW k \in Known(data.hotels)
      PROVE  LET hotel == data.hotels[k]
                 ref == HotelReference(data, data, k)
             IN  /\ hotel \in HotelInput
                 /\ OldHotel(data, data, k) = hotel /\ SameBasis(data, data, k)
                 /\ HotelPriceBefore(data, data, k) = hotel.price
                 /\ ReasonBefore(hotel) = hotel.reason
                 /\ ref = hotel.reference
                 /\ ReasonGiven(hotel.price, hotel.price, ref, FALSE, hotel.reason)
                 /\ ReasonKept(hotel.price, hotel.price, ref, FALSE, hotel.reason,
                               hotel.reason) = hotel.reason
  <2> DEFINE hotel == data.hotels[k]
             ref == HotelReference(data, data, k)
  <2>1. hotel \in HotelInput /\ hotel # Nothing
    BY <1>1 DEF Known
  <2>2. OldHotel(data, data, k) = hotel
    BY <2>1 DEF OldHotel
  <2>3. SameBasis(data, data, k)
    BY <2>1, <2>2 DEF SameBasis
  <2>4. HotelPriceBefore(data, data, k) = hotel.price /\ ref = hotel.reference
    BY <2>2, <2>3 DEF HotelPriceBefore, HotelReference
  <2>5. ReasonBefore(hotel) = hotel.reason
    BY <2>1 DEF ReasonBefore
  <2>6. hotel.price = NoPrice => hotel.reason = Blank
    BY <1>2 DEF HotelsSettled, Accounted
  <2> HIDE DEF hotel, ref
  <2>7. /\ ReasonGiven(hotel.price, hotel.price, ref, FALSE, hotel.reason)
        /\ ReasonKept(hotel.price, hotel.price, ref, FALSE, hotel.reason, hotel.reason)
             = hotel.reason
    BY <2>6 DEF ReasonGiven, ReasonKept, NeedsReason, Changed
  <2> QED BY <2>1, <2>2, <2>3, <2>4, <2>5, <2>7 DEF hotel, ref
<1>4. HotelsOk(data, data)
  <2>1. \A k \in Known(data.hotels) : k[2] \in data.destinations
    BY <1>2 DEF HotelsSettled
  <2> QED BY <1>3, <2>1 DEF HotelsOk
<1>5. HotelsSaved(data, data) = data.hotels
  <2> DEFINE saved == HotelsSaved(data, data)
  <2>1. saved = [k \in HotelTiers \X Cities |-> saved[k]]
    BY <1>1 DEF HotelsSaved
  <2>2. ASSUME NEW k \in HotelTiers \X Cities PROVE saved[k] = data.hotels[k]
    <3>1. CASE data.hotels[k] = Nothing
      BY <1>1, <3>1 DEF HotelsSaved
    <3>2. CASE data.hotels[k] # Nothing
      <4> DEFINE hotel == data.hotels[k]
      <4>1. k \in Known(data.hotels)
        BY <1>1, <3>2 DEF Known
      <4>2. saved[k] = [hotel EXCEPT !.reference = hotel.reference, !.reason = hotel.reason]
        <5>1. saved[k] =
               [hotel EXCEPT
                  !.reference = HotelReference(data, data, k),
                  !.reason = ReasonKept(hotel.price, HotelPriceBefore(data, data, k),
                                        HotelReference(data, data, k), FALSE, hotel.reason,
                                        ReasonBefore(OldHotel(data, data, k)))]
          BY <1>1, <3>2 DEF HotelsSaved
        <5> QED BY <1>3, <4>1, <5>1
      <4>3. hotel \in HotelInput
        BY <1>3, <4>1
      <4> HIDE DEF hotel, saved
      <4>4. saved[k] = hotel
        BY <4>2, <4>3 DEF HotelInput
      <4> QED BY <4>4 DEF hotel
    <3> QED BY <3>1, <3>2
  <2> HIDE DEF saved
  <2>3. saved = data.hotels
    BY <1>1, <2>1, <2>2
  <2> QED BY <2>3 DEF saved
<1> QED BY <1>4, <1>5

\* The vehicle plans of a settled plan stand.
LEMMA GroupStands ==
  ASSUME NEW data, data # Nothing, Settled(data), NEW t \in VehicleTiers
  PROVE  GroupOk(data, data, t) /\ GroupSaved(data, data, t) = data.vehicles[t]
<1> DEFINE group == data.vehicles[t]
           saved == GroupSaved(data, data, t)
           segment == SegmentTotal(group.ranges)
           mode == Mode(data, data, t)
           total == IF mode = "automatic" THEN segment ELSE GroupTotalSent(group)
           reason == CASE mode = "automatic" -> Blank
                       [] mode # "automatic" /\ total = NoPrice -> group.reason
                       [] mode # "automatic" /\ total # NoPrice /\ group.total = NoPrice -> Blank
                       [] mode # "automatic" /\ total # NoPrice /\ group.total # NoPrice ->
                            ReasonKept(total, group.total, segment, TRUE, group.reason,
                                       group.reason)
<1>1. /\ group.mode # NoMode /\ RangesOk(data, t) /\ group.segment = segment
      /\ group.ranges = <<>> => group.total = NoPrice
      /\ group.mode = "automatic" =>
            /\ group.total = group.segment /\ group.reason = Blank
            /\ group.ranges # <<>> => group.segment # NoPrice
  BY SettledGroup DEF GroupSettled
<1>2. group \in [ranges : Seq(ArrangementInput), mode : Modes \cup {NoMode},
                 total : Cents, segment : Cents, reason : Reason]
  BY SettledGroup
<1>3. OldGroup(data, t) = group
  BY DEF OldGroup
<1>4. mode = group.mode
  BY <1>1 DEF Mode
<1>5. total = group.total
  BY <1>1, <1>4 DEF GroupTotalSent
<1>6. saved = [group EXCEPT !.mode = mode, !.segment = segment, !.total = total,
                            !.reason = reason]
  BY <1>3 DEF GroupSaved
<1> HIDE DEF mode, total, segment
<1>7. group.total # NoPrice => ReasonKept(total, group.total, segment, TRUE, group.reason,
                                          group.reason) = group.reason
  BY <1>5 DEF ReasonKept, Changed
<1>8. reason = group.reason
  <2>1. CASE mode = "automatic"
    BY <1>1, <1>4, <2>1
  <2>2. CASE mode # "automatic" /\ total = NoPrice
    BY <2>2
  <2>3. CASE mode # "automatic" /\ total # NoPrice
    <3>1. reason = ReasonKept(total, group.total, segment, TRUE, group.reason, group.reason)
      BY <1>5, <2>3
    <3> QED BY <1>5, <1>7, <2>3, <3>1
  <2> QED BY <2>1, <2>2, <2>3
<1> HIDE DEF reason, group
<1>9. saved = group
  BY <1>1, <1>2, <1>4, <1>5, <1>6, <1>8
<1> HIDE DEF saved
<1>10. GroupOk(data, data, t)
  <2>1. VehiclesOk(data, data, t)
    BY <1>3 DEF VehiclesOk, group
  <2>2. ReasonGiven(group.total, group.total, group.segment, TRUE, group.reason)
    BY DEF ReasonGiven, NeedsReason, Changed
  <2>3. GroupSaved(data, data, t) = group /\ data.vehicles[t] = group
    BY <1>9 DEF saved, group
  <2> QED BY <1>1, <1>3, <2>1, <2>2, <2>3 DEF GroupOk
<1> QED BY <1>9, <1>10 DEF saved, group

\* The guide of a settled plan stands.
LEMMA GuideStands ==
  ASSUME NEW data, data # Nothing, Settled(data)
  PROVE  GuideOk(data, data) /\ GuideSaved(data, data) = data.guide
<1> DEFINE guide == data.guide
           ref == GuideReference(data, data)
<1>1. data.guide \in GuideInput \cup {Nothing} /\ GuideSettled(data)
  BY SettledFields DEF Settled
<1>2. CASE guide = Nothing
  BY <1>2 DEF GuideOk, GuideSaved
<1>3. CASE guide # Nothing
  <2>1. guide \in GuideInput /\ guide.city \in data.destinations
        /\ (guide.price = NoPrice => guide.reason = Blank)
    BY <1>1, <1>3 DEF GuideSettled, Accounted
  <2>2. OldGuide(data, data) = guide /\ PriceBefore(guide) = guide.price
        /\ ReasonBefore(guide) = guide.reason
    BY <1>3 DEF OldGuide, PriceBefore, ReasonBefore
  <2>3. ref = guide.reference
    BY <1>3, <2>2 DEF GuideReference
  <2> HIDE DEF guide, ref
  <2>4. /\ ReasonGiven(guide.price, guide.price, ref, FALSE, guide.reason)
        /\ ReasonKept(guide.price, guide.price, ref, FALSE, guide.reason, guide.reason)
             = guide.reason
    BY <2>1 DEF ReasonGiven, ReasonKept, NeedsReason, Changed
  <2>5. GuideOk(data, data)
    BY <1>3, <2>1, <2>2, <2>4 DEF GuideOk, guide, ref
  <2>6. GuideSaved(data, data) =
          [guide EXCEPT !.reference = ref,
                        !.reason = ReasonKept(guide.price, guide.price, ref, FALSE,
                                              guide.reason, guide.reason)]
    BY <1>3, <2>2 DEF GuideSaved, guide, ref
  <2>7. GuideSaved(data, data) = guide
    <3>1. GuideSaved(data, data)
            = [guide EXCEPT !.reference = guide.reference, !.reason = guide.reason]
      BY <2>3, <2>4, <2>6
    <3> QED BY <2>1, <3>1 DEF GuideInput
  <2> QED BY <2>5, <2>7 DEF guide
<1> QED BY <1>2, <1>3

\* A settled plan can be saved again as it is, and nothing changes, whatever the
\* catalogue has become.
LEMMA SettledStable ==
  ASSUME NEW data, data # Nothing, Settled(data)
  PROVE  Acceptable(data, data) /\ Normalized(data, data) = data
<1>1. DaysSaved(data, data) = data.days /\ DaysOk(data)
  BY DaysStand DEF Settled, DaysSettled
<1>2. ItemsOk(data, data) /\ ItemsSaved(data, data) = data.items
  BY ItemsStand
<1>3. HotelsOk(data, data) /\ HotelsSaved(data, data) = data.hotels
  BY HotelsStand
<1>4. \A t \in VehicleTiers : /\ GroupOk(data, data, t)
                              /\ GroupSaved(data, data, t) = data.vehicles[t]
  BY GroupStands
<1>5. GuideOk(data, data) /\ GuideSaved(data, data) = data.guide
  BY GuideStands
<1>6. QuoteOk(data) /\ QuoteSaved(data) = data.quote
  BY DEF Settled
<1>7. DestinationsOk(data, data)
  BY DEF DestinationsOk
<1>8. Acceptable(data, data)
  BY <1>1, <1>2, <1>3, <1>4, <1>5, <1>6, <1>7 DEF Acceptable
<1>9. [t \in VehicleTiers |-> GroupSaved(data, data, t)] = data.vehicles
  BY <1>4, SettledFields
<1>10. Normalized(data, data) =
         [destinations |-> data.destinations, days |-> data.days,
          deleted |-> data.deleted, items |-> data.items, hotels |-> data.hotels,
          vehicles |-> data.vehicles, guide |-> data.guide, pax |-> data.pax,
          quote |-> data.quote]
  <2>1. data \in PlanOf(QuoteInput(data.quote))
    BY SettledFields
  <2> QED BY <1>1, <1>2, <1>3, <1>5, <1>6, <1>9, <2>1, NormalizedFields
<1>11. data = [destinations |-> data.destinations, days |-> data.days,
               deleted |-> data.deleted, items |-> data.items, hotels |-> data.hotels,
               vehicles |-> data.vehicles, guide |-> data.guide, pax |-> data.pax,
               quote |-> data.quote]
  BY SettledFields, PlanSections
<1> QED BY <1>8, <1>10, <1>11

-----------------------------------------------------------------------------
(* The invariant.                                                          *)

\* Every step of the catalogue keeps its type.
LEMMA CatalogueKept ==
  ASSUME CatalogueType, [ItineraryNext]_itineraryVars
  PROVE  CatalogueType'
<1>1. CASE EditCatalogue
  <2>1. PICK r \in Resources, p \in Prices, g \in Prices \cup {NoPrice}, on \in BOOLEAN :
          catalogue' = [catalogue EXCEPT ![r] = [enabled |-> on, price |-> p, group |-> g]]
    BY <1>1 DEF EditCatalogue
  <2> QED BY <2>1 DEF CatalogueType
<1>2. CASE UNCHANGED catalogue
  BY <1>2 DEF CatalogueType
<1> QED BY <1>1, <1>2 DEF ItineraryNext, CreatePlan, SavePlan, itineraryVars

\* A plan that is created or saved is a document a client may send, accepted and
\* normalised against the plan there was.
LEMMA PlanSaved ==
  ASSUME ItineraryInv, CreatePlan \/ SavePlan
  PROVE  \E new : /\ ItineraryInput(new) /\ Acceptable(new, plan)
                  /\ plan' = Normalized(new, plan) /\ Settled(plan')
                  /\ adjustments' = Adjustments(plan', plan)
<1>1. plan = Nothing \/ Settled(plan)
  BY DEF ItineraryInv
<1>2. PICK new : /\ ItineraryInput(new) /\ Acceptable(new, plan)
                 /\ plan' = Loaded(Rows(Normalized(new, plan)))
                 /\ adjustments' = Adjustments(plan', plan)
  BY DEF CreatePlan, SavePlan
<1>3. Settled(Normalized(new, plan))
  BY <1>1, <1>2, SaveSettles DEF ItineraryInv
<1>4. plan' = Normalized(new, plan)
  BY <1>2, <1>3, LoadedRows
<1> QED BY <1>2, <1>3, <1>4

\* Every save leaves a settled plan behind, and no edit of the catalogue unsettles it.
THEOREM ItinerarySettled == ItinerarySpec => []ItineraryInv
<1>1. ItineraryInit => ItineraryInv
  BY CatalogueStart DEF ItineraryInit, ItineraryInv
<1>2. ItineraryInv /\ [ItineraryNext]_itineraryVars => ItineraryInv'
  <2> SUFFICES ASSUME ItineraryInv, [ItineraryNext]_itineraryVars PROVE ItineraryInv'
    OBVIOUS
  <2>1. CatalogueType'
    BY CatalogueKept DEF ItineraryInv
  <2>2. CASE CreatePlan \/ SavePlan
    <3>1. Settled(plan')
      BY <2>2, PlanSaved
    <3>2. Settled(plan)'
      BY <3>1
    <3> QED BY <2>1, <3>2 DEF ItineraryInv
  <2>3. CASE UNCHANGED plan
    BY <2>1, <2>3 DEF ItineraryInv
  <2> QED BY <2>2, <2>3 DEF ItineraryNext, EditCatalogue, itineraryVars
<1> QED BY <1>1, <1>2, PTL DEF ItinerarySpec

\* The prices of a settled plan that have no vehicle behind them are accounted for.
LEMMA SettledExplained ==
  ASSUME NEW data, data # Nothing, Settled(data), NEW e \in PricesOf(data), ~e.vehicle,
         e.price # NoPrice, ~Restored(e.price, e.reference)
  PROVE  e.reason # Blank
<1>1. \/ \E m \in Known(data.items) :
            e = Priced(<<"item", m>>, FALSE, <<data.items[m].resource>>, data.items[m])
      \/ \E k \in Known(data.hotels) :
            e = Priced(<<"hotel", k>>, FALSE,
                       <<data.hotels[k].hotel, data.hotels[k].basis>>, data.hotels[k])
      \/ data.guide # Nothing
         /\ e = Priced(<<"guide", data.guide.city>>, FALSE, <<data.guide.guide>>, data.guide)
  <2>1. \A t : ~(e = Priced(<<"vehicle", t>>, TRUE, <<data.vehicles[t].mode>>,
                            [price |-> data.vehicles[t].total,
                             reference |-> data.vehicles[t].segment,
                             reason |-> data.vehicles[t].reason]))
    BY DEF Priced
  <2> QED BY <2>1 DEF PricesOf
<1>2. CASE \E m \in Known(data.items) :
             e = Priced(<<"item", m>>, FALSE, <<data.items[m].resource>>, data.items[m])
  <2>1. PICK m \in Known(data.items) :
             e = Priced(<<"item", m>>, FALSE, <<data.items[m].resource>>, data.items[m])
    BY <1>2
  <2>2. Accounted(data.items[m])
    BY DEF Settled, ItemsSettled
  <2>3. /\ e.price = data.items[m].price /\ e.reference = data.items[m].reference
        /\ e.reason = data.items[m].reason
    BY <2>1 DEF Priced
  <2> QED BY <2>2, <2>3 DEF Accounted
<1>3. CASE \E k \in Known(data.hotels) :
             e = Priced(<<"hotel", k>>, FALSE,
                        <<data.hotels[k].hotel, data.hotels[k].basis>>, data.hotels[k])
  <2>1. PICK k \in Known(data.hotels) :
             e = Priced(<<"hotel", k>>, FALSE,
                        <<data.hotels[k].hotel, data.hotels[k].basis>>, data.hotels[k])
    BY <1>3
  <2>2. Accounted(data.hotels[k])
    BY DEF Settled, HotelsSettled
  <2>3. /\ e.price = data.hotels[k].price /\ e.reference = data.hotels[k].reference
        /\ e.reason = data.hotels[k].reason
    BY <2>1 DEF Priced
  <2> QED BY <2>2, <2>3 DEF Accounted
<1>4. CASE data.guide # Nothing
           /\ e = Priced(<<"guide", data.guide.city>>, FALSE, <<data.guide.guide>>,
                         data.guide)
  <2>1. Accounted(data.guide)
    BY <1>4 DEF Settled, GuideSettled
  <2>2. /\ e.price = data.guide.price /\ e.reference = data.guide.reference
        /\ e.reason = data.guide.reason
    BY <1>4 DEF Priced
  <2> QED BY <2>1, <2>2 DEF Accounted
<1> QED BY <1>1, <1>2, <1>3, <1>4

\* A saved plan can be saved again and nothing changes, and each of its prices is the
\* one of its reference or has a reason.
THEOREM SavedPricesStand == ItinerarySpec => []PricesStand
<1>1. ItineraryInv => PricesStand
  <2> SUFFICES ASSUME ItineraryInv PROVE PricesStand
    OBVIOUS
  <2>1. CASE plan = Nothing
    BY <2>1 DEF PricesStand, SavedPlanStable, PriceExplained, PricesOf
  <2>2. CASE plan # Nothing
    <3>1. Settled(plan)
      BY <2>2 DEF ItineraryInv
    <3>2. SavedPlanStable
      BY <2>2, <3>1, SettledStable DEF SavedPlanStable
    <3>3. PriceExplained
      BY <2>2, <3>1, SettledExplained DEF PriceExplained
    <3> QED BY <3>2, <3>3 DEF PricesStand
  <2> QED BY <2>1, <2>2
<1> QED BY <1>1, ItinerarySettled, PTL

\* A quote that may be generated has every room it charges priced, a price and the seats
\* for every vehicle plan it offers, and no selection without a price.
THEOREM ReadyQuotesComplete == ItinerarySpec => []ReadyQuoteComplete
<1>1. ItineraryInv => ReadyQuoteComplete
  <2> SUFFICES ASSUME ItineraryInv, plan # Nothing, PdfReady(plan)
               PROVE  /\ Calculation(plan).complete
                      /\ \A o \in DOMAIN plan.quote.options :
                            /\ \A c \in OvernightCities(plan) :
                                  RoomPrice(plan, o[1], c) # NoPrice
                            /\ plan.vehicles[o[2]].total # NoPrice
                            /\ \A r \in DOMAIN plan.vehicles[o[2]].ranges :
                                  LET range == plan.vehicles[o[2]].ranges[r]
                                  IN  range.vehicles # {} => Seats(range) >= Max(plan.pax)
    BY DEF ReadyQuoteComplete
  <2>1. Settled(plan)
    BY DEF ItineraryInv
  <2>2. MissingPrices(plan) = {}
    BY DEF PdfReady
  <2>3. Calculation(plan).complete
    BY <2>2 DEF Calculation
  <2>4. ASSUME NEW o \in DOMAIN plan.quote.options
        PROVE  /\ \A c \in OvernightCities(plan) : RoomPrice(plan, o[1], c) # NoPrice
               /\ plan.vehicles[o[2]].total # NoPrice
               /\ \A r \in DOMAIN plan.vehicles[o[2]].ranges :
                     plan.vehicles[o[2]].ranges[r].vehicles # {}
                     => Seats(plan.vehicles[o[2]].ranges[r]) >= Max(plan.pax)
    <3>1. o \in OfferedTiers(plan) \X UsedVehicleTiers(plan)
      BY <2>1, SettledOptions
    <3>2. PICK h \in OfferedTiers(plan), t \in UsedVehicleTiers(plan) : o = <<h, t>>
      BY <3>1
    <3>3. h \in HotelTiers /\ t \in VehicleTiers
      BY DEF OfferedTiers, UsedVehicleTiers
    <3>4. ASSUME NEW c \in OvernightCities(plan) PROVE RoomPrice(plan, h, c) # NoPrice
      <4>1. PICK i \in DOMAIN plan.days : plan.days[i].overnight = c
        BY DEF OvernightCities
      <4>2. c \in Cities
        <5>1. c \in plan.destinations
          BY <2>1, <4>1 DEF Settled, DaysSettled, DaysOk, OvernightCities
        <5> QED BY <2>1, <5>1, SettledFields
      <4>3. plan.hotels[<<h, c>>] # Nothing
        BY <4>1, <4>2 DEF PdfReady
      <4>4. <<h, c>> \in Known(plan.hotels)
        BY <2>1, <3>3, <4>2, <4>3, SettledFields DEF Known
      <4>5. plan.hotels[<<h, c>>].price # NoPrice
        <5>1. {<<"hotel", k>> : k \in {x \in Known(plan.hotels) :
                                         plan.hotels[x].price = NoPrice}} = {}
          BY <2>2 DEF MissingPrices
        <5> QED BY <4>4, <5>1
      <4> QED BY <4>3, <4>5 DEF RoomPrice
    <3>5. plan.vehicles[t].total # NoPrice
      BY DEF PdfReady
    <3>6. ASSUME NEW r \in DOMAIN plan.vehicles[t].ranges,
                 plan.vehicles[t].ranges[r].vehicles # {}
          PROVE  Seats(plan.vehicles[t].ranges[r]) >= Max(plan.pax)
      <4>1. plan.vehicles[t].ranges[r].days # <<>>
        BY DEF PdfReady
      <4>2. RangesOk(plan, t)
        BY <2>1, <3>3, SettledGroup DEF GroupSettled
      <4> QED BY <3>6, <4>1, <4>2 DEF RangesOk
    <3> QED BY <3>2, <3>4, <3>5, <3>6
  <2> QED BY <2>3, <2>4
<1> QED BY <1>1, ItinerarySettled, PTL

-----------------------------------------------------------------------------
(* The amounts of a quote.                                                 *)

\* Dividing by a positive number leaves a remainder below it.
LEMMA Division ==
  ASSUME NEW n \in Nat, NEW d \in Nat \ {0}
  PROVE  /\ n \div d \in Nat
         /\ d * (n \div d) <= n /\ n < d * (n \div d) + d
  OBVIOUS

\* A rounded share is within half a unit of the exact one.
LEMMA Rounding ==
  ASSUME NEW n \in Nat, NEW d \in Nat \ {0}
  PROVE  /\ RoundedInteger(n, d) \in Nat
         /\ 2 * (d * RoundedInteger(n, d)) <= 2 * n + d
         /\ 2 * n < 2 * (d * RoundedInteger(n, d)) + d
<1> DEFINE h == d \div 2
           r == RoundedInteger(n, d)
<1>1. h \in Nat /\ d \in {2 * h, 2 * h + 1}
  OBVIOUS
<1>2. r = (n + h) \div d /\ n + h \in Nat
  BY <1>1 DEF RoundedInteger
<1> HIDE DEF h, r
<1>3. r \in Nat /\ d * r <= n + h /\ n + h < d * r + d
  BY <1>2, Division
<1> DEFINE m == d * r
<1>4. m \in Nat
  BY <1>3
<1> HIDE DEF m
<1>5. 2 * m <= 2 * n + d /\ 2 * n < 2 * m + d
  BY <1>1, <1>3, <1>4 DEF m
<1> QED BY <1>3, <1>5 DEF m, r

\* A share of the same amount is no larger in a larger group.
LEMMA LargerGroupPaysNoMore ==
  ASSUME NEW n \in Nat, NEW p \in Nat \ {0}, NEW q \in Nat \ {0}, p < q
  PROVE  RoundedInteger(n, q) <= RoundedInteger(n, p)
<1> DEFINE a == RoundedInteger(n, q)
           b == RoundedInteger(n, p)
<1>1. a \in Nat /\ 2 * (q * a) <= 2 * n + q
  BY Rounding
<1>2. b \in Nat /\ 2 * n < 2 * (p * b) + p
  BY Rounding
<1> HIDE DEF a, b
<1>3. ASSUME b < a
      PROVE  FALSE
  <2>1. PICK k \in Nat : a = b + 1 + k
    <3>1. a - b - 1 \in Nat /\ a = b + 1 + (a - b - 1)
      BY <1>1, <1>2, <1>3
    <3> QED BY <3>1
  <2>2. q * a = q * b + q + q * k
    BY <1>2, <2>1
  <2>3. q * k \in Nat /\ q * b \in Nat /\ p * b \in Nat
    BY <1>2, <2>1
  <2>4. PICK j \in Nat : q = p + j
    <3>1. q - p \in Nat /\ q = p + (q - p)
      OBVIOUS
    <3> QED BY <3>1
  <2>5. q * b = p * b + j * b /\ j * b \in Nat
    BY <1>2, <2>4
  <2> QED BY <1>1, <1>2, <2>2, <2>3, <2>4, <2>5
<1> QED BY <1>1, <1>2, <1>3 DEF a, b

\* What an overnight city adds to the room cost of a hotel tier.
Charge(data, tier, c) == KnownPrice(RoomPrice(data, tier, c)) * Nights(data, c)

\* The charges of a settled plan are amounts.
LEMMA ChargeCents ==
  ASSUME NEW data, Settled(data), NEW tier \in HotelTiers, NEW c \in Cities
  PROVE  Charge(data, tier, c) \in Nat
<1>1. data.days \in Seq(DayInput)
  BY SettledFields
<1>2. IsFiniteSet({i \in DOMAIN data.days : data.days[i].overnight = c})
  <2>1. IsFiniteSet(DOMAIN data.days)
    BY <1>1, LenProperties, FS_Interval
  <2> QED BY <2>1, FS_Subset
<1>3. Nights(data, c) \in Nat
  BY <1>2, FS_CardinalityType DEF Nights
<1>4. KnownPrice(RoomPrice(data, tier, c)) \in Nat
  <2>1. data.hotels[<<tier, c>>] \in HotelInput \cup {Nothing}
    BY SettledFields
  <2>2. RoomPrice(data, tier, c) \in Cents
    BY <2>1 DEF RoomPrice, HotelInput, Cents
  <2> QED BY <2>2 DEF KnownPrice, Cents
<1> DEFINE price == KnownPrice(RoomPrice(data, tier, c))
           nights == Nights(data, c)
<1> HIDE DEF price, nights
<1>5. price * nights \in Nat
  BY <1>3, <1>4 DEF price, nights
<1> QED BY <1>5 DEF Charge, price, nights

\* A city more adds its charge to the room cost.
LEMMA RoomCostOfOneMore ==
  ASSUME NEW data, Settled(data), NEW tier \in HotelTiers, NEW cities, cities \subseteq Cities
  PROVE  /\ RoomCost(data, tier, cities) \in Nat
         /\ \A c \in Cities \ cities :
               RoomCost(data, tier, cities \cup {c})
                 = Charge(data, tier, c) + RoomCost(data, tier, cities)
<1> DEFINE f(s) == [c \in s |-> Charge(data, tier, c)]
<1>1. \A s : RoomCost(data, tier, s) = SumFunction(f(s))
  BY DEF RoomCost, Charge
<1>2. \A s \in SUBSET Cities : IsFiniteSet(s) /\ f(s) \in [s -> Nat]
  BY ChargeCents, FiniteAssumption, FS_Subset
<1>3. RoomCost(data, tier, cities) \in Nat
  <2>1. SumFunction(f(cities)) \in Nat
    <3> DEFINE e == f(cities)
    <3>1. e \in [cities -> Nat] /\ IsFiniteSet(cities)
      BY <1>2
    <3> HIDE DEF e
    <3>2. SumFunction(e) \in Nat
      BY <3>1, SumOfCosts
    <3> QED BY <3>2 DEF e
  <2> QED BY <1>1, <2>1
<1>4. ASSUME NEW c \in Cities \ cities
      PROVE  RoomCost(data, tier, cities \cup {c})
               = Charge(data, tier, c) + RoomCost(data, tier, cities)
  <2> DEFINE more == cities \cup {c}
             g == f(more)
  <2>1. more \in SUBSET Cities /\ c \in more
    BY <1>4
  <2>2. IsFiniteSet(more) /\ g \in [more -> Int]
    BY <1>2, <2>1
  <2>3. g[c] = Charge(data, tier, c) /\ [y \in more \ {c} |-> g[y]] = f(cities)
    BY <1>4
  <2>4. SumFunction(g) = RoomCost(data, tier, more)
    BY <1>1
  <2> HIDE DEF g, more
  <2>5. SumFunction(g) = g[c] + SumFunction([y \in more \ {c} |-> g[y]])
    BY <2>1, <2>2, SumOfOneMore, ZenonT(60)
  <2> HIDE DEF f
  <2>6. SumFunction(g) = Charge(data, tier, c) + RoomCost(data, tier, cities)
    BY <1>1, <2>3, <2>5
  <2> QED BY <2>4, <2>6 DEF more
<1> QED BY <1>3, <1>4

\* The overnight cities are cities of the plan, each first slept in on a day of its own.
LEMMA FirstNights ==
  ASSUME NEW data, Settled(data)
  PROVE  /\ OvernightCities(data) \subseteq Cities
         /\ \A c \in OvernightCities(data) :
               /\ FirstNight(data, c) \in 1 .. Len(data.days)
               /\ data.days[FirstNight(data, c)].overnight = c
<1>1. data.days \in Seq(DayInput) /\ Len(data.days) \in Nat
      /\ DOMAIN data.days = 1 .. Len(data.days)
  BY SettledFields, LenProperties
<1>2. OvernightCities(data) \subseteq Cities
  BY SettledFields DEF Settled, DaysSettled, DaysOk, OvernightCities
<1>3. ASSUME NEW c \in OvernightCities(data)
      PROVE  /\ FirstNight(data, c) \in 1 .. Len(data.days)
             /\ data.days[FirstNight(data, c)].overnight = c
  <2> DEFINE S == {i \in DOMAIN data.days : data.days[i].overnight = c}
  <2>1. S \in SUBSET Nat /\ S # {}
    BY <1>1 DEF OvernightCities
  <2> HIDE DEF S
  <2>2. PICK k \in S : \A j \in S : ~(j < k)
    BY <2>1, LeastOf
  <2>3. \A j \in S : k <= j
    BY <2>1, <2>2
  <2>4. Min(S) \in S
    BY <2>3 DEF Min
  <2>5. FirstNight(data, c) \in S
    BY <2>4 DEF FirstNight, S
  <2> QED BY <1>1, <2>5 DEF S
<1> QED BY <1>2, <1>3

\* The charge of a city is what it adds to the rounded half of the room cost.
LEMMA CityShare ==
  ASSUME NEW data, Settled(data), NEW tier \in HotelTiers, NEW c \in OvernightCities(data)
  PROVE  LET earlier == {x \in OvernightCities(data) :
                            FirstNight(data, x) < FirstNight(data, c)}
             before == RoomCost(data, tier, earlier)
             after == RoomCost(data, tier, earlier \cup {c})
         IN  /\ before \in Nat /\ after = Charge(data, tier, c) + before
             /\ KnownPrice(HotelCityCosts(data, tier)[c].cost)
                  = RoundedInteger(after, 2) - RoundedInteger(before, 2)
<1> DEFINE earlier == {x \in OvernightCities(data) : FirstNight(data, x) < FirstNight(data, c)}
           before == RoomCost(data, tier, earlier)
           after == RoomCost(data, tier, earlier \cup {c})
           price == RoomPrice(data, tier, c)
           cost == HotelCityCosts(data, tier)[c].cost
<1>1. c \in Cities \ earlier /\ earlier \subseteq Cities
  BY FirstNights
<1>2. before \in Nat /\ after = Charge(data, tier, c) + before
  <2> HIDE DEF earlier
  <2> QED BY <1>1, RoomCostOfOneMore
<1>3. cost = IF price = NoPrice THEN NoPrice ELSE HotelCityCost(data, tier, c)
  BY DEF HotelCityCosts
<1>4. HotelCityCost(data, tier, c) = RoundedInteger(after, 2) - RoundedInteger(before, 2)
  BY DEF HotelCityCost
<1>5. Charge(data, tier, c) \in Nat
  BY <1>1, ChargeCents
<1> HIDE DEF before, after, cost
<1>6. RoundedInteger(after, 2) \in Nat /\ RoundedInteger(before, 2) \in Nat
  BY <1>2, <1>5, Rounding
<1>7. CASE price = NoPrice
  <2>1. Nights(data, c) \in Nat
    <3>1. IsFiniteSet(DOMAIN data.days)
      BY SettledFields, LenProperties, FS_Interval
    <3>2. IsFiniteSet({i \in DOMAIN data.days : data.days[i].overnight = c})
      BY <3>1, FS_Subset
    <3> QED BY <3>2, FS_CardinalityType DEF Nights
  <2>2. Charge(data, tier, c) = 0
    BY <1>7, <2>1 DEF Charge, KnownPrice
  <2>3. after = before /\ KnownPrice(cost) = 0
    BY <1>2, <1>3, <1>7, <2>2 DEF KnownPrice
  <2> QED BY <1>2, <1>6, <2>3 DEF before, after, cost
<1>8. CASE price # NoPrice
  <2>1. cost = RoundedInteger(after, 2) - RoundedInteger(before, 2)
    BY <1>3, <1>4, <1>8
  <2>2. KnownPrice(cost) = cost
    BY <1>6, <2>1, NoPriceAssumption DEF KnownPrice
  <2> QED BY <1>2, <2>1, <2>2 DEF before, after, cost
<1> QED BY <1>7, <1>8

\* The shares of the cities sum to the hotel cost of the traveller: those of the cities
\* slept in up to a day sum to the rounded half of their room cost.
LEMMA SharesAddUp ==
  ASSUME NEW data, Settled(data), NEW tier \in HotelTiers
  PROVE  SumFunction([c \in OvernightCities(data) |->
                        KnownPrice(HotelCityCosts(data, tier)[c].cost)])
           = HotelUnitCost(data, tier)
<1> DEFINE n == Len(data.days)
           Share(c) == KnownPrice(HotelCityCosts(data, tier)[c].cost)
           Until(k) == {c \in OvernightCities(data) : FirstNight(data, c) <= k}
           Rooms(k) == RoomCost(data, tier, Until(k))
           Shares(k) == [c \in Until(k) |-> Share(c)]
           Good(k) == SumFunction(Shares(k)) = RoundedInteger(Rooms(k), 2)
           Bad == {k \in 0 .. n : ~Good(k)}
           Earlier(c) == {x \in OvernightCities(data) :
                            FirstNight(data, x) < FirstNight(data, c)}
           Telescoped(c) == Share(c) = RoundedInteger(RoomCost(data, tier, Earlier(c) \cup {c}), 2)
                                       - RoundedInteger(RoomCost(data, tier, Earlier(c)), 2)
<1>1. n \in Nat
  BY SettledFields, LenProperties
<1>2. \A k \in 0 .. n : Until(k) \subseteq Cities /\ IsFiniteSet(Until(k)) /\ Rooms(k) \in Nat
  BY FirstNights, FiniteAssumption, FS_Subset, RoomCostOfOneMore
<1>3. \A c \in OvernightCities(data) : Share(c) \in Int /\ Telescoped(c)
  <2> SUFFICES ASSUME NEW c \in OvernightCities(data) PROVE Share(c) \in Int /\ Telescoped(c)
    OBVIOUS
  <2> DEFINE before == RoomCost(data, tier, Earlier(c))
             after == RoomCost(data, tier, Earlier(c) \cup {c})
  <2>1. /\ before \in Nat /\ after = Charge(data, tier, c) + before
        /\ Share(c) = RoundedInteger(after, 2) - RoundedInteger(before, 2)
    BY CityShare, ZenonT(60)
  <2>2. Charge(data, tier, c) \in Nat
    BY FirstNights, ChargeCents
  <2> HIDE DEF before, after
  <2>3. RoundedInteger(after, 2) \in Nat /\ RoundedInteger(before, 2) \in Nat
    BY <2>1, <2>2, Rounding
  <2>4. Telescoped(c)
    BY <2>1 DEF before, after
  <2> HIDE DEF Share, Telescoped
  <2> QED BY <2>1, <2>3, <2>4
<1>4. Good(0)
  <2>1. \A c \in OvernightCities(data) : ~(FirstNight(data, c) <= 0)
    BY <1>1, FirstNights
  <2>2. Until(0) = {}
    BY <2>1
  <2>3. Shares(0) = [x \in {} |-> 0]
    BY <2>2
  <2>4. Rooms(0) = SumFunction([x \in {} |-> 0])
    BY <2>2 DEF RoomCost
  <2>5. RoundedInteger(0, 2) = 0
    BY DEF RoundedInteger
  <2> HIDE DEF Shares, Rooms
  <2> QED BY <2>3, <2>4, <2>5, SumOfNone
<1>5. ASSUME NEW k \in 1 .. n, Good(k - 1)
      PROVE  Good(k)
  <2> DEFINE c == data.days[k].overnight
  <2>1. \A x \in OvernightCities(data) : FirstNight(data, x) = k => x = c
    BY FirstNights
  <2>2. \A x \in OvernightCities(data) :
           FirstNight(data, x) \in 1 .. n
    BY FirstNights
  <2>3. CASE c \in OvernightCities(data) /\ FirstNight(data, c) = k
    <3>1. /\ {x \in OvernightCities(data) : FirstNight(data, x) < FirstNight(data, c)}
                = Until(k - 1)
          /\ Until(k) = Until(k - 1) \cup {c} /\ c \notin Until(k - 1) /\ c \in Until(k)
          /\ Until(k) \ {c} = Until(k - 1)
      BY <1>1, <2>1, <2>2, <2>3
    <3>2. /\ Rooms(k - 1) \in Nat /\ Rooms(k) \in Nat
          /\ Share(c) = RoundedInteger(Rooms(k), 2) - RoundedInteger(Rooms(k - 1), 2)
      <4>1. k - 1 \in 0 .. n /\ k \in 0 .. n
        BY <1>1
      <4>2. Rooms(k - 1) \in Nat /\ Rooms(k) \in Nat
        BY <1>2, <4>1
      <4>3. Telescoped(c)
        <5> HIDE DEF Telescoped, Share
        <5> QED BY <1>3, <2>3
      <4>4. RoomCost(data, tier, Earlier(c) \cup {c}) = Rooms(k)
            /\ RoomCost(data, tier, Earlier(c)) = Rooms(k - 1)
        BY <3>1
      <4> HIDE DEF Share, Earlier, Rooms
      <4> QED BY <4>2, <4>3, <4>4
    <3>3. SumFunction(Shares(k)) = Share(c) + SumFunction(Shares(k - 1))
      <4> DEFINE S == Until(k)
                 f == Shares(k)
      <4>1. IsFiniteSet(S) /\ c \in S
        BY <1>1, <1>2, <3>1
      <4>2. f \in [S -> Int]
        <5> HIDE DEF Share
        <5> QED BY <1>3
      <4>3. f[c] = Share(c) /\ [y \in S \ {c} |-> f[y]] = Shares(k - 1)
        <5> HIDE DEF Share
        <5> QED BY <3>1
      <4> HIDE DEF f, S
      <4>4. SumFunction(f) = f[c] + SumFunction([y \in S \ {c} |-> f[y]])
        BY <4>1, <4>2, SumOfOneMore, ZenonT(60)
      <4> HIDE DEF Share
      <4> QED BY <4>3, <4>4 DEF f
    <3>4. RoundedInteger(Rooms(k - 1), 2) \in Nat /\ RoundedInteger(Rooms(k), 2) \in Nat
      BY <3>2, Rounding
    <3> HIDE DEF Share, Shares, Rooms
    <3> QED BY <1>5, <3>2, <3>3, <3>4
  <2>4. CASE ~(c \in OvernightCities(data) /\ FirstNight(data, c) = k)
    <3>1. Until(k) = Until(k - 1)
      BY <1>1, <2>1, <2>2, <2>4
    <3>2. Shares(k) = Shares(k - 1) /\ Rooms(k) = Rooms(k - 1)
      BY <3>1
    <3> HIDE DEF Shares, Rooms
    <3> QED BY <1>5, <3>2
  <2> QED BY <2>3, <2>4
<1> HIDE DEF Good
<1>6. Bad = {}
  <2> SUFFICES ASSUME Bad # {} PROVE FALSE
    OBVIOUS
  <2>1. PICK k \in Bad : \A j \in Bad : ~(j < k)
    <3>1. Bad \in SUBSET Nat
      BY <1>1
    <3> HIDE DEF Bad
    <3> QED BY <3>1, LeastOf
  <2>2. k # 0 /\ k \in 0 .. n
    BY <1>4
  <2>3. k \in 1 .. n /\ k - 1 \in 0 .. n /\ k - 1 < k
    BY <1>1, <2>2
  <2>4. k - 1 \notin Bad
    BY <2>1, <2>3
  <2>5. Good(k - 1)
    BY <2>3, <2>4
  <2> QED BY <1>5, <2>3, <2>5
<1>7. Good(n)
  BY <1>1, <1>6
<1>8. Until(n) = OvernightCities(data)
  BY FirstNights
<1> QED BY <1>7, <1>8 DEF Good, HotelUnitCost

\* What the group shares and what each traveller pays are amounts.
LEMMA QuoteCents ==
  ASSUME NEW data, Settled(data)
  PROVE  /\ data.pax \subseteq Nat \ {0}
         /\ \A p \in data.pax : KnownPrice(data.quote.paxOther[p]) \in Nat
         /\ \A t \in VehicleTiers : VehicleTotal(data, t) \in Nat
         /\ GuideCost(data) \in Nat /\ StaffRoomTotal(data) \in Nat
         /\ DailyResourceCost(data) \in Nat
<1>0. \A price \in Cents : KnownPrice(price) \in Nat
  BY DEF KnownPrice, Cents
<1>1. data.pax \subseteq Nat \ {0}
  BY SettledFields, GroupSizesAssumption
<1>2. data.quote \in QuoteInput(data.quote) /\ QuoteSaved(data) = data.quote
  BY SettledFields DEF Settled
<1>3. /\ data.quote.paxOther = Filled(data.quote.paxOther, data.pax)
      /\ data.quote.rooms = Filled(data.quote.rooms, data.destinations)
  <2>1. /\ QuoteSaved(data).paxOther = Filled(data.quote.paxOther, data.pax)
        /\ QuoteSaved(data).rooms = Filled(data.quote.rooms, data.destinations)
    BY <1>2 DEF QuoteSaved, QuoteInput
  <2> QED BY <1>2, <2>1
<1>4. DOMAIN data.quote.paxOther = data.pax /\ DOMAIN data.quote.rooms = data.destinations
  <2>1. \A costs, keys : DOMAIN Filled(costs, keys) = keys
    BY DEF Filled
  <2> QED BY <1>3, <2>1
<1>5. /\ data.quote.paxOther \in [data.pax -> Cents]
      /\ data.quote.rooms \in [data.destinations -> Cents]
      /\ data.quote.other \in Cents
  BY <1>2, <1>4 DEF QuoteInput, Costs
<1>6. \A p \in data.pax : KnownPrice(data.quote.paxOther[p]) \in Nat
  BY <1>0, <1>5
<1>7. \A t \in VehicleTiers : VehicleTotal(data, t) \in Nat
  BY <1>0, SettledGroup DEF VehicleTotal
<1>8. GuideCost(data) \in Nat
  <2>1. CASE data.guide = Nothing
    BY <2>1 DEF GuideCost
  <2>2. CASE data.guide # Nothing
    <3>1. data.guide.price \in Cents
      BY <2>2, SettledFields DEF GuideInput
    <3>2. KnownPrice(data.guide.price) \in Nat /\ Len(data.days) \in Nat
      BY <1>0, <3>1, SettledFields, LenProperties
    <3> DEFINE price == KnownPrice(data.guide.price)
               n == Len(data.days)
    <3> HIDE DEF price, n
    <3>3. price * n \in Nat
      BY <3>2 DEF price, n
    <3> QED BY <2>2, <3>3 DEF GuideCost, price, n
  <2> QED BY <2>1, <2>2
<1>9. StaffRoomTotal(data) \in Nat
  <2> DEFINE f == [c \in data.destinations |-> KnownPrice(data.quote.rooms[c])]
  <2>1. f \in [data.destinations -> Nat]
    BY <1>0, <1>5
  <2>2. IsFiniteSet(data.destinations)
    BY SettledFields, FiniteAssumption, FS_Subset
  <2> HIDE DEF f
  <2>3. SumFunction(f) \in Nat
    BY <2>1, <2>2, SumOfCosts
  <2> QED BY <1>4, <2>3 DEF StaffRoomTotal, f
<1>10. DailyResourceCost(data) \in Nat
  <2> DEFINE S == ActiveItems(data)
             f == [i \in S |-> KnownPrice(ItemCost(data.items[i]))]
  <2>1. S \subseteq ItemNames /\ \A i \in S : data.items[i] \in ItemInput
    BY SettledFields DEF ActiveItems, Known
  <2>2. \A i \in S : KnownPrice(ItemCost(data.items[i])) \in Nat
    <3> SUFFICES ASSUME NEW i \in S PROVE KnownPrice(ItemCost(data.items[i])) \in Nat
      OBVIOUS
    <3> DEFINE item == data.items[i]
    <3>1. item.price \in Cents /\ item.diners \in (Nat \ {0}) \cup {Nothing}
      BY <2>1 DEF ItemInput
    <3> HIDE DEF item
    <3>2. ItemCost(item) \in Cents
      BY <3>1, Rounding DEF ItemCost, Cents
    <3> QED BY <1>0, <3>2 DEF item
  <2>3. IsFiniteSet(S)
    BY <2>1, FiniteAssumption, FS_Subset
  <2>4. f \in [S -> Nat]
    BY <2>2
  <2>5. SumFunction(f) \in Nat
    <3> HIDE DEF f, S
    <3> QED BY <2>3, <2>4, SumOfCosts
  <2>6. KnownPrice(data.quote.other) \in Nat
    BY <1>0, <1>5
  <2>7. DailyResourceCost(data) = KnownPrice(data.quote.other) + SumFunction(f)
    BY DEF DailyResourceCost
  <2> HIDE DEF f
  <2> QED BY <2>5, <2>6, <2>7
<1> QED BY <1>1, <1>6, <1>7, <1>8, <1>9, <1>10

\* What a traveller pays is an amount, and no more in a larger group for which the same
\* is paid besides.
LEMMA LargerGroupsPayNoMore ==
  ASSUME NEW data, Settled(data), NEW h \in HotelTiers, NEW t \in VehicleTiers,
         NEW p \in data.pax, NEW q \in data.pax, p < q,
         KnownPrice(data.quote.paxOther[p]) = KnownPrice(data.quote.paxOther[q])
  PROVE  BaseCost(data, <<h, t>>, q) <= BaseCost(data, <<h, t>>, p)
<1> DEFINE vehicle == VehicleTotal(data, t)
           guide == GuideCost(data)
           rooms == StaffRoomTotal(data)
           hotel == HotelUnitCost(data, h)
           daily == DailyResourceCost(data)
           other(x) == KnownPrice(data.quote.paxOther[x])
           Base(x) == hotel + daily + RoundedInteger(vehicle, x)
                      + (RoundedInteger(guide, x) + other(x)) + RoundedInteger(rooms, x)
<1>1. /\ p \in Nat \ {0} /\ q \in Nat \ {0}
      /\ vehicle \in Nat /\ guide \in Nat /\ rooms \in Nat /\ daily \in Nat
      /\ other(p) \in Nat /\ other(q) = other(p)
  BY QuoteCents
<1>2. hotel \in Nat
  <2>1. RoomCost(data, h, OvernightCities(data)) \in Nat
    BY FirstNights, RoomCostOfOneMore
  <2> QED BY <2>1, Rounding DEF HotelUnitCost
<1>3. BaseCost(data, <<h, t>>, p) = Base(p) /\ BaseCost(data, <<h, t>>, q) = Base(q)
  BY DEF BaseCost, SharedCost
<1> HIDE DEF vehicle, guide, rooms, hotel, daily, other
<1>4. /\ RoundedInteger(vehicle, q) <= RoundedInteger(vehicle, p)
      /\ RoundedInteger(guide, q) <= RoundedInteger(guide, p)
      /\ RoundedInteger(rooms, q) <= RoundedInteger(rooms, p)
  BY <1>1, LargerGroupPaysNoMore
<1>5. \A x \in {p, q} : /\ RoundedInteger(vehicle, x) \in Nat
                        /\ RoundedInteger(guide, x) \in Nat
                        /\ RoundedInteger(rooms, x) \in Nat
  BY <1>1, Rounding
<1>6. Base(q) <= Base(p)
  BY <1>1, <1>2, <1>4, <1>5
<1> QED BY <1>3, <1>6

\* The breakdown of every quote adds up, and a quote that may be generated misses nothing.
THEOREM QuotesSound == ItinerarySpec => []QuoteSound
<1>1. ItineraryInv => QuoteAddsUp
  <2> DEFINE quoted == Calculation(plan).options
  <2> SUFFICES ASSUME ItineraryInv, plan # Nothing, NEW o \in DOMAIN quoted
               PROVE  /\ SumFunction([c \in DOMAIN quoted[o].cities |->
                                         KnownPrice(quoted[o].cities[c].cost)])
                           = quoted[o].hotel
                      /\ \A c \in DOMAIN quoted[o].cities :
                            LET exact == KnownPrice(RoomPrice(plan, o[1], c)) * Nights(plan, c)
                            IN  2 * KnownPrice(quoted[o].cities[c].cost) - exact \in -1 .. 1
                      /\ \A p \in plan.pax :
                            2 * (p * SharedCost(plan, o[2], p).vehicle
                                 - VehicleTotal(plan, o[2])) \in (-p) .. p
                      /\ \A p, q \in plan.pax :
                            p < q /\ KnownPrice(plan.quote.paxOther[p])
                                       = KnownPrice(plan.quote.paxOther[q])
                            => quoted[o].pax[q].base <= quoted[o].pax[p].base
    BY DEF QuoteAddsUp
  <2>1. Settled(plan)
    BY DEF ItineraryInv
  <2>2. o \in DOMAIN plan.quote.options
    BY DEF Calculation
  <2>3. PICK h \in OfferedTiers(plan), t \in UsedVehicleTiers(plan) : o = <<h, t>>
    BY <2>1, <2>2, SettledOptions
  <2>4. h \in HotelTiers /\ t \in VehicleTiers
    BY DEF OfferedTiers, UsedVehicleTiers
  <2>5. /\ quoted[o].cities = HotelCityCosts(plan, h)
        /\ quoted[o].hotel = HotelUnitCost(plan, h)
        /\ \A p \in plan.pax : quoted[o].pax[p].base = BaseCost(plan, <<h, t>>, p)
    BY <2>2, <2>3 DEF Calculation, PaxPrice
  <2>6. DOMAIN HotelCityCosts(plan, h) = OvernightCities(plan)
    BY DEF HotelCityCosts
  <2> HIDE DEF quoted
  <2>7. SumFunction([c \in DOMAIN quoted[o].cities |-> KnownPrice(quoted[o].cities[c].cost)])
          = quoted[o].hotel
    BY <2>1, <2>4, <2>5, <2>6, SharesAddUp
  <2>8. ASSUME NEW c \in OvernightCities(plan)
        PROVE  2 * KnownPrice(quoted[o].cities[c].cost)
                 - KnownPrice(RoomPrice(plan, h, c)) * Nights(plan, c) \in -1 .. 1
    <3> DEFINE earlier == {x \in OvernightCities(plan) :
                              FirstNight(plan, x) < FirstNight(plan, c)}
               before == RoomCost(plan, h, earlier)
               after == RoomCost(plan, h, earlier \cup {c})
               share == KnownPrice(HotelCityCosts(plan, h)[c].cost)
               charge == Charge(plan, h, c)
    <3>1. /\ before \in Nat /\ after = charge + before
          /\ share = RoundedInteger(after, 2) - RoundedInteger(before, 2)
      BY <2>1, <2>4, CityShare
    <3>2. charge \in Nat
      BY <2>1, <2>4, FirstNights, ChargeCents
    <3> HIDE DEF before, after, share, charge
    <3>3. 2 * share - charge \in -1 .. 1
      BY <3>1, <3>2 DEF RoundedInteger
    <3> QED BY <2>5, <3>3 DEF share, charge, Charge
  <2>9. ASSUME NEW p \in plan.pax
        PROVE  2 * (p * SharedCost(plan, t, p).vehicle - VehicleTotal(plan, t)) \in (-p) .. p
    <3> DEFINE total == VehicleTotal(plan, t)
               r == RoundedInteger(total, p)
    <3>1. total \in Nat /\ p \in Nat \ {0}
      BY <2>1, <2>4, QuoteCents
    <3>2. SharedCost(plan, t, p).vehicle = r
      BY DEF SharedCost
    <3> HIDE DEF total
    <3>3. r \in Nat /\ 2 * (p * r) <= 2 * total + p /\ 2 * total < 2 * (p * r) + p
      BY <3>1, Rounding
    <3> HIDE DEF r
    <3> DEFINE m == p * r
    <3>4. m \in Nat
      BY <3>1, <3>3
    <3> HIDE DEF m
    <3>5. 2 * (m - total) \in (-p) .. p
      BY <3>1, <3>3, <3>4 DEF m
    <3> QED BY <3>2, <3>5 DEF m, total
  <2>10. ASSUME NEW p \in plan.pax, NEW q \in plan.pax, p < q,
                KnownPrice(plan.quote.paxOther[p]) = KnownPrice(plan.quote.paxOther[q])
         PROVE  quoted[o].pax[q].base <= quoted[o].pax[p].base
    <3>1. BaseCost(plan, <<h, t>>, q) <= BaseCost(plan, <<h, t>>, p)
      BY <2>1, <2>4, <2>10, LargerGroupsPayNoMore
    <3> QED BY <2>5, <3>1
  <2>11. o[1] = h /\ o[2] = t
    BY <2>3
  <2> QED BY <2>5, <2>6, <2>7, <2>8, <2>9, <2>10, <2>11
<1>2. QuoteSound <=> QuoteAddsUp /\ ReadyQuoteComplete
  BY DEF QuoteSound
<1> QED BY <1>1, <1>2, ItinerarySettled, ReadyQuotesComplete, PTL

-----------------------------------------------------------------------------
(* The prices that change.                                                 *)

\* The prices of a plan, by what they are the prices of.
LEMMA PriceKinds ==
  ASSUME NEW data, data # Nothing, NEW e \in PricesOf(data)
  PROVE  \/ \E m \in Known(data.items) :
               e = Priced(<<"item", m>>, FALSE, <<data.items[m].resource>>, data.items[m])
         \/ \E k \in Known(data.hotels) :
               e = Priced(<<"hotel", k>>, FALSE,
                          <<data.hotels[k].hotel, data.hotels[k].basis>>, data.hotels[k])
         \/ data.guide # Nothing
            /\ e = Priced(<<"guide", data.guide.city>>, FALSE, <<data.guide.guide>>,
                          data.guide)
         \/ \E t \in VehicleTiers :
               /\ data.vehicles[t].total # NoPrice
               /\ e = Priced(<<"vehicle", t>>, TRUE, <<data.vehicles[t].mode>>,
                             [price |-> data.vehicles[t].total,
                              reference |-> data.vehicles[t].segment,
                              reason |-> data.vehicles[t].reason])
BY DEF PricesOf

\* The price under a key, as the key says what it is the price of.
LEMMA PriceByKey ==
  ASSUME NEW data, data # Nothing, NEW e \in PricesOf(data)
  PROVE  /\ \A m : e.key = <<"item", m>> =>
               /\ m \in Known(data.items)
               /\ e = Priced(<<"item", m>>, FALSE, <<data.items[m].resource>>, data.items[m])
         /\ \A k : e.key = <<"hotel", k>> =>
               /\ k \in Known(data.hotels)
               /\ e = Priced(<<"hotel", k>>, FALSE,
                             <<data.hotels[k].hotel, data.hotels[k].basis>>, data.hotels[k])
         /\ \A c : e.key = <<"guide", c>> =>
               /\ data.guide # Nothing /\ c = data.guide.city
               /\ e = Priced(<<"guide", data.guide.city>>, FALSE, <<data.guide.guide>>,
                             data.guide)
         /\ \A t : e.key = <<"vehicle", t>> =>
               /\ t \in VehicleTiers /\ data.vehicles[t].total # NoPrice
               /\ e = Priced(<<"vehicle", t>>, TRUE, <<data.vehicles[t].mode>>,
                             [price |-> data.vehicles[t].total,
                              reference |-> data.vehicles[t].segment,
                              reason |-> data.vehicles[t].reason])
<1>1. CASE \E m \in Known(data.items) :
             e = Priced(<<"item", m>>, FALSE, <<data.items[m].resource>>, data.items[m])
  <2>1. PICK m \in Known(data.items) :
             e = Priced(<<"item", m>>, FALSE, <<data.items[m].resource>>, data.items[m])
    BY <1>1
  <2>2. e.key = <<"item", m>>
    BY <2>1 DEF Priced
  <2>3. \A x : /\ e.key = <<"item", x>> => x = m
               /\ e.key # <<"hotel", x>> /\ e.key # <<"guide", x>> /\ e.key # <<"vehicle", x>>
    BY <2>2
  <2> QED BY <2>1, <2>3
<1>2. CASE \E k \in Known(data.hotels) :
             e = Priced(<<"hotel", k>>, FALSE,
                        <<data.hotels[k].hotel, data.hotels[k].basis>>, data.hotels[k])
  <2>1. PICK k \in Known(data.hotels) :
             e = Priced(<<"hotel", k>>, FALSE,
                        <<data.hotels[k].hotel, data.hotels[k].basis>>, data.hotels[k])
    BY <1>2
  <2>2. e.key = <<"hotel", k>>
    BY <2>1 DEF Priced
  <2>3. \A x : /\ e.key = <<"hotel", x>> => x = k
               /\ e.key # <<"item", x>> /\ e.key # <<"guide", x>> /\ e.key # <<"vehicle", x>>
    BY <2>2
  <2> QED BY <2>1, <2>3
<1>3. CASE data.guide # Nothing
           /\ e = Priced(<<"guide", data.guide.city>>, FALSE, <<data.guide.guide>>,
                         data.guide)
  <2>1. e.key = <<"guide", data.guide.city>>
    BY <1>3 DEF Priced
  <2>2. \A x : /\ e.key = <<"guide", x>> => x = data.guide.city
               /\ e.key # <<"item", x>> /\ e.key # <<"hotel", x>> /\ e.key # <<"vehicle", x>>
    BY <2>1
  <2> QED BY <1>3, <2>2
<1>4. CASE \E t \in VehicleTiers :
             /\ data.vehicles[t].total # NoPrice
             /\ e = Priced(<<"vehicle", t>>, TRUE, <<data.vehicles[t].mode>>,
                           [price |-> data.vehicles[t].total,
                            reference |-> data.vehicles[t].segment,
                            reason |-> data.vehicles[t].reason])
  <2>1. PICK t \in VehicleTiers :
             /\ data.vehicles[t].total # NoPrice
             /\ e = Priced(<<"vehicle", t>>, TRUE, <<data.vehicles[t].mode>>,
                           [price |-> data.vehicles[t].total,
                            reference |-> data.vehicles[t].segment,
                            reason |-> data.vehicles[t].reason])
    BY <1>4
  <2>2. e.key = <<"vehicle", t>>
    BY <2>1 DEF Priced
  <2>3. \A x : /\ e.key = <<"vehicle", x>> => x = t
               /\ e.key # <<"item", x>> /\ e.key # <<"hotel", x>> /\ e.key # <<"guide", x>>
    BY <2>2
  <2> QED BY <2>1, <2>3
<1> QED BY <1>1, <1>2, <1>3, <1>4, PriceKinds

\* A plan has one price under a key.
LEMMA OnePrice ==
  ASSUME NEW data, data # Nothing, NEW e \in PricesOf(data), NEW d \in PricesOf(data),
         e.key = d.key
  PROVE  e = d
<1>1. \E x : e.key \in {<<"item", x>>, <<"hotel", x>>, <<"guide", x>>, <<"vehicle", x>>}
  <2>1. \/ \E m \in Known(data.items) : e.key = <<"item", m>>
        \/ \E k \in Known(data.hotels) : e.key = <<"hotel", k>>
        \/ e.key = <<"guide", data.guide.city>>
        \/ \E t \in VehicleTiers : e.key = <<"vehicle", t>>
    BY PriceKinds DEF Priced
  <2> QED BY <2>1
<1>2. PICK x : e.key \in {<<"item", x>>, <<"hotel", x>>, <<"guide", x>>, <<"vehicle", x>>}
  BY <1>1
<1>3. CASE e.key = <<"item", x>>
  <2> DEFINE entry == Priced(<<"item", x>>, FALSE, <<data.items[x].resource>>, data.items[x])
  <2>1. e = entry
    BY <1>3, PriceByKey
  <2>2. d.key = <<"item", x>>
    BY <1>3
  <2>3. d = entry
    BY <2>2, PriceByKey
  <2> HIDE DEF entry
  <2> QED BY <2>1, <2>3
<1>4. CASE e.key = <<"hotel", x>>
  <2> DEFINE entry == Priced(<<"hotel", x>>, FALSE,
                            <<data.hotels[x].hotel, data.hotels[x].basis>>, data.hotels[x])
  <2>1. e = entry
    BY <1>4, PriceByKey
  <2>2. d.key = <<"hotel", x>>
    BY <1>4
  <2>3. d = entry
    BY <2>2, PriceByKey
  <2> HIDE DEF entry
  <2> QED BY <2>1, <2>3
<1>5. CASE e.key = <<"guide", x>>
  <2> DEFINE entry == Priced(<<"guide", data.guide.city>>, FALSE, <<data.guide.guide>>, data.guide)
  <2>1. e = entry
    BY <1>5, PriceByKey
  <2>2. d.key = <<"guide", x>>
    BY <1>5
  <2>3. d = entry
    BY <2>2, PriceByKey
  <2> HIDE DEF entry
  <2> QED BY <2>1, <2>3
<1>6. CASE e.key = <<"vehicle", x>>
  <2> DEFINE entry == Priced(<<"vehicle", x>>, TRUE, <<data.vehicles[x].mode>>,
                            [price |-> data.vehicles[x].total,
                             reference |-> data.vehicles[x].segment,
                             reason |-> data.vehicles[x].reason])
  <2>1. e = entry
    BY <1>6, PriceByKey
  <2>2. d.key = <<"vehicle", x>>
    BY <1>6
  <2>3. d = entry
    BY <2>2, PriceByKey
  <2> HIDE DEF entry
  <2> QED BY <2>1, <2>3
<1> QED BY <1>2, <1>3, <1>4, <1>5, <1>6

\* The selection and the price under a key.
LEMMA PriceUnder ==
  ASSUME NEW data, data # Nothing, NEW e \in PricesOf(data), NEW x
  PROVE  /\ e.key = <<"item", x>> =>
               /\ x \in Known(data.items) /\ e.source = <<data.items[x].resource>>
               /\ e.price = data.items[x].price
         /\ e.key = <<"hotel", x>> =>
               /\ x \in Known(data.hotels)
               /\ e.source = <<data.hotels[x].hotel, data.hotels[x].basis>>
               /\ e.price = data.hotels[x].price
         /\ e.key = <<"guide", x>> =>
               /\ data.guide # Nothing /\ e.source = <<data.guide.guide>>
               /\ e.price = data.guide.price
         /\ e.key = <<"vehicle", x>> => e.price = data.vehicles[x].total
<1>1. CASE e.key = <<"item", x>>
  <2> DEFINE entry(m) == Priced(<<"item", m>>, FALSE, <<data.items[m].resource>>, data.items[m])
  <2>1. \A m : e.key = <<"item", m>> => m \in Known(data.items) /\ e = entry(m)
    BY PriceByKey
  <2>2. x \in Known(data.items) /\ e = entry(x)
    BY <1>1, <2>1
  <2>3. e.source = <<data.items[x].resource>> /\ e.price = data.items[x].price
    BY <2>2 DEF Priced
  <2>4. e.key # <<"hotel", x>> /\ e.key # <<"guide", x>> /\ e.key # <<"vehicle", x>>
    BY <1>1
  <2> HIDE DEF entry
  <2> QED BY <2>2, <2>3, <2>4
<1>2. CASE e.key = <<"hotel", x>>
  <2> DEFINE entry(k) == Priced(<<"hotel", k>>, FALSE,
                               <<data.hotels[k].hotel, data.hotels[k].basis>>, data.hotels[k])
  <2>1. \A k : e.key = <<"hotel", k>> => k \in Known(data.hotels) /\ e = entry(k)
    BY PriceByKey
  <2>2. x \in Known(data.hotels) /\ e = entry(x)
    BY <1>2, <2>1
  <2>3. /\ e.source = <<data.hotels[x].hotel, data.hotels[x].basis>>
        /\ e.price = data.hotels[x].price
    BY <2>2 DEF Priced
  <2>4. e.key # <<"item", x>> /\ e.key # <<"guide", x>> /\ e.key # <<"vehicle", x>>
    BY <1>2
  <2> HIDE DEF entry
  <2> QED BY <2>2, <2>3, <2>4
<1>3. CASE e.key = <<"guide", x>>
  <2> DEFINE entry == Priced(<<"guide", data.guide.city>>, FALSE, <<data.guide.guide>>, data.guide)
  <2>1. data.guide # Nothing
    BY <1>3, PriceByKey
  <2>2. e = entry
    BY <1>3, PriceByKey
  <2>3. e.source = <<data.guide.guide>> /\ e.price = data.guide.price
    BY <2>2 DEF Priced
  <2> HIDE DEF entry
  <2> QED BY <1>3, <2>1, <2>3
<1>4. CASE e.key = <<"vehicle", x>>
  <2> DEFINE entry(v) == Priced(<<"vehicle", v>>, TRUE, <<data.vehicles[v].mode>>,
                               [price |-> data.vehicles[v].total,
                                reference |-> data.vehicles[v].segment,
                                reason |-> data.vehicles[v].reason])
  <2>1. \A v : e.key = <<"vehicle", v>> =>
              v \in VehicleTiers /\ data.vehicles[v].total # NoPrice /\ e = entry(v)
    BY PriceByKey
  <2>2. e = entry(x)
    BY <1>4, <2>1
  <2>3. e.price = data.vehicles[x].total
    BY <2>2 DEF Priced
  <2> QED BY <1>4, <2>3
<1> QED BY <1>1, <1>2, <1>3, <1>4

\* The price of a selection that a save changes has the reason that came with it; a
\* vehicle price needs none when it follows or meets its segments.
LEMMA ChangeExplained ==
  ASSUME CatalogueType, NEW old, old # Nothing, Settled(old),
         NEW new, ItineraryInput(new), Acceptable(new, old),
         NEW saved, saved # Nothing, saved = Normalized(new, old),
         NEW e \in PricesOf(saved), NEW was \in PricesOf(old), e.key = was.key,
         was.price # NoPrice, e.price \notin {NoPrice, was.price},
         e.source = was.source \/ e.vehicle
  PROVE  \/ e.reason # Blank
         \/ e.vehicle /\ (e.source = <<"automatic">> \/ Restored(e.price, e.reference))
<1>1. /\ saved.items = ItemsSaved(new, old) /\ saved.hotels = HotelsSaved(new, old)
      /\ saved.vehicles = [t \in VehicleTiers |-> GroupSaved(new, old, t)]
      /\ saved.guide = GuideSaved(new, old)
  BY InputFields, NormalizedFields
<1>2. /\ ItemsOk(new, old) /\ HotelsOk(new, old) /\ GuideOk(new, old)
      /\ \A t \in VehicleTiers : GroupOk(new, old, t)
  BY DEF Acceptable
<1>3. CASE \E m \in Known(saved.items) :
             e = Priced(<<"item", m>>, FALSE, <<saved.items[m].resource>>, saved.items[m])
  <2>1. PICK m \in Known(saved.items) :
             e = Priced(<<"item", m>>, FALSE, <<saved.items[m].resource>>, saved.items[m])
    BY <1>3
  <2>2. /\ e.key = <<"item", m>> /\ ~e.vehicle /\ e.source = <<saved.items[m].resource>>
        /\ e.price = saved.items[m].price /\ e.reason = saved.items[m].reason
    BY <2>1 DEF Priced
  <2>3. was.key = <<"item", m>>
    BY <2>2
  <2>4. m \in Known(old.items) /\ was.source = <<old.items[m].resource>>
        /\ was.price = old.items[m].price
    BY <2>3, PriceUnder
  <2>5. m \in Known(new.items)
    BY <1>1, <1>2, <2>1, ItemsSavedType
  <2> DEFINE item == new.items[m]
             before == OldItem(new, old, m)
             ref == ItemReference(new, old, m)
  <2>6. saved.items[m].resource = item.resource /\ saved.items[m].price = item.price
    <3>1. ItemsSaved(new, old)[m].resource = item.resource
      BY ONLY CatalogueType, ItineraryInput(new), Settled(old), <1>2, <2>5, ItemSaved
    <3>2. ItemsSaved(new, old)[m].price = item.price
      BY ONLY CatalogueType, ItineraryInput(new), Settled(old), <1>2, <2>5, ItemSaved
    <3> QED BY <1>1, <3>1, <3>2
  <2>7. saved.items[m].reason = ReasonKept(item.price, PriceBefore(before), ref, FALSE,
                                           item.reason, ReasonBefore(before))
    <3>1. ItemsSaved(new, old)[m].reason
            = ReasonKept(item.price, PriceBefore(before), ref, FALSE, item.reason,
                         ReasonBefore(before))
      BY ONLY CatalogueType, ItineraryInput(new), Settled(old), <1>2, <2>5, ItemSaved
    <3> QED BY <1>1, <3>1
  <2>8. old.items[m] # Nothing /\ old.items[m].resource = item.resource
    <3>1. <<saved.items[m].resource>> = <<old.items[m].resource>>
      BY <2>2, <2>4
    <3> QED BY <2>4, <2>6, <3>1 DEF Known
  <2>9. PriceBefore(before) = was.price
    BY <2>4, <2>8 DEF OldItem, PriceBefore
  <2>10. ReasonGiven(item.price, PriceBefore(before), ref, FALSE, item.reason)
    BY <1>2, <2>5 DEF ItemsOk
  <2>11. item.price # NoPrice /\ PriceBefore(before) # NoPrice
         /\ item.price # PriceBefore(before)
    BY <2>2, <2>6, <2>9
  <2> HIDE DEF item, before, ref
  <2>12. saved.items[m].reason # Blank
    BY <2>7, <2>10, <2>11 DEF ReasonGiven, ReasonKept, NeedsReason, Changed
  <2> QED BY <2>2, <2>12
<1>4. CASE \E k \in Known(saved.hotels) :
             e = Priced(<<"hotel", k>>, FALSE,
                        <<saved.hotels[k].hotel, saved.hotels[k].basis>>, saved.hotels[k])
  <2>1. PICK k \in Known(saved.hotels) :
             e = Priced(<<"hotel", k>>, FALSE,
                        <<saved.hotels[k].hotel, saved.hotels[k].basis>>, saved.hotels[k])
    BY <1>4
  <2>2. /\ e.key = <<"hotel", k>> /\ ~e.vehicle
        /\ e.source = <<saved.hotels[k].hotel, saved.hotels[k].basis>>
        /\ e.price = saved.hotels[k].price /\ e.reason = saved.hotels[k].reason
    BY <2>1 DEF Priced
  <2>3. was.key = <<"hotel", k>>
    BY <2>2
  <2>4. k \in Known(old.hotels)
        /\ was.source = <<old.hotels[k].hotel, old.hotels[k].basis>>
        /\ was.price = old.hotels[k].price
    BY <2>3, PriceUnder
  <2> DEFINE hotel == new.hotels[k]
             before == HotelPriceBefore(new, old, k)
             ref == HotelReference(new, old, k)
  <2>5. /\ k \in Known(new.hotels)
        /\ saved.hotels[k].hotel = hotel.hotel /\ saved.hotels[k].basis = hotel.basis
        /\ saved.hotels[k].price = hotel.price
    <3> DEFINE hotels == HotelsSaved(new, old)
    <3>1. Known(hotels) = Known(new.hotels) /\ k \in Known(hotels)
      BY <1>1, <1>2, <2>1, HotelsSavedType
    <3>2. hotels[k].hotel = hotel.hotel
      BY ONLY CatalogueType, ItineraryInput(new), Settled(old), <1>2, <3>1,
              HotelsSavedType, ZenonT(60)
    <3>5. hotels[k].basis = hotel.basis
      BY ONLY CatalogueType, ItineraryInput(new), Settled(old), <1>2, <3>1,
              HotelsSavedType, ZenonT(60)
    <3>3. hotels[k].price = hotel.price
      BY ONLY CatalogueType, ItineraryInput(new), Settled(old), <1>2, <3>1,
              HotelsSavedType, ZenonT(60)
    <3> HIDE DEF hotels
    <3>4. saved.hotels = hotels
      BY <1>1 DEF hotels
    <3> QED BY <3>1, <3>2, <3>3, <3>4, <3>5
  <2>6. saved.hotels[k].reason = ReasonKept(hotel.price, before, ref, FALSE, hotel.reason,
                                            ReasonBefore(OldHotel(new, old, k)))
    <3> DEFINE hotels == HotelsSaved(new, old)
    <3>1. k \in Known(hotels)
      BY <1>1, <2>1
    <3>2. hotels[k].reason = ReasonKept(hotel.price, before, ref, FALSE, hotel.reason,
                                        ReasonBefore(OldHotel(new, old, k)))
      BY ONLY CatalogueType, ItineraryInput(new), Settled(old), <1>2, <3>1, HotelsSavedType
    <3> QED BY <1>1, <3>2
  <2>7. /\ old.hotels[k] # Nothing /\ old.hotels[k].hotel = hotel.hotel
        /\ old.hotels[k].basis = hotel.basis
    <3>1. <<saved.hotels[k].hotel, saved.hotels[k].basis>>
            = <<old.hotels[k].hotel, old.hotels[k].basis>>
      BY <2>2, <2>4
    <3> QED BY <2>4, <2>5, <3>1 DEF Known
  <2>8. before = was.price
    BY <2>4, <2>7 DEF OldHotel, SameBasis, HotelPriceBefore
  <2>9. ReasonGiven(hotel.price, before, ref, FALSE, hotel.reason)
    BY <1>2, <2>5 DEF HotelsOk
  <2>10. hotel.price # NoPrice /\ before # NoPrice /\ hotel.price # before
    BY <2>2, <2>5, <2>8
  <2> HIDE DEF hotel, before, ref
  <2>11. saved.hotels[k].reason # Blank
    BY <2>6, <2>9, <2>10 DEF ReasonGiven, ReasonKept, NeedsReason, Changed
  <2> QED BY <2>2, <2>11
<1>5. CASE saved.guide # Nothing
           /\ e = Priced(<<"guide", saved.guide.city>>, FALSE, <<saved.guide.guide>>,
                         saved.guide)
  <2>1. /\ e.key = <<"guide", saved.guide.city>> /\ ~e.vehicle
        /\ e.source = <<saved.guide.guide>>
        /\ e.price = saved.guide.price /\ e.reason = saved.guide.reason
    BY <1>5 DEF Priced
  <2>2. was.key = <<"guide", saved.guide.city>>
    BY <2>1
  <2>3. old.guide # Nothing /\ was.source = <<old.guide.guide>>
        /\ was.price = old.guide.price
    BY <2>2, PriceUnder
  <2> DEFINE guide == new.guide
             before == OldGuide(new, old)
             ref == GuideReference(new, old)
  <2>4. saved.guide.guide = guide.guide /\ saved.guide.price = guide.price
    <3>1. GuideSaved(new, old) # Nothing
      BY <1>1, <1>5
    <3>2. GuideSaved(new, old).guide = guide.guide
      BY ONLY CatalogueType, ItineraryInput(new), Settled(old), <1>2, <3>1, GuideSavedType
    <3>3. GuideSaved(new, old).price = guide.price
      BY ONLY CatalogueType, ItineraryInput(new), Settled(old), <1>2, <3>1, GuideSavedType
    <3> QED BY <1>1, <3>2, <3>3
  <2>5. /\ saved.guide.reason = ReasonKept(guide.price, PriceBefore(before), ref, FALSE,
                                           guide.reason, ReasonBefore(before))
        /\ ReasonGiven(guide.price, PriceBefore(before), ref, FALSE, guide.reason)
    <3>1. GuideSaved(new, old) # Nothing
      BY <1>1, <1>5
    <3>2. GuideSaved(new, old).reason
            = ReasonKept(guide.price, PriceBefore(before), ref, FALSE, guide.reason,
                         ReasonBefore(before))
      BY ONLY CatalogueType, ItineraryInput(new), Settled(old), <1>2, <3>1, GuideSavedType
    <3>3. ReasonGiven(guide.price, PriceBefore(before), ref, FALSE, guide.reason)
      BY ONLY CatalogueType, ItineraryInput(new), Settled(old), <1>2, <3>1, GuideSavedType
    <3> QED BY <1>1, <3>2, <3>3
  <2>6. old.guide.guide = guide.guide
    <3>1. <<saved.guide.guide>> = <<old.guide.guide>>
      BY <2>1, <2>3
    <3> QED BY <2>4, <3>1
  <2>7. PriceBefore(before) = was.price
    BY <2>2, <2>3, <2>6 DEF OldGuide, PriceBefore
  <2>8. guide.price # NoPrice /\ PriceBefore(before) # NoPrice
        /\ guide.price # PriceBefore(before)
    BY <2>1, <2>4, <2>7
  <2> HIDE DEF guide, before, ref
  <2>9. saved.guide.reason # Blank
    BY <2>5, <2>8 DEF ReasonGiven, ReasonKept, NeedsReason, Changed
  <2> QED BY <2>1, <2>9
<1>6. CASE \E t \in VehicleTiers :
             /\ saved.vehicles[t].total # NoPrice
             /\ e = Priced(<<"vehicle", t>>, TRUE, <<saved.vehicles[t].mode>>,
                           [price |-> saved.vehicles[t].total,
                            reference |-> saved.vehicles[t].segment,
                            reason |-> saved.vehicles[t].reason])
  <2>1. PICK t \in VehicleTiers :
             /\ saved.vehicles[t].total # NoPrice
             /\ e = Priced(<<"vehicle", t>>, TRUE, <<saved.vehicles[t].mode>>,
                           [price |-> saved.vehicles[t].total,
                            reference |-> saved.vehicles[t].segment,
                            reason |-> saved.vehicles[t].reason])
    BY <1>6
  <2> DEFINE group == GroupSaved(new, old, t)
  <2>2. saved.vehicles[t] = group
    BY <1>1
  <2>3. /\ e.key = <<"vehicle", t>> /\ e.vehicle /\ e.source = <<group.mode>>
        /\ e.price = group.total /\ e.reference = group.segment /\ e.reason = group.reason
    BY <2>1, <2>2 DEF Priced
  <2>4. was.key = <<"vehicle", t>>
    BY <2>3
  <2>5. was.price = old.vehicles[t].total /\ OldGroup(old, t) = old.vehicles[t]
    BY <2>4, PriceUnder DEF OldGroup
  <2>6. CASE group.mode = "automatic"
    BY <2>3, <2>6
  <2>7. CASE group.mode # "automatic"
    <3>1. GroupOk(new, old, t)
      BY <1>2
    <3>2. group.total # NoPrice /\ old.vehicles[t].total # NoPrice
          /\ group.total # old.vehicles[t].total
      BY <2>3, <2>5
    <3>3. /\ group.reason = ReasonKept(group.total, old.vehicles[t].total, group.segment,
                                       TRUE, new.vehicles[t].reason, old.vehicles[t].reason)
          /\ ReasonGiven(group.total, old.vehicles[t].total, group.segment, TRUE,
                         new.vehicles[t].reason)
      <4> DEFINE before == OldGroup(old, t)
      <4>1. group.reason = ReasonKept(group.total, before.total, group.segment, TRUE,
                                      new.vehicles[t].reason, before.reason)
        BY <2>5, <2>7, <3>1, <3>2, GroupSavedType, ZenonT(60)
      <4>2. ReasonGiven(group.total, before.total, group.segment, TRUE,
                        new.vehicles[t].reason)
        BY <2>5, <2>7, <3>1, <3>2, GroupSavedType, ZenonT(60)
      <4> HIDE DEF group
      <4> QED BY <2>5, <4>1, <4>2
    <3> HIDE DEF group
    <3>4. ~Restored(group.total, group.segment) => group.reason # Blank
      BY <3>2, <3>3 DEF ReasonGiven, ReasonKept, NeedsReason, Changed
    <3> QED BY <2>3, <3>4
  <2> QED BY <2>6, <2>7
<1> QED BY <1>3, <1>4, <1>5, <1>6, PriceKinds

\* What is recorded of a price that changes: the row has the price before, the price
\* after and the reason of the plan.
LEMMA ChangeRecorded ==
  ASSUME NEW old, old # Nothing, NEW saved, NEW e \in PricesOf(saved),
         NEW was \in Before(old, e.key), e.price \notin {NoPrice, was.price},
         e.source = was.source \/ e.vehicle
  PROVE  \E a \in Adjustments(saved, old) :
            /\ a.key = e.key /\ a.before = was.price /\ a.after = e.price
            /\ a.reason = e.reason
            /\ Restored(e.price, e.reference) => a.action = "restored"
<1>1. \A b \in Before(old, e.key) : b = was
  BY OnePrice DEF Before
<1>2. Recorded(e, Before(old, e.key))
  BY <1>1 DEF Recorded
<1>3. Before(old, e.key) # {} /\ (CHOOSE b \in Before(old, e.key) : TRUE) = was
  BY <1>1
<1> DEFINE row == [key    |-> e.key,
                   before |-> IF Before(old, e.key) = {} THEN NoPrice
                              ELSE (CHOOSE b \in Before(old, e.key) : TRUE).price,
                   after  |-> e.price,
                   reason |-> e.reason,
                   action |-> IF Restored(e.price, e.reference) THEN "restored"
                              ELSE IF Before(old, e.key) = {} THEN "initial" ELSE "adjusted"]
<1>4. row \in Adjustments(saved, old)
  BY <1>2 DEF Adjustments
<1>5. /\ row.key = e.key /\ row.before = was.price /\ row.after = e.price
      /\ row.reason = e.reason
      /\ Restored(e.price, e.reference) => row.action = "restored"
  BY <1>3
<1> HIDE DEF row
<1> QED BY <1>4, <1>5

\* No price of a selection changes without a row in the adjustments that has both
\* prices, and a reason unless a vehicle price follows its segments.
THEOREM ChangesRecorded == ItinerarySpec => NoSilentPriceChange
<1> DEFINE Told ==
      \A e \in PricesOf(plan') : \A was \in Before(plan, e.key) :
         e.price \notin {NoPrice, was.price} /\ (e.source = was.source \/ e.vehicle)
         => \E a \in adjustments' :
               /\ a.key = e.key /\ a.before = was.price /\ a.after = e.price
               /\ \/ a.reason # Blank
                  \/ e.vehicle /\ (e.source = <<"automatic">> \/ a.action = "restored")
<1>1. ItineraryInv /\ [ItineraryNext]_itineraryVars => [Told]_itineraryVars
  <2> SUFFICES ASSUME ItineraryInv, [ItineraryNext]_itineraryVars,
                      NEW e \in PricesOf(plan'), NEW was \in Before(plan, e.key),
                      e.price \notin {NoPrice, was.price}, e.source = was.source \/ e.vehicle
               PROVE  \E a \in adjustments' :
                         /\ a.key = e.key /\ a.before = was.price /\ a.after = e.price
                         /\ \/ a.reason # Blank
                            \/ /\ e.vehicle
                               /\ e.source = <<"automatic">> \/ a.action = "restored"
    OBVIOUS
  <2>1. plan # Nothing /\ plan' # Nothing
    BY DEF Before, PricesOf
  <2>2. was \in PricesOf(plan) /\ was.key = e.key /\ was.price # NoPrice
    BY DEF Before
  <2>3. CASE UNCHANGED plan
    <3>1. e \in PricesOf(plan)
      BY <2>3
    <3>2. e = was
      BY <2>1, <2>2, <3>1, OnePrice
    <3> QED BY <3>2
  <2>4. CASE CreatePlan \/ SavePlan
    <3>1. PICK new : /\ ItineraryInput(new) /\ Acceptable(new, plan)
                     /\ plan' = Normalized(new, plan)
                     /\ adjustments' = Adjustments(plan', plan)
      BY <2>4, PlanSaved
    <3>2. CatalogueType /\ Settled(plan)
      BY <2>1 DEF ItineraryInv
    <3>3. \/ e.reason # Blank
          \/ e.vehicle /\ (e.source = <<"automatic">> \/ Restored(e.price, e.reference))
      BY <2>1, <2>2, <3>1, <3>2, ChangeExplained
    <3>4. PICK a \in Adjustments(plan', plan) :
             /\ a.key = e.key /\ a.before = was.price /\ a.after = e.price
             /\ a.reason = e.reason
             /\ Restored(e.price, e.reference) => a.action = "restored"
      BY <2>1, ChangeRecorded
    <3> QED BY <3>1, <3>3, <3>4
  <2> QED BY <2>3, <2>4 DEF ItineraryNext, EditCatalogue, itineraryVars
<1>2. ItinerarySpec => [][Told]_itineraryVars
  BY <1>1, ItinerarySettled, PTL DEF ItinerarySpec
<1> QED BY <1>2 DEF NoSilentPriceChange

=============================================================================
