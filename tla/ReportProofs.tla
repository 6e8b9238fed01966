---------------------------- MODULE ReportProofs ----------------------------
(***************************************************************************)
(* The report of a website itinerary is sound, for any days, prices and    *)
(* destinations: what may be confirmed is a trip that can be made, and     *)
(* what the customer reads adds up.                                        *)
(*                                                                         *)
(* The report is made of folds.  Each is unfolded once, into the sequence  *)
(* of its intermediate results; an invariant of these results, by          *)
(* induction over their number, says what the fold returns.                *)
(***************************************************************************)
EXTENDS BackOffice, FiniteSetTheorems, SequenceTheorems, WellFoundedInduction, TLAPS

-----------------------------------------------------------------------------
(* Induction and folds *)

\* The smallest of a set of numbers.
LEMMA Smallest ==
  ASSUME NEW s, s \subseteq Nat, s # {}
  PROVE  Min(s) \in s /\ \A y \in s : Min(s) <= y
<1>1. PICK k \in s : \A j \in s : <<j, k>> \notin OpToRel(<, Nat)
  BY NatLessThanWellFounded, WFMin
<1>2. \A j \in s : ~(j < k)
  BY <1>1 DEF OpToRel
<1>3. \A j \in s : k <= j
  <2> TAKE j \in s
  <2>1. j \in Nat /\ k \in Nat
    OBVIOUS
  <2> QED BY <1>2, <2>1
<1> QED BY <1>3 DEF Min

\* Induction up to a bound.
LEMMA UpTo ==
  ASSUME NEW n \in Nat, NEW P, 0 \in P,
         \A k \in 0 .. n : k + 1 \in 0 .. n => (k \in P => k + 1 \in P)
  PROVE  \A k \in 0 .. n : k \in P
<1> DEFINE bad == {k \in 0 .. n : k \notin P}
<1> SUFFICES ASSUME bad # {} PROVE FALSE
  OBVIOUS
<1>1. PICK k \in bad : \A j \in bad : k <= j
  <2>1. bad \subseteq Nat
    OBVIOUS
  <2>2. Min(bad) \in bad /\ \A j \in bad : Min(bad) <= j
    <3> HIDE DEF bad
    <3> QED BY <2>1, Smallest
  <2> HIDE DEF bad
  <2> QED BY <2>2
<1>2. k # 0 /\ k - 1 \in 0 .. n /\ k - 1 \notin bad
  BY <1>1
<1> QED BY <1>1, <1>2

\* Induction over the subsets of a finite set: a set of subsets that has each one whose
\* strict subsets it has, has them all.
LEMMA OverSubsets ==
  ASSUME NEW S, IsFiniteSet(S), NEW P,
         \A s \in SUBSET S : (\A u \in SUBSET s : u # s => u \in P) => s \in P
  PROVE  \A s \in SUBSET S : s \in P
<1> DEFINE T == {s \in SUBSET S : s \notin P}
<1>1. T \subseteq FiniteSubsetsOf(S)
  BY FS_Subset DEF FiniteSubsetsOf
<1>2. SUFFICES ASSUME T # {} PROVE FALSE
  OBVIOUS
<1>3. PICK s \in T : \A r \in T : <<r, s>> \notin StrictSubsetOrdering(S)
  <2> HIDE DEF T
  <2> QED BY <1>1, <1>2, FS_StrictSubsetOrderingWellFounded, WFMin
<1>4. ASSUME NEW u \in SUBSET s, u # s
      PROVE  u \in P
  <2>1. <<u, s>> \in StrictSubsetOrdering(S)
    BY <1>4 DEF StrictSubsetOrdering
  <2> QED BY <1>3, <2>1
<1> QED BY <1>4

\* The largest of a finite set of numbers.
LEMMA Largest ==
  ASSUME NEW s, s \subseteq Nat, IsFiniteSet(s), s # {}
  PROVE  Max(s) \in s /\ \A y \in s : Max(s) >= y
<1> DEFINE P == {t \in SUBSET s : t # {} => \E x \in t : \A y \in t : x >= y}
<1>1. ASSUME NEW t \in SUBSET s, \A u \in SUBSET t : u # t => u \in P
      PROVE  t \in P
  <2>1. SUFFICES ASSUME NEW x \in t PROVE \E z \in t : \A y \in t : z >= y
    OBVIOUS
  <2>2. CASE t \ {x} = {}
    BY <2>2
  <2>3. CASE t \ {x} # {}
    <3>0. t \ {x} \in P
      <4>1. t \ {x} \in SUBSET t /\ t \ {x} # t
        OBVIOUS
      <4> HIDE DEF P
      <4> QED BY <1>1, <4>1
    <3>1. PICK z \in t \ {x} : \A y \in t \ {x} : z >= y
      BY <2>3, <3>0
    <3>2. x \in Nat /\ z \in Nat
      OBVIOUS
    <3>3. CASE z >= x
      BY <3>1, <3>3
    <3>4. CASE x > z
      <4>1. \A y \in t : x >= y
        <5> TAKE y \in t
        <5>1. y \in Nat
          OBVIOUS
        <5> HIDE DEF P
        <5> QED BY <3>1, <3>2, <3>4, <5>1
      <4> QED BY <4>1
    <3> QED BY <3>2, <3>3, <3>4
  <2> QED BY <2>2, <2>3
<1> HIDE DEF P
<1>2. s \in P
  BY <1>1, OverSubsets
<1>3. \E x \in s : \A y \in s : x >= y
  BY <1>2 DEF P
<1> QED BY <1>3 DEF Max

Numbers(s) == s \subseteq Nat /\ IsFiniteSet(s)

\* A left fold takes the largest index off, each time.
Folds(g, step, base, S) ==
    g = [s \in SUBSET S |-> IF s = {} THEN base ELSE step[<<g[s \ {Max(s)}], Max(s)>>]]

\* Two such functions agree on the sets that both have.
LEMMA FoldsAgree ==
  ASSUME NEW S, NEW step, NEW base, NEW g, Folds(g, step, base, S),
         NEW T, T \subseteq S, Numbers(T), NEW h, Folds(h, step, base, T)
  PROVE  \A s \in SUBSET T : g[s] = h[s]
<1> DEFINE P == {s \in SUBSET T : g[s] = h[s]}
<1>1. ASSUME NEW s \in SUBSET T, \A u \in SUBSET s : u # s => u \in P
      PROVE  s \in P
  <2>0. /\ g[s] = IF s = {} THEN base ELSE step[<<g[s \ {Max(s)}], Max(s)>>]
        /\ h[s] = IF s = {} THEN base ELSE step[<<h[s \ {Max(s)}], Max(s)>>]
    BY DEF Folds
  <2>1. CASE s = {}
    BY <2>0, <2>1
  <2>2. CASE s # {}
    <3>1. Max(s) \in s
      <4>1. IsFiniteSet(s) /\ s \subseteq Nat
        BY FS_Subset DEF Numbers
      <4> QED BY <2>2, <4>1, Largest
    <3>2. s \ {Max(s)} \in P
      BY <1>1, <3>1
    <3> QED BY <2>0, <2>2, <3>2
  <2> QED BY <2>1, <2>2
<1> HIDE DEF P
<1>2. \A s \in SUBSET T : s \in P
  <2>1. IsFiniteSet(T)
    BY DEF Numbers
  <2> QED BY <1>1, <2>1, OverSubsets
<1> QED BY <1>2 DEF P

\* There is such a function.
LEMMA FoldsExist ==
  ASSUME NEW S, IsFiniteSet(S), S \subseteq Nat, NEW step, NEW base
  PROVE  \E g : Folds(g, step, base, S)
<1> DEFINE P == {s \in SUBSET S : \E g : Folds(g, step, base, s)}
           G(s) == CHOOSE g : Folds(g, step, base, s)
<1>1. ASSUME NEW s \in SUBSET S, \A u \in SUBSET s : u # s => u \in P
      PROVE  s \in P
  <2> DEFINE rest(u) == u \ {Max(u)}
             v(u) == IF u = {} THEN base ELSE step[<<G(rest(u))[rest(u)], Max(u)>>]
             g == [u \in SUBSET s |-> v(u)]
  <2>1. \A u \in SUBSET s : u # {} => Max(u) \in u
    BY Largest, FS_Subset
  <2>2. \A u \in SUBSET s : u # s => Folds(G(u), step, base, u)
    BY <1>1
  <2> HIDE DEF G
  <2>3. ASSUME NEW u \in SUBSET s, u # s
        PROVE  g[u] = G(u)[u]
    <3>1. Folds(G(u), step, base, u)
      BY <2>2, <2>3
    <3>2. G(u)[u] = IF u = {} THEN base ELSE step[<<G(u)[rest(u)], Max(u)>>]
      BY <3>1 DEF Folds
    <3>3. g[u] = v(u)
      OBVIOUS
    <3>4. CASE u = {}
      BY <3>2, <3>3, <3>4
    <3>5. CASE u # {}
      <4> DEFINE w == rest(u)
      <4>1. w \in SUBSET s /\ w # s /\ w \in SUBSET u
        BY <2>1, <3>5
      <4>2. Folds(G(w), step, base, w)
        BY <2>2, <4>1
      <4>3. IsFiniteSet(w)
        BY <4>1, FS_Subset
      <4>6. w \subseteq u /\ Numbers(w)
        BY <4>1, <4>3 DEF Numbers
      <4> HIDE DEF w
      <4>4. \A x \in SUBSET w : G(u)[x] = G(w)[x]
        BY ONLY <3>1, <4>2, <4>6, FoldsAgree
      <4>5. G(u)[w] = G(w)[w]
        BY <4>4
      <4> QED BY <3>2, <3>3, <3>5, <4>5 DEF w
    <3> QED BY <3>4, <3>5
  <2>4. ASSUME NEW u \in SUBSET s
        PROVE  g[u] = IF u = {} THEN base ELSE step[<<g[rest(u)], Max(u)>>]
    <3>1. CASE u = {}
      BY <3>1
    <3>2. CASE u # {}
      <4>1. rest(u) \in SUBSET s /\ rest(u) # s
        BY <2>1, <3>2
      <4>2. g[rest(u)] = G(rest(u))[rest(u)]
        BY <2>3, <4>1
      <4>3. g[u] = step[<<G(rest(u))[rest(u)], Max(u)>>]
        BY <3>2
      <4> QED BY <3>2, <4>2, <4>3
    <3> QED BY <3>1, <3>2
  <2>5. Folds(g, step, base, s)
    <3>1. g = [u \in SUBSET s |-> g[u]]
      OBVIOUS
    <3> HIDE DEF g
    <3> QED BY <2>4, <3>1 DEF Folds
  <2> QED BY <2>5
<1> HIDE DEF P
<1>2. \A s \in SUBSET S : s \in P
  BY <1>1, OverSubsets
<1> QED BY <1>2 DEF P

\* The first k numbers are finitely many.
LEMMA FirstFinite ==
  ASSUME NEW k \in Nat
  PROVE  IsFiniteSet(1 .. k) /\ 1 .. k \subseteq Nat
<1>1. k \in Int /\ 1 \in Int
  OBVIOUS
<1>2. IsFiniteSet(1 .. k)
  BY <1>1, FS_Interval
<1> QED BY <1>2

\* Its values are of the kind that the steps keep.
LEMMA FoldsTyped ==
  ASSUME NEW V, NEW n \in Nat, NEW step \in [V \X (1 .. n) -> V], NEW base \in V,
         NEW g, Folds(g, step, base, 1 .. n)
  PROVE  \A s \in SUBSET (1 .. n) : g[s] \in V /\ (s # {} => Max(s) \in 1 .. n)
<1> DEFINE P == {s \in SUBSET (1 .. n) : g[s] \in V}
<1>0. ASSUME NEW s \in SUBSET (1 .. n), s # {}
      PROVE  Max(s) \in s
  <2>1. IsFiniteSet(s)
    BY FirstFinite, FS_Subset
  <2>2. s \subseteq Nat
    OBVIOUS
  <2> QED BY <1>0, <2>1, <2>2, Largest
<1>1. ASSUME NEW s \in SUBSET (1 .. n), \A u \in SUBSET s : u # s => u \in P
      PROVE  s \in P
  <2>1. g[s] = IF s = {} THEN base ELSE step[<<g[s \ {Max(s)}], Max(s)>>]
    BY DEF Folds
  <2>2. CASE s = {}
    BY <2>1, <2>2
  <2>3. CASE s # {}
    <3>1. Max(s) \in s
      BY <1>0, <2>3
    <3>2. s \ {Max(s)} \in P
      <4> HIDE DEF P
      <4> QED BY <1>1, <3>1
    <3>3. <<g[s \ {Max(s)}], Max(s)>> \in V \X (1 .. n)
      BY <3>1, <3>2
    <3>4. step[<<g[s \ {Max(s)}], Max(s)>>] \in V
      BY <3>3
    <3> QED BY <2>1, <2>3, <3>4
  <2> QED BY <2>2, <2>3
<1> HIDE DEF P
<1> DEFINE S == 1 .. n
<1>2. \A s \in SUBSET S : s \in P
  <2>1. IsFiniteSet(S)
    BY FirstFinite
  <2>2. \A s \in SUBSET S : (\A u \in SUBSET s : u # s => u \in P) => s \in P
    BY <1>1
  <2> HIDE DEF S
  <2> QED BY <2>1, <2>2, OverSubsets
<1> QED BY <1>0, <1>2 DEF P

\* The first k numbers, one after the other.
LEMMA FirstNumbers ==
  ASSUME NEW k \in Nat, k # 0
  PROVE  Max(1 .. k) = k /\ (1 .. k) \ {k} = 1 .. k - 1 /\ 1 .. k # {}
<1>1. Max(1 .. k) \in 1 .. k /\ \A y \in 1 .. k : Max(1 .. k) >= y
  <2>1. 1 .. k # {}
    OBVIOUS
  <2> QED BY <2>1, Largest, FirstFinite
<1> QED BY <1>1

\* A fold whose steps stay in V: the values it takes on the sets of the first n numbers.
FoldOf(g, V, n, step, base) ==
    /\ Folds(g, step, base, 1 .. n)
    /\ \A s \in SUBSET (1 .. n) : g[s] \in V /\ (s # {} => Max(s) \in 1 .. n)

LEMMA FoldsKept ==
  ASSUME NEW V, NEW n \in Nat, NEW step \in [V \X (1 .. n) -> V], NEW base \in V
  PROVE  \E g : FoldOf(g, V, n, step, base)
<1>1. PICK g : Folds(g, step, base, 1 .. n)
  BY FoldsExist, FirstFinite
<1>2. \A s \in SUBSET (1 .. n) : g[s] \in V /\ (s # {} => Max(s) \in 1 .. n)
  BY <1>1, FoldsTyped
<1> QED BY <1>1, <1>2 DEF FoldOf

\* The intermediate results of a fold, one after the other.
Results(p, V, n, g, step, base) ==
    /\ p \in [0 .. n -> V]
    /\ p[0] = base
    /\ \A k \in 1 .. n : p[k] = step[<<p[k - 1], k>>]
    /\ p[n] = g[1 .. n]

LEMMA FoldResults ==
  ASSUME NEW V, NEW n \in Nat, NEW step, NEW base \in V, NEW g, Folds(g, step, base, 1 .. n),
         \A v \in V, k \in 1 .. n : step[<<v, k>>] \in V
  PROVE  \E p : Results(p, V, n, g, step, base)
<1> DEFINE p == [k \in 0 .. n |-> g[1 .. k]]
<1>1. \A s \in SUBSET (1 .. n) :
          g[s] = IF s = {} THEN base ELSE step[<<g[s \ {Max(s)}], Max(s)>>]
  BY DEF Folds
<1>2. p[0] = base
  <2>1. 1 .. 0 = {} /\ 0 \in 0 .. n
    OBVIOUS
  <2>2. p[0] = g[1 .. 0]
    BY <2>1
  <2>3. g[{}] = base
    BY <1>1
  <2> QED BY <2>1, <2>2, <2>3
<1>3. \A k \in 1 .. n : p[k] = step[<<p[k - 1], k>>]
  <2> TAKE k \in 1 .. n
  <2>0. k \in Nat /\ k # 0
    OBVIOUS
  <2>1. Max(1 .. k) = k /\ (1 .. k) \ {k} = 1 .. k - 1 /\ 1 .. k # {}
    BY <2>0, FirstNumbers
  <2>2. g[1 .. k] = step[<<g[1 .. k - 1], k>>]
    <3>1. 1 .. k \in SUBSET (1 .. n)
      OBVIOUS
    <3> QED BY <1>1, <2>1, <3>1
  <2>3. p[k] = g[1 .. k] /\ p[k - 1] = g[1 .. k - 1]
    OBVIOUS
  <2> QED BY <2>2, <2>3
<1>4. \A k \in 0 .. n : p[k] \in V
  <2> DEFINE P == {k \in 0 .. n : p[k] \in V}
  <2>1. 0 \in P
    BY <1>2
  <2>2. \A k \in 0 .. n : k + 1 \in 0 .. n => (k \in P => k + 1 \in P)
    <3> SUFFICES ASSUME NEW k \in 0 .. n, k + 1 \in 0 .. n, p[k] \in V
                 PROVE  p[k + 1] \in V
      OBVIOUS
    <3>1. k + 1 \in 1 .. n /\ (k + 1) - 1 = k
      OBVIOUS
    <3>2. p[k + 1] = step[<<p[k], k + 1>>]
      BY <1>3, <3>1
    <3> HIDE DEF p
    <3> QED BY <3>1, <3>2
  <2> HIDE DEF P
  <2>3. \A k \in 0 .. n : k \in P
    BY <2>1, <2>2, UpTo
  <2> QED BY <2>3 DEF P
<1>5. p \in [0 .. n -> V] /\ p[n] = g[1 .. n]
  BY <1>4
<1> HIDE DEF p
<1> QED BY <1>2, <1>3, <1>5 DEF Results

-----------------------------------------------------------------------------
(* The cities of a trip. *)

\* How the cities are entered.
VisitedSoFar(p, days) ==
    /\ p \in [0 .. 2 * Len(days) -> Seq(Cities)]
    /\ p[0] = <<>>
    /\ \A k \in 1 .. 2 * Len(days) : p[k] = Entered(p[k - 1], Stops(days)[k])
    /\ Visited(days) = p[2 * Len(days)]

\* The stops are those of the days.
LEMMA StopsTyped ==
  ASSUME NEW days, days \in Seq(TripDays), \A d \in TripDays : DayFits(d)
  PROVE  /\ Len(days) \in Nat /\ DOMAIN Stops(days) = 1 .. 2 * Len(days)
         /\ \A k \in 1 .. 2 * Len(days) : Stops(days)[k] \in Cities
<1>1. Len(days) \in Nat /\ \A i \in 1 .. Len(days) : days[i].depart \in Cities /\ days[i].end \in Cities
  <2>1. ASSUME NEW i \in 1 .. Len(days)
        PROVE  days[i].depart \in Cities /\ days[i].end \in Cities
    <3>1. DayFits(days[i])
      BY ElementOfSeq
    <3> QED BY <3>1 DEF DayFits
  <2> QED BY <2>1, LenProperties
<1>2. ASSUME NEW k \in 1 .. 2 * Len(days)
      PROVE  Stops(days)[k] \in Cities
  <2>1. CASE k % 2 = 1
    <3>1. (k + 1) \div 2 \in 1 .. Len(days)
      BY <1>1, <2>1
    <3> QED BY <1>1, <2>1, <3>1 DEF Stops
  <2>2. CASE k % 2 # 1
    <3>1. k \div 2 \in 1 .. Len(days)
      BY <1>1, <2>2
    <3> QED BY <1>1, <2>2, <3>1 DEF Stops
  <2> QED BY <2>1, <2>2
<1> QED BY <1>1, <1>2 DEF Stops

\* The cities of a trip are a fold over its stops.
LEMMA VisitedFolds ==
  ASSUME NEW days, days \in Seq(TripDays), \A d \in TripDays : DayFits(d)
  PROVE  \E p : VisitedSoFar(p, days)
<1> DEFINE n == 2 * Len(days)
           stops == Stops(days)
           V == Seq(Cities)
           step == [x \in V \X (1 .. n) |-> Entered(x[1], stops[x[2]])]
<1>1. n \in Nat /\ DOMAIN stops = 1 .. n /\ \A k \in 1 .. n : stops[k] \in Cities
  BY StopsTyped
<1>2. step \in [V \X (1 .. n) -> V] /\ <<>> \in V
  BY <1>1 DEF Entered
<1> HIDE DEF n, stops, V
<1>3. PICK g : FoldOf(g, V, n, step, <<>>)
  <2> HIDE DEF step
  <2> QED BY <1>1, <1>2, FoldsKept
<1> DEFINE It(i) == i = [s \in SUBSET (1 .. n) |-> IF s = {} THEN <<>>
                          ELSE Entered(i[s \ {Max(s)}], stops[Max(s)])]
           it == CHOOSE i : It(i)
<1>4. It(g)
  <2>1. \A s \in SUBSET (1 .. n) : s # {} =>
            step[<<g[s \ {Max(s)}], Max(s)>>] = Entered(g[s \ {Max(s)}], stops[Max(s)])
    BY <1>3 DEF FoldOf
  <2> HIDE DEF step
  <2> QED BY <1>3, <2>1 DEF FoldOf, Folds
<1>5. It(it)
  <2> HIDE DEF It
  <2> QED BY <1>4
<1>6. Visited(days) = it[1 .. n]
  BY <1>1 DEF Visited, FoldLeft, MapThenFoldSet, stops
<1> HIDE DEF it
<1> DEFINE W == V \cup {it[s] : s \in SUBSET (1 .. n)}
           next == [x \in W \X (1 .. n) |-> Entered(x[1], stops[x[2]])]
<1>7. Folds(it, next, <<>>, 1 .. n)
  <2>1. \A s \in SUBSET (1 .. n) : s # {} =>
            next[<<it[s \ {Max(s)}], Max(s)>>] = Entered(it[s \ {Max(s)}], stops[Max(s)])
    BY <1>3 DEF FoldOf
  <2> HIDE DEF next
  <2> QED BY <1>5, <2>1 DEF Folds
<1>8. \A v \in V, k \in 1 .. n : next[<<v, k>>] = Entered(v, stops[k]) /\ next[<<v, k>>] \in V
  BY <1>1 DEF Entered, V
<1> HIDE DEF next
<1>9. PICK p : Results(p, V, n, it, next, <<>>)
  BY <1>1, <1>2, <1>7, <1>8, FoldResults
<1>10. VisitedSoFar(p, days)
  <2>1. p \in [0 .. n -> V] /\ p[0] = <<>> /\ p[n] = it[1 .. n]
    BY <1>9 DEF Results
  <2>2. \A k \in 1 .. n : p[k] = Entered(p[k - 1], stops[k])
    <3> TAKE k \in 1 .. n
    <3>1. k - 1 \in 0 .. n
      BY <1>1
    <3>2. p[k - 1] \in V /\ p[k] = next[<<p[k - 1], k>>]
      BY <1>9, <3>1 DEF Results
    <3> QED BY <1>8, <3>2
  <2> QED BY <1>6, <2>1, <2>2 DEF VisitedSoFar, n, V, stops
<1> QED BY <1>10

\* Along the fold a city is entered where it is not the one before.
LEMMA VisitedGrows ==
  ASSUME NEW days, days \in Seq(TripDays), \A d \in TripDays : DayFits(d),
         NEW p, VisitedSoFar(p, days), NEW k \in 1 .. 2 * Len(days)
  PROVE  /\ Len(p[k - 1]) \in Nat /\ Len(p[k]) \in Nat /\ Len(p[k - 1]) <= Len(p[k])
         /\ \A q \in 1 .. Len(p[k - 1]) : p[k][q] = p[k - 1][q]
         /\ Len(p[k]) \in 1 .. Len(p[k - 1]) + 1 /\ p[k][Len(p[k])] = Stops(days)[k]
<1> DEFINE n == 2 * Len(days)
           c == Stops(days)[k]
           old == p[k - 1]
<1>1. n \in Nat /\ c \in Cities
  BY StopsTyped
<1>2. k - 1 \in 0 .. n /\ k \in 0 .. n
  BY <1>1
<1>3. old \in Seq(Cities) /\ p[k] = Entered(old, c)
  BY <1>2 DEF VisitedSoFar
<1>4. Len(old) \in Nat /\ DOMAIN old = 1 .. Len(old) /\ (old # <<>> => Len(old) # 0)
  BY <1>3, LenProperties, EmptySeq
<1> HIDE DEF old, c
<1>5. CASE old # <<>> /\ old[Len(old)] = c
  <2>1. p[k] = old
    BY <1>3, <1>5 DEF Entered, Last
  <2> QED BY <1>4, <1>5, <2>1 DEF old, c
<1>6. CASE ~(old # <<>> /\ old[Len(old)] = c)
  <2>1. p[k] = Append(old, c)
    BY <1>3, <1>6 DEF Entered, Last
  <2>2. /\ Len(p[k]) = Len(old) + 1
        /\ \A q \in 1 .. Len(old) : p[k][q] = old[q]
        /\ p[k][Len(old) + 1] = c
    BY <1>1, <1>3, <2>1, AppendProperties
  <2> QED BY <1>4, <2>2 DEF old, c
<1> QED BY <1>5, <1>6

\* Each stop is one of the cities entered, in their order, and each of these is a stop.
PassesThrough(m, visited, days) ==
    /\ m \in [1 .. 2 * Len(days) -> 1 .. Len(visited)]
    /\ \A j, k \in 1 .. 2 * Len(days) : j <= k => m[j] <= m[k]
    /\ \A k \in 1 .. 2 * Len(days) : visited[m[k]] = Stops(days)[k]
    /\ \A q \in 1 .. Len(visited) : \E k \in 1 .. 2 * Len(days) : m[k] = q

LEMMA VisitedStops ==
  ASSUME NEW days, days \in Seq(TripDays), \A d \in TripDays : DayFits(d)
  PROVE  /\ Visited(days) \in Seq(Cities)
         /\ \E m : PassesThrough(m, Visited(days), days)
<1> DEFINE n == 2 * Len(days)
           visited == Visited(days)
           stops == Stops(days)
<1>1. n \in Nat
  BY StopsTyped
<1>2. PICK p : VisitedSoFar(p, days)
  BY VisitedFolds
<1>3. /\ p \in [0 .. n -> Seq(Cities)] /\ p[0] = <<>> /\ visited = p[n]
  BY <1>2 DEF VisitedSoFar
<1>4. \A k \in 1 .. n :
         /\ Len(p[k - 1]) \in Nat /\ Len(p[k]) \in Nat /\ Len(p[k - 1]) <= Len(p[k])
         /\ \A q \in 1 .. Len(p[k - 1]) : p[k][q] = p[k - 1][q]
         /\ Len(p[k]) \in 1 .. Len(p[k - 1]) + 1 /\ p[k][Len(p[k])] = stops[k]
  BY <1>2, VisitedGrows
<1>5. \A k \in 0 .. n : Len(p[k]) \in Nat
  BY <1>3, LenProperties
<1> HIDE DEF n, visited, stops
<1> DEFINE Before(j, k) == /\ Len(p[j]) <= Len(p[k])
                           /\ \A q \in 1 .. Len(p[j]) : p[k][q] = p[j][q]
           Hit(k) == \A q \in 1 .. Len(p[k]) : \E j \in 1 .. k : Len(p[j]) = q
           P == {k \in 0 .. n : (\A j \in 0 .. k : Before(j, k)) /\ Hit(k)}
<1>6. 0 \in P
  <2>1. Len(p[0]) = 0
    BY <1>3
  <2>2. 0 \in 0 .. n /\ \A j \in 0 .. 0 : j = 0
    BY <1>1
  <2>3. Before(0, 0) /\ Hit(0)
    BY <2>1
  <2> QED BY <2>2, <2>3
<1>7. ASSUME NEW k \in 0 .. n, k + 1 \in 0 .. n, k \in P
      PROVE  k + 1 \in P
  <2>0. k \in Nat /\ k + 1 \in 1 .. n /\ (k + 1) - 1 = k
    BY <1>1, <1>7
  <2>1. /\ Len(p[k]) \in Nat /\ Len(p[k + 1]) \in Nat /\ Len(p[k]) <= Len(p[k + 1])
        /\ \A q \in 1 .. Len(p[k]) : p[k + 1][q] = p[k][q]
        /\ Len(p[k + 1]) \in 1 .. Len(p[k]) + 1
    BY <1>4, <2>0
  <2>2. ASSUME NEW j \in 0 .. k + 1
        PROVE  Before(j, k + 1)
    <3>1. CASE j = k + 1
      BY <2>1, <3>1
    <3>2. CASE j \in 0 .. k
      <4>1. Before(j, k)
        BY <1>7, <3>2
      <4>2. Len(p[j]) \in Nat
        BY <1>5, <2>0, <3>2
      <4>3. Len(p[j]) <= Len(p[k + 1])
        BY <2>1, <4>1, <4>2
      <4>4. ASSUME NEW q \in 1 .. Len(p[j])
            PROVE  p[k + 1][q] = p[j][q]
        <5>1. q \in 1 .. Len(p[k])
          BY <2>1, <4>1, <4>2
        <5>2. p[k][q] = p[j][q]
          BY <4>1
        <5> QED BY <2>1, <5>1, <5>2
      <4> QED BY <4>3, <4>4
    <3> QED BY <2>0, <3>1, <3>2
  <2>3. ASSUME NEW q \in 1 .. Len(p[k + 1])
        PROVE  \E j \in 1 .. k + 1 : Len(p[j]) = q
    <3>1. CASE q \in 1 .. Len(p[k])
      <4>1. \E j \in 1 .. k : Len(p[j]) = q
        BY <1>7, <3>1
      <4> QED BY <2>0, <4>1
    <3>2. CASE q \notin 1 .. Len(p[k])
      <4>1. q = Len(p[k + 1])
        BY <2>1, <3>2
      <4> QED BY <2>0, <4>1
    <3> QED BY <3>1, <3>2
  <2> QED BY <1>7, <2>2, <2>3
<1> HIDE DEF P
<1>8. \A k \in 0 .. n : k \in P
  BY <1>1, <1>6, <1>7, UpTo
<1>9. (\A k \in 0 .. n : \A j \in 0 .. k : Before(j, k)) /\ Hit(n)
  BY <1>1, <1>8 DEF P
<1> DEFINE m == [k \in 1 .. n |-> Len(p[k])]
<1>10. ASSUME NEW k \in 1 .. n
       PROVE  m[k] \in 1 .. Len(visited) /\ visited[m[k]] = stops[k]
  <2>1. k \in 0 .. n /\ n \in 0 .. n
    BY <1>1
  <2>2. Before(k, n)
    BY <1>1, <1>9, <2>1
  <2>3. Len(p[k]) \in Nat /\ Len(p[k]) # 0 /\ p[k][Len(p[k])] = stops[k]
    BY <1>1, <1>4, <1>5, <2>1
  <2>4. Len(p[k]) \in 1 .. Len(p[k]) /\ Len(p[n]) \in Nat
    BY <1>5, <2>1, <2>3
  <2> QED BY <1>3, <2>2, <2>3, <2>4
<1>11. \A j, k \in 1 .. n : j <= k => m[j] <= m[k]
  <2> TAKE j, k \in 1 .. n
  <2> HAVE j <= k
  <2>1. j \in 0 .. k /\ k \in 0 .. n
    BY <1>1
  <2> QED BY <1>9, <2>1
<1>12. \A q \in 1 .. Len(visited) : \E k \in 1 .. n : m[k] = q
  BY <1>3, <1>9
<1>13. PassesThrough(m, visited, days)
  <2>1. m \in [1 .. n -> 1 .. Len(visited)] /\ \A k \in 1 .. n : visited[m[k]] = stops[k]
    BY <1>10
  <2> HIDE DEF m
  <2> QED BY <1>11, <1>12, <2>1 DEF PassesThrough, n, stops
<1>14. visited \in Seq(Cities)
  <2>1. n \in 0 .. n
    BY <1>1
  <2> QED BY <1>3, <2>1
<1> QED BY <1>13, <1>14 DEF visited

\* The destinations can be found among the cities entered, in their order.
FoundIn(destinations, visited) ==
    \E h \in [1 .. Len(destinations) -> 1 .. Len(visited)] :
        /\ \A j, k \in 1 .. Len(destinations) : j < k => h[j] < h[k]
        /\ \A j \in 1 .. Len(destinations) : destinations[j] = visited[h[j]]

\* As a destination is named once, it does not matter that a stay counts once.
LEMMA EmbeddedFound ==
  ASSUME NEW days, days \in Seq(TripDays), \A d \in TripDays : DayFits(d),
         NEW wanted, IsSequence(wanted), IsInjective(wanted)
  PROVE  Embedded(wanted, days) <=> FoundIn(wanted, Visited(days))
<1> DEFINE n == 2 * Len(days)
           d == Len(wanted)
           visited == Visited(days)
           stops == Stops(days)
<1>1. n \in Nat /\ DOMAIN stops = 1 .. n
  BY StopsTyped
<1>2. d \in Nat /\ DOMAIN wanted = 1 .. d
  BY LenProperties DEF IsSequence
<1>3. Len(visited) \in Nat
  BY VisitedStops, LenProperties
<1>4. PICK m : PassesThrough(m, visited, days)
  BY VisitedStops
<1>5. /\ m \in [1 .. n -> 1 .. Len(visited)]
      /\ \A j, k \in 1 .. n : j <= k => m[j] <= m[k]
      /\ \A k \in 1 .. n : visited[m[k]] = stops[k]
      /\ \A q \in 1 .. Len(visited) : \E k \in 1 .. n : m[k] = q
  BY <1>4 DEF PassesThrough
<1> HIDE DEF n, d, visited, stops
<1>6. ASSUME Embedded(wanted, days)
      PROVE  FoundIn(wanted, visited)
  <2>1. PICK f \in [1 .. d -> 1 .. n] :
               /\ \A j, k \in 1 .. d : j < k => f[j] < f[k]
               /\ \A j \in 1 .. d : wanted[j] = stops[f[j]]
    BY <1>1, <1>2, <1>6 DEF Embedded, stops
  <2> DEFINE h == [j \in 1 .. d |-> m[f[j]]]
  <2>2. h \in [1 .. d -> 1 .. Len(visited)]
    BY <1>5
  <2>3. \A j \in 1 .. d : wanted[j] = visited[h[j]]
    BY <1>5, <2>1
  <2>4. \A j, k \in 1 .. d : j < k => h[j] < h[k]
    <3> TAKE j, k \in 1 .. d
    <3> HAVE j < k
    <3>1. f[j] \in 1 .. n /\ f[k] \in 1 .. n /\ f[j] <= f[k]
      BY <1>1, <2>1
    <3>2. m[f[j]] <= m[f[k]]
      BY <1>5, <3>1
    <3>3. h[j] # h[k]
      <4>1. j # k
        BY <1>2
      <4>2. wanted[j] # wanted[k]
        BY <1>2, <4>1 DEF IsInjective
      <4> HIDE DEF h
      <4> QED BY <2>3, <4>2
    <3>4. h[j] = m[f[j]] /\ h[k] = m[f[k]] /\ h[j] \in Int /\ h[k] \in Int
      BY <1>3, <1>5, <3>1
    <3> HIDE DEF h
    <3> QED BY <3>2, <3>3, <3>4
  <2> HIDE DEF h
  <2> QED BY <2>2, <2>3, <2>4 DEF FoundIn, d
<1>7. ASSUME FoundIn(wanted, visited)
      PROVE  Embedded(wanted, days)
  <2>1. PICK h \in [1 .. d -> 1 .. Len(visited)] :
               /\ \A j, k \in 1 .. d : j < k => h[j] < h[k]
               /\ \A j \in 1 .. d : wanted[j] = visited[h[j]]
    BY <1>7 DEF FoundIn, d
  <2> DEFINE Spot(j) == CHOOSE k \in 1 .. n : m[k] = h[j]
             f == [j \in 1 .. d |-> Spot(j)]
  <2>2. \A j \in 1 .. d : f[j] \in 1 .. n /\ m[f[j]] = h[j]
    <3> TAKE j \in 1 .. d
    <3>1. \E k \in 1 .. n : m[k] = h[j]
      BY <1>5, <2>1
    <3>2. Spot(j) \in 1 .. n /\ m[Spot(j)] = h[j]
      BY <3>1
    <3> HIDE DEF Spot
    <3> QED BY <3>2
  <2>3. f \in [1 .. d -> 1 .. n]
    <3>1. \A j \in 1 .. d : Spot(j) \in 1 .. n
      BY <2>2
    <3> HIDE DEF Spot
    <3> QED BY <3>1
  <2> HIDE DEF f
  <2>4. \A j \in 1 .. d : wanted[j] = stops[f[j]]
    BY <1>5, <2>1, <2>2
  <2>5. \A j, k \in 1 .. d : j < k => f[j] < f[k]
    <3> TAKE j, k \in 1 .. d
    <3> HAVE j < k
    <3>1. h[j] < h[k] /\ h[j] \in Int /\ h[k] \in Int
      BY <1>3, <2>1
    <3>2. /\ f[j] \in 1 .. n /\ f[k] \in 1 .. n
          /\ m[f[j]] = h[j] /\ m[f[k]] = h[k]
      BY <2>2
    <3>3. f[k] <= f[j] => h[k] <= h[j]
      BY <1>5, <3>2
    <3>4. f[j] \in Int /\ f[k] \in Int
      BY <1>1, <3>2
    <3> QED BY <3>1, <3>3, <3>4
  <2> QED BY <1>1, <1>2, <2>3, <2>4, <2>5 DEF Embedded, stops
<1> QED BY <1>6, <1>7 DEF visited

-----------------------------------------------------------------------------
(* The destinations, looked for one after the other *)

\* The next stay in a city is the first of those that are later.
LEMMA NextIs ==
  ASSUME NEW visited, NEW S, visited \in Seq(S), NEW after \in Nat, NEW c
  PROVE  LET r == NextPosition(visited, after, c)
         IN  /\ r \in 1 .. Len(visited) + 1
             /\ r <= Len(visited) => r > after /\ visited[r] = c
             /\ \A q \in 1 .. Len(visited) : q > after /\ visited[q] = c => r <= q
<1> DEFINE later == {q \in DOMAIN visited : q > after /\ visited[q] = c}
<1>1. Len(visited) \in Nat /\ DOMAIN visited = 1 .. Len(visited)
  BY LenProperties
<1>2. later \subseteq Nat
  BY <1>1
<1>3. CASE later = {}
  <2>1. NextPosition(visited, after, c) = Len(visited) + 1
    BY <1>3 DEF NextPosition
  <2> QED BY <1>1, <1>3, <2>1
<1>4. CASE later # {}
  <2>1. NextPosition(visited, after, c) = Min(later)
    BY <1>4 DEF NextPosition
  <2>2. Min(later) \in later /\ \A q \in later : Min(later) <= q
    <3> HIDE DEF later
    <3> QED BY <1>2, <1>4, Smallest
  <2> QED BY <1>1, <2>1, <2>2
<1> QED BY <1>3, <1>4

\* How the destinations are looked for.
FoundSoFar(p, wanted, visited) ==
    /\ p \in [0 .. Len(wanted) -> Nat]
    /\ p[0] = 0
    /\ \A k \in 1 .. Len(wanted) : p[k] = NextPosition(visited, p[k - 1], wanted[k])
    /\ Follows(wanted, visited) = (p[Len(wanted)] <= Len(visited))

\* The search is a fold over the destinations.
LEMMA FollowsFolds ==
  ASSUME NEW visited, visited \in Seq(Cities), NEW wanted, IsSequence(wanted)
  PROVE  \E p : FoundSoFar(p, wanted, visited)
<1> DEFINE n == Len(wanted)
           V == Nat
           found == FoldLeft(LAMBDA q, c : NextPosition(visited, q, c), 0, wanted)
           step == [x \in V \X (1 .. n) |-> NextPosition(visited, x[1], wanted[x[2]])]
<1>1. n \in Nat /\ DOMAIN wanted = 1 .. n /\ \A c : \A v \in V : NextPosition(visited, v, c) \in V
  <2>1. n \in Nat /\ DOMAIN wanted = 1 .. n
    BY LenProperties DEF IsSequence
  <2>2. ASSUME NEW v \in V, NEW c
        PROVE  NextPosition(visited, v, c) \in V
    <3>1. NextPosition(visited, v, c) \in 1 .. Len(visited) + 1 /\ Len(visited) \in Nat
      BY NextIs, LenProperties
    <3> QED BY <3>1
  <2> QED BY <2>1, <2>2
<1>2. step \in [V \X (1 .. n) -> V] /\ 0 \in V
  BY <1>1
<1> HIDE DEF n, V, found
<1>3. PICK g : FoldOf(g, V, n, step, 0)
  <2> HIDE DEF step
  <2> QED BY <1>1, <1>2, FoldsKept
<1> DEFINE It(i) == i = [s \in SUBSET (1 .. n) |-> IF s = {} THEN 0
                          ELSE NextPosition(visited, i[s \ {Max(s)}], wanted[Max(s)])]
           it == CHOOSE i : It(i)
<1>4. It(g)
  <2>1. \A s \in SUBSET (1 .. n) : s # {} =>
            step[<<g[s \ {Max(s)}], Max(s)>>] = NextPosition(visited, g[s \ {Max(s)}], wanted[Max(s)])
    BY <1>3 DEF FoldOf
  <2> HIDE DEF step
  <2> QED BY <1>3, <2>1 DEF FoldOf, Folds
<1>5. It(it)
  <2> HIDE DEF It
  <2> QED BY <1>4
<1>6. found = it[1 .. n]
  BY <1>1 DEF found, FoldLeft, MapThenFoldSet
<1> HIDE DEF it
<1> DEFINE W == V \cup {it[s] : s \in SUBSET (1 .. n)}
           next == [x \in W \X (1 .. n) |-> NextPosition(visited, x[1], wanted[x[2]])]
<1>7. Folds(it, next, 0, 1 .. n)
  <2>1. \A s \in SUBSET (1 .. n) : s # {} =>
            next[<<it[s \ {Max(s)}], Max(s)>>] = NextPosition(visited, it[s \ {Max(s)}], wanted[Max(s)])
    BY <1>3 DEF FoldOf
  <2> HIDE DEF next
  <2> QED BY <1>5, <2>1 DEF Folds
<1>8. \A v \in V, k \in 1 .. n : next[<<v, k>>] = NextPosition(visited, v, wanted[k]) /\ next[<<v, k>>] \in V
  BY <1>1
<1> HIDE DEF next
<1>9. PICK p : Results(p, V, n, it, next, 0)
  BY <1>1, <1>2, <1>7, <1>8, FoldResults
<1>10. FoundSoFar(p, wanted, visited)
  <2>1. p \in [0 .. n -> V] /\ p[0] = 0 /\ p[n] = it[1 .. n]
    BY <1>9 DEF Results
  <2>2. \A k \in 1 .. n : p[k] = NextPosition(visited, p[k - 1], wanted[k])
    <3> TAKE k \in 1 .. n
    <3>1. k - 1 \in 0 .. n
      BY <1>1
    <3>2. p[k - 1] \in V /\ p[k] = next[<<p[k - 1], k>>]
      BY <1>9, <3>1 DEF Results
    <3> QED BY <1>8, <3>2
  <2> QED BY <1>6, <2>1, <2>2 DEF FoundSoFar, Follows, n, V, found
<1> QED BY <1>10

\* The search finds the destinations exactly if they can be found.
LEMMA GreedyFinds ==
  ASSUME NEW visited, visited \in Seq(Cities), NEW wanted, IsSequence(wanted)
  PROVE  Follows(wanted, visited) <=> FoundIn(wanted, visited)
<1> DEFINE d == Len(wanted)
           l == Len(visited)
<1>1. d \in Nat /\ l \in Nat
  BY LenProperties DEF IsSequence
<1>2. PICK p : FoundSoFar(p, wanted, visited)
  BY FollowsFolds
<1>3. /\ p \in [0 .. d -> Nat] /\ p[0] = 0
      /\ Follows(wanted, visited) = (p[d] <= l)
  BY <1>2 DEF FoundSoFar
<1>4. ASSUME NEW k \in 1 .. d
      PROVE  /\ p[k - 1] \in Nat /\ p[k] \in 1 .. l + 1
             /\ p[k] <= l => p[k] > p[k - 1] /\ visited[p[k]] = wanted[k]
             /\ \A q \in 1 .. l : q > p[k - 1] /\ visited[q] = wanted[k] => p[k] <= q
  <2>1. k - 1 \in 0 .. d
    BY <1>1
  <2>2. p[k - 1] \in Nat /\ p[k] = NextPosition(visited, p[k - 1], wanted[k])
    BY <1>2, <1>3, <2>1 DEF FoundSoFar
  <2> QED BY <2>2, NextIs
<1> HIDE DEF d, l
<1>5. ASSUME p[d] <= l
      PROVE  FoundIn(wanted, visited)
  <2>1. ASSUME NEW k \in 0 .. d, k + 1 \in 0 .. d, p[k + 1] <= l
        PROVE  p[k] < p[k + 1]
    <3>1. k + 1 \in 1 .. d /\ (k + 1) - 1 = k
      BY <1>1, <2>1
    <3> QED BY <1>4, <2>1, <3>1
  <2> DEFINE P == {i \in 0 .. d : \A k \in d - i .. d : p[k] <= l /\ \A j \in d - i .. d : j < k => p[j] < p[k]}
  <2>2. 0 \in P
    BY <1>1, <1>5
  <2>3. ASSUME NEW i \in 0 .. d, i + 1 \in 0 .. d, i \in P
        PROVE  i + 1 \in P
    <3> DEFINE a == d - (i + 1)
    <3>1. a \in 0 .. d /\ a + 1 \in 0 .. d /\ a + 1 = d - i
      BY <1>1, <2>3
    <3>2. \A k \in a + 1 .. d : p[k] <= l /\ \A j \in a + 1 .. d : j < k => p[j] < p[k]
      BY <2>3, <3>1
    <3>3. p[a + 1] <= l
      BY <1>1, <3>1, <3>2
    <3>4. p[a] < p[a + 1]
      BY <2>1, <3>1, <3>3
    <3>5. \A k \in 0 .. d : p[k] \in Nat
      BY <1>3
    <3> HIDE DEF a
    <3>6. \A k \in a .. d : p[k] <= l
      <4> TAKE k \in a .. d
      <4>1. CASE k = a
        BY <1>1, <3>1, <3>3, <3>4, <3>5, <4>1
      <4>2. CASE k # a
        BY <1>1, <3>1, <3>2, <4>2
      <4> QED BY <4>1, <4>2
    <3>7. \A k \in a .. d : \A j \in a .. d : j < k => p[j] < p[k]
      <4> TAKE k \in a .. d
      <4> TAKE j \in a .. d
      <4> HAVE j < k
      <4>1. k \in a + 1 .. d /\ k \in 0 .. d /\ j \in 0 .. d
        BY <1>1, <3>1
      <4>2. CASE j # a
        BY <1>1, <3>1, <3>2, <4>1, <4>2
      <4>3. CASE j = a /\ k = a + 1
        BY <3>4, <4>3
      <4>4. CASE j = a /\ k # a + 1
        <5>1. p[a + 1] < p[k]
          BY <1>1, <3>1, <3>2, <4>1, <4>4
        <5> QED BY <3>1, <3>4, <3>5, <4>1, <4>4, <5>1
      <4> QED BY <4>2, <4>3, <4>4
    <3> QED BY <2>3, <3>6, <3>7 DEF a
  <2> HIDE DEF P
  <2>4. d \in P
    <3>1. d \in 0 .. d
      BY <1>1
    <3>2. \A i \in 0 .. d : i \in P
      BY <1>1, <2>2, <2>3, UpTo
    <3> QED BY <3>1, <3>2
  <2>5. \A k \in 0 .. d : p[k] <= l /\ \A j \in 0 .. d : j < k => p[j] < p[k]
    <3>1. d - d = 0
      BY <1>1
    <3> QED BY <2>4, <3>1 DEF P
  <2> DEFINE h == [k \in 1 .. d |-> p[k]]
  <2>6. h \in [1 .. d -> 1 .. l]
    <3>1. \A k \in 1 .. d : p[k] \in 1 .. l
      <4> TAKE k \in 1 .. d
      <4>1. p[k] \in 1 .. l + 1 /\ p[k] <= l
        BY <1>1, <1>4, <2>5
      <4> QED BY <1>1, <4>1
    <3> QED BY <3>1
  <2>7. \A j, k \in 1 .. d : j < k => h[j] < h[k]
    BY <1>1, <2>5
  <2>8. \A j \in 1 .. d : wanted[j] = visited[h[j]]
    BY <1>1, <1>4, <2>5
  <2> HIDE DEF h
  <2> QED BY <2>6, <2>7, <2>8 DEF FoundIn, d, l
<1>6. ASSUME FoundIn(wanted, visited)
      PROVE  p[d] <= l
  <2>1. PICK h \in [1 .. d -> 1 .. l] :
               /\ \A j, k \in 1 .. d : j < k => h[j] < h[k]
               /\ \A j \in 1 .. d : wanted[j] = visited[h[j]]
    BY <1>6 DEF FoundIn, d, l
  <2> DEFINE P == {k \in 0 .. d : k = 0 \/ p[k] <= h[k]}
  <2>2. 0 \in P
    BY <1>1
  <2>3. ASSUME NEW k \in 0 .. d, k + 1 \in 0 .. d, k \in P
        PROVE  k + 1 \in P
    <3>1. k + 1 \in 1 .. d /\ (k + 1) - 1 = k /\ h[k + 1] \in 1 .. l
      BY <1>1, <2>1, <2>3
    <3>2. p[k] < h[k + 1]
      <4>1. CASE k = 0
        BY <1>1, <1>3, <3>1, <4>1
      <4>2. CASE k # 0
        <5>1. k \in 1 .. d /\ k < k + 1
          BY <1>1, <4>2
        <5>2. h[k] < h[k + 1] /\ h[k] \in 1 .. l
          BY <2>1, <3>1, <5>1
        <5>3. p[k] \in Nat /\ p[k] <= h[k]
          BY <1>3, <2>3, <4>2
        <5> QED BY <1>1, <3>1, <5>2, <5>3
      <4> QED BY <4>1, <4>2
    <3>3. p[k + 1] <= h[k + 1]
      <4>1. p[k] \in Nat
        BY <1>3
      <4>2. h[k + 1] > p[k] /\ visited[h[k + 1]] = wanted[k + 1]
        BY <1>1, <2>1, <3>1, <3>2, <4>1
      <4> QED BY <1>4, <3>1, <4>2
    <3> QED BY <2>3, <3>3
  <2> HIDE DEF P
  <2>4. d \in P
    <3>1. d \in 0 .. d
      BY <1>1
    <3>2. \A i \in 0 .. d : i \in P
      BY <1>1, <2>2, <2>3, UpTo
    <3> QED BY <3>1, <3>2
  <2>5. CASE d = 0
    BY <1>1, <1>3, <2>5
  <2>6. CASE d # 0
    <3>1. d \in 1 .. d
      BY <1>1, <2>6
    <3>2. p[d] <= h[d] /\ h[d] \in 1 .. l /\ p[d] \in 1 .. l + 1
      BY <1>4, <2>1, <2>4, <2>6, <3>1 DEF P
    <3> QED BY <1>1, <3>2
  <2> QED BY <2>5, <2>6
<1> QED BY <1>3, <1>5, <1>6

-----------------------------------------------------------------------------
(* What an itinerary is made of *)

\* A sequence over a set is one over its elements.
LEMMA OwnElements ==
  ASSUME NEW S, NEW s \in Seq(S)
  PROVE  IsSequence(s) /\ ToSet(s) \subseteq S
<1>1. s \in [1 .. Len(s) -> S] /\ Len(s) \in Nat /\ DOMAIN s = 1 .. Len(s)
  BY LenProperties
<1>2. s \in [1 .. Len(s) -> ToSet(s)]
  BY <1>1 DEF ToSet
<1>3. s \in Seq(ToSet(s))
  BY <1>1, <1>2
<1> QED BY <1>1, <1>3 DEF IsSequence, ToSet

\* The one leg of a generated day is that of an enabled route.
LEMMA DraftLegsAre ==
  ASSUME NEW a, NEW b
  PROVE  DraftLegs(a, b) \in Seq({DraftLeg(r) : r \in Routes})
<1> DEFINE matching == {r \in Routes : r.from = a /\ r.to = b}
           legs == {DraftLeg(r) : r \in Routes}
<1>1. IsFiniteSet(matching)
  BY RoutesAssumption, FS_Subset
<1>2. CASE a # b /\ Cardinality(matching) = 1
  <2>1. PICK r : matching = {r}
    <3> HIDE DEF matching
    <3> QED BY <1>1, <1>2, FS_Singleton
  <2>2. DraftLegs(a, b) = <<DraftLeg(CHOOSE q \in matching : TRUE)>>
    BY <1>2 DEF DraftLegs
  <2>3. (CHOOSE q \in matching : TRUE) \in Routes
    BY <2>1
  <2>4. DraftLeg(CHOOSE q \in matching : TRUE) \in legs
    BY <2>3
  <2> HIDE DEF legs
  <2>5. \A leg \in legs : <<leg>> \in Seq(legs)
    OBVIOUS
  <2>6. DraftLegs(a, b) \in Seq(legs)
    BY <2>2, <2>4, <2>5
  <2> QED BY <2>6 DEF legs
<1>3. CASE ~(a # b /\ Cardinality(matching) = 1)
  <2>1. DraftLegs(a, b) = <<>>
    BY <1>3 DEF DraftLegs
  <2> QED BY <2>1
<1> QED BY <1>2, <1>3

\* A generated day fits, as a composed one does.
LEMMA DraftFits ==
  ASSUME NEW s \in Seq(Cities), NEW i \in DOMAIN s
  PROVE  DayFits(DraftDay(s, i))
<1> DEFINE city == s[i]
           from == IF i = 1 THEN city ELSE s[i - 1]
           day == DraftDay(s, i)
<1>1. Len(s) \in Nat /\ DOMAIN s = 1 .. Len(s) /\ \A k \in 1 .. Len(s) : s[k] \in Cities
  BY LenProperties, ElementOfSeq
<1>2. city \in Cities /\ from \in Cities
  <2>1. i = 1 \/ i - 1 \in 1 .. Len(s)
    BY <1>1
  <2> QED BY <1>1, <2>1
<1> DEFINE room == [tier |-> "A", city |-> city, hotel |-> Absent, breakfast |-> TRUE]
<1>3. /\ day.depart = from /\ day.end = city
      /\ day.hotels = IF i = Len(s) THEN <<>> ELSE <<room>>
      /\ day.legs = DraftLegs(from, city) /\ day.order = <<>>
  BY DEF DraftDay
<1> HIDE DEF day, city, from, room
<1>4. {day.depart, day.end} \subseteq Cities
  BY <1>2, <1>3
<1>5. IsSequence(day.legs) /\ ToSet(day.legs) \subseteq {DraftLeg(r) : r \in Routes}
  <2>1. day.legs \in Seq({DraftLeg(r) : r \in Routes})
    BY <1>3, DraftLegsAre
  <2> QED BY <2>1, OwnElements
<1>6. \A leg \in ToSet(day.legs) : {leg.from, leg.to} \subseteq Cities
  <2>1. \A r \in Routes : {DraftLeg(r).from, DraftLeg(r).to} \subseteq Cities
    BY RoutesAssumption DEF DraftLeg
  <2> QED BY <1>5, <2>1
<1>7. day.order \in Seq(Nat) /\ IsInjective(day.order)
  BY <1>3 DEF IsInjective
<1>8. IsSequence(day.hotels) /\ \A j, k \in DOMAIN day.hotels : j = k
  <2>1. day.hotels \in Seq({room}) /\ \A j, k \in DOMAIN day.hotels : j = k
    <3>1. CASE i = Len(s)
      BY <1>3, <3>1
    <3>2. CASE i # Len(s)
      <4>1. day.hotels = <<room>>
        BY <1>3, <3>2
      <4>2. <<room>> \in Seq({room}) /\ DOMAIN <<room>> = {1}
        OBVIOUS
      <4> QED BY <4>1, <4>2
    <3> QED BY <3>1, <3>2
  <2> QED BY <2>1, OwnElements
<1>9. DayFits(day)
  BY <1>4, <1>5, <1>6, <1>7, <1>8 DEF DayFits
<1> QED BY <1>9 DEF day

\* Every day of a trip fits.
LEMMA TripDaysFit == \A d \in TripDays : DayFits(d)
<1>1. \A d \in DayPlans : DayFits(d)
  BY DayPlansAssumption
<1>2. ASSUME NEW s \in Skeletons, NEW i \in DOMAIN s
      PROVE  DayFits(DraftDay(s, i))
  BY SkeletonsAssumption, DraftFits
<1> QED BY <1>1, <1>2 DEF TripDays

-----------------------------------------------------------------------------
(* The issues of a report *)

\* The destinations are reported missed exactly if they are not found.
LEMMA MismatchMeans ==
  ASSUME NEW t
  PROVE  Issue("MISMATCH", 0) \in Issues(t) <=> ~Follows(t.destinations, Visited(t.days))
<1> DEFINE x == Issue("MISMATCH", 0)
           found == Follows(t.destinations, Visited(t.days))
<1>1. x \notin PlanIssues(t)
  BY DEF PlanIssues, IssueIf, Issue
<1>2. x \notin PriceIssues(t)
  <2>1. \A test, k : test \in BOOLEAN => x \notin IssueIf(test, "E09", k)
    BY DEF IssueIf, Issue
  <2> DEFINE odd == \E row \in t.prices : row.vehicle \notin Vehicles(t.days)
                                           \/ row.tier \notin HotelTiers(t.days)
             bare(i) == \E row \in PricedPlans(t) : row.tier # Absent
                           /\ \A h \in Named(t.days[i].hotels) : h.tier # row.tier
  <2>2. x \notin IssueIf(odd, "E09", 0)
    <3>1. odd \in BOOLEAN
      OBVIOUS
    <3> HIDE DEF odd, x
    <3> QED BY <2>1, <3>1
  <2>3. \A i \in Stays(t.days) : x \notin IssueIf(bare(i), "E09", i)
    <3>1. \A i \in Stays(t.days) : bare(i) \in BOOLEAN
      OBVIOUS
    <3> HIDE DEF bare, x
    <3> QED BY <2>1, <3>1
  <2> HIDE DEF x
  <2> QED BY <2>2, <2>3 DEF PriceIssues
<1>3. ASSUME NEW i \in DOMAIN t.days
      PROVE  x \notin CityIssues(t.days[i], i) \cup HotelIssues(t, i) \cup LegIssues(t, i)
                      \cup FeeIssues(t.days[i], i) \cup ItemIssues(t.days, i)
  <2>1. x \notin CityIssues(t.days[i], i)
    BY DEF CityIssues, IssueIf, Issue
  <2>2. x \notin HotelIssues(t, i)
    BY DEF HotelIssues, IssueIf, Issue
  <2>3. x \notin LegIssues(t, i)
    BY DEF LegIssues, IssueIf, Issue
  <2>4. x \notin FeeIssues(t.days[i], i)
    BY DEF FeeIssues, IssueIf, Issue
  <2>5. x \notin ItemIssues(t.days, i)
    BY DEF ItemIssues, IssueIf, Issue
  <2> QED BY <2>1, <2>2, <2>3, <2>4, <2>5
<1>4. x \in DestinationIssues(t) <=> ~found
  BY DEF DestinationIssues, IssueIf
<1> HIDE DEF x, found
<1>5. x \in Issues(t) <=> ~found
  BY <1>1, <1>2, <1>3, <1>4 DEF Issues
<1> QED BY <1>5 DEF x, found

\* No issue but warnings.
Clean(t) == \A x \in Issues(t) : x.code = "W01"

\* What the days of a trip without errors are like.
DaysClean(t) ==
    \A i \in DOMAIN t.days :
        LET day == t.days[i]
            arrived == IF day.legs = <<>> THEN day.depart ELSE Last(day.legs).to
        IN  /\ \A k \in DOMAIN day.legs : day.legs[k].from = LegFrom(day, k)
            /\ arrived = day.end
            /\ i > 1 => t.days[i - 1].end = day.depart
            /\ day.overnight # Absent =>
                   /\ day.overnight = day.end
                   /\ \A h \in ToSet(day.hotels) : h.city = day.overnight
                   /\ (\E k \in DOMAIN t.days : t.days[k].hotels # <<>>) => Named(day.hotels) # {}
                   /\ \A row \in PricedPlans(t) : row.tier # Absent =>
                          \E h \in Named(day.hotels) : h.tier = row.tier

LEMMA CleanMeans ==
  ASSUME NEW t, Clean(t)
  PROVE  Len(t.days) = t.duration /\ DaysClean(t)
<1>1. Len(t.days) = t.duration
  <2>1. PlanIssues(t) \subseteq Issues(t)
    BY DEF Issues
  <2>2. Issue("E01", 0) \notin PlanIssues(t)
    BY <2>1 DEF Clean, Issue
  <2> QED BY <2>2 DEF PlanIssues, IssueIf
<1>2. ASSUME NEW i \in DOMAIN t.days
      PROVE  LET day == t.days[i]
                 arrived == IF day.legs = <<>> THEN day.depart ELSE Last(day.legs).to
             IN  /\ \A k \in DOMAIN day.legs : day.legs[k].from = LegFrom(day, k)
                 /\ arrived = day.end
                 /\ i > 1 => t.days[i - 1].end = day.depart
  <2>1. LegIssues(t, i) \subseteq Issues(t)
    BY DEF Issues
  <2>2. Issue("E03", i) \notin LegIssues(t, i)
    BY <2>1 DEF Clean, Issue
  <2> QED BY <2>2 DEF LegIssues, IssueIf
<1>3. ASSUME NEW i \in DOMAIN t.days, t.days[i].overnight # Absent
      PROVE  LET day == t.days[i]
             IN  /\ day.overnight = day.end
                 /\ \A h \in ToSet(day.hotels) : h.city = day.overnight
                 /\ (\E k \in DOMAIN t.days : t.days[k].hotels # <<>>) => Named(day.hotels) # {}
  <2>1. HotelIssues(t, i) \subseteq Issues(t)
    BY DEF Issues
  <2>2. Issue("E02", i) \notin HotelIssues(t, i) /\ Issue("E06", i) \notin HotelIssues(t, i)
    BY <2>1 DEF Clean, Issue
  <2> QED BY <1>3, <2>2 DEF HotelIssues, IssueIf
<1>4. ASSUME NEW i \in DOMAIN t.days, t.days[i].overnight # Absent,
             NEW row \in PricedPlans(t), row.tier # Absent
      PROVE  \E h \in Named(t.days[i].hotels) : h.tier = row.tier
  <2>1. PriceIssues(t) \subseteq Issues(t)
    BY DEF Issues
  <2>2. Issue("E09", i) \notin PriceIssues(t)
    BY <2>1 DEF Clean, Issue
  <2>3. i \in Stays(t.days)
    BY <1>4 DEF Stays
  <2>4. Issue("E09", i) \notin
            IssueIf(\E r \in PricedPlans(t) : r.tier # Absent
                       /\ \A h \in Named(t.days[i].hotels) : h.tier # r.tier, "E09", i)
    BY <2>2, <2>3 DEF PriceIssues
  <2> QED BY <1>4, <2>4 DEF IssueIf
<1>5. DaysClean(t)
  BY <1>2, <1>3, <1>4 DEF DaysClean
<1> QED BY <1>1, <1>5

\* The cities at the end of each day, and of each leg, make the route.
LEMMA CleanConnects ==
  ASSUME NEW t, t.days \in Seq(TripDays), t.days # <<>>, DaysClean(t)
  PROVE  Connected(t.days)
<1> DEFINE days == t.days
           n == Len(days)
           at == [i \in 0 .. n |-> IF i = 0 THEN days[1].depart ELSE days[i].end]
<1>1. n \in Nat /\ n # 0 /\ DOMAIN days = 1 .. n /\ \A i \in 1 .. n : DayFits(days[i])
  BY TripDaysFit, LenProperties, EmptySeq, ElementOfSeq
<1>2. \A i \in 1 .. n : days[i].depart \in Cities /\ days[i].end \in Cities
  BY <1>1 DEF DayFits
<1>3. at \in [0 .. n -> Cities]
  <2>1. \A i \in 0 .. n : i # 0 => i \in 1 .. n
    BY <1>1
  <2>2. 1 \in 1 .. n
    BY <1>1
  <2> HIDE DEF n, days
  <2> QED BY <1>2, <2>1, <2>2
<1>4. ASSUME NEW i \in 1 .. n
      PROVE  /\ days[i].depart = at[i - 1]
             /\ days[i].end = at[i]
             /\ \E stops \in [0 .. Len(days[i].legs) -> Cities] :
                   /\ stops[0] = at[i - 1]
                   /\ stops[Len(days[i].legs)] = at[i]
                   /\ \A k \in DOMAIN days[i].legs :
                         days[i].legs[k].from = stops[k - 1] /\ days[i].legs[k].to = stops[k]
  <2> DEFINE day == days[i]
             l == Len(day.legs)
             arrived == IF day.legs = <<>> THEN day.depart ELSE Last(day.legs).to
             stops == [k \in 0 .. l |-> IF k = 0 THEN day.depart ELSE day.legs[k].to]
  <2>1. /\ \A k \in DOMAIN day.legs : day.legs[k].from = LegFrom(day, k)
        /\ arrived = day.end
        /\ i > 1 => days[i - 1].end = day.depart
    BY <1>1 DEF DaysClean
  <2>2. day.depart = at[i - 1] /\ day.end = at[i]
    <3>1. at[i] = day.end
      BY <1>1
    <3>2. CASE i = 1
      BY <1>1, <3>1, <3>2
    <3>3. CASE i # 1
      <4>1. i > 1 /\ i - 1 \in 0 .. n /\ i - 1 # 0
        BY <1>1, <3>3
      <4> QED BY <2>1, <3>1, <4>1
    <3> QED BY <3>2, <3>3
  <2>3. /\ l \in Nat /\ DOMAIN day.legs = 1 .. l /\ (day.legs = <<>> <=> l = 0)
        /\ \A k \in 1 .. l : day.legs[k].from \in Cities /\ day.legs[k].to \in Cities
    <3>1. IsSequence(day.legs) /\ \A leg \in ToSet(day.legs) : {leg.from, leg.to} \subseteq Cities
      BY <1>1 DEF DayFits
    <3>2. l \in Nat /\ DOMAIN day.legs = 1 .. l
      BY <3>1, LenProperties DEF IsSequence
    <3>3. day.legs = <<>> <=> l = 0
      BY <3>1, EmptySeq DEF IsSequence
    <3>4. \A k \in 1 .. l : day.legs[k] \in ToSet(day.legs)
      BY <3>2 DEF ToSet
    <3> QED BY <3>1, <3>2, <3>3, <3>4
  <2>4. stops \in [0 .. l -> Cities] /\ stops[0] = day.depart
    <3>1. \A k \in 0 .. l : k # 0 => k \in 1 .. l
      BY <2>3
    <3>2. 0 \in 0 .. l
      BY <2>3
    <3> HIDE DEF l, day
    <3> QED BY <1>2, <2>3, <3>1, <3>2 DEF day
  <2>5. stops[l] = day.end
    <3>1. CASE l = 0
      BY <2>1, <2>3, <2>4, <3>1
    <3>2. CASE l # 0
      <4>1. stops[l] = day.legs[l].to
        BY <2>3, <3>2
      <4> QED BY <2>1, <2>3, <3>2, <4>1 DEF Last
    <3> QED BY <3>1, <3>2
  <2>6. ASSUME NEW k \in 1 .. l
        PROVE  day.legs[k].from = stops[k - 1] /\ day.legs[k].to = stops[k]
    <3>1. k \in 0 .. l /\ k # 0 /\ k - 1 \in 0 .. l /\ (k - 1 = 0 <=> k = 1)
      BY <2>3
    <3>2. day.legs[k].from = LegFrom(day, k)
      BY <2>1, <2>3
    <3>3. stops[k] = day.legs[k].to
      BY <3>1
    <3>4. stops[k - 1] = LegFrom(day, k)
      BY <3>1 DEF LegFrom
    <3> QED BY <3>2, <3>3, <3>4
  <2> HIDE DEF stops
  <2> QED BY <2>2, <2>3, <2>4, <2>5, <2>6
<1> HIDE DEF at
<1> DEFINE Leads(i) == LET legs == days[i].legs
                       IN  /\ days[i].depart = at[i - 1]
                           /\ days[i].end = at[i]
                           /\ \E stops \in [0 .. Len(legs) -> Cities] :
                                 /\ stops[0] = at[i - 1]
                                 /\ stops[Len(legs)] = at[i]
                                 /\ \A k \in DOMAIN legs :
                                       legs[k].from = stops[k - 1] /\ legs[k].to = stops[k]
<1>5. ASSUME NEW i \in DOMAIN days
      PROVE  Leads(i)
  <2>1. i \in 1 .. n
    BY <1>1
  <2> HIDE DEF n, days
  <2> QED BY <1>4, <2>1, Zenon
<1> QED BY <1>3, <1>5, Zenon DEF Connected

\* For each price a clean trip has its hotel every night.
LEMMA CleanHotels ==
  ASSUME NEW t, t.days \in Seq(TripDays), DaysClean(t),
         NEW row \in PricedPlans(t), NEW i \in DOMAIN t.days,
         t.days[i].overnight # Absent, Offered(t.days) # {}
  PROVE  \E h \in ToSet(t.days[i].hotels) :
            /\ row.tier \in {h.tier, Absent}
            /\ h.hotel # Absent
            /\ h.city = t.days[i].end
<1> DEFINE day == t.days[i]
<1>1. /\ day.overnight = day.end
      /\ \A h \in ToSet(day.hotels) : h.city = day.overnight
      /\ (\E k \in DOMAIN t.days : t.days[k].hotels # <<>>) => Named(day.hotels) # {}
      /\ row.tier # Absent => \E h \in Named(day.hotels) : h.tier = row.tier
  BY DEF DaysClean
<1>2. PICK k \in DOMAIN t.days : ToSet(t.days[k].hotels) # {}
  BY DEF Offered
<1>3. t.days[k].hotels # <<>>
  BY <1>2 DEF ToSet
<1>4. PICK h \in Named(day.hotels) : row.tier \in {h.tier, Absent}
  <2>1. CASE row.tier = Absent
    BY <1>1, <1>3, <2>1
  <2>2. CASE row.tier # Absent
    BY <1>1, <2>2
  <2> QED BY <2>1, <2>2
<1> HIDE DEF day
<1>5. h \in ToSet(day.hotels) /\ h.hotel # Absent
  BY <1>4 DEF Named
<1> QED BY <1>1, <1>4, <1>5 DEF day

\* What the preview of a trip says may be confirmed can be made.
LEMMA ConfirmableKept ==
  ASSUME TripFits, trip.prices # {}, preview = BuildWebsitePreview(trip)
  PROVE  ReportConfirmable
<1>1. trip.days \in Seq(TripDays) /\ trip.days # <<>> /\ trip.destinations \in Destinations
  BY DEF TripFits
<1>2. IsSequence(trip.destinations) /\ IsInjective(trip.destinations)
  BY <1>1, DestinationsAssumption
<1>3. preview.issues = Issues(trip) /\ preview.quotation = Quotation(trip)
  BY DEF BuildWebsitePreview
<1>4. Issue("MISMATCH", 0) \in preview.issues <=> ~Embedded(trip.destinations, trip.days)
  <2>1. Visited(trip.days) \in Seq(Cities)
    BY <1>1, TripDaysFit, VisitedStops
  <2>2. Follows(trip.destinations, Visited(trip.days)) <=> FoundIn(trip.destinations, Visited(trip.days))
    BY <1>2, <2>1, GreedyFinds
  <2>3. Embedded(trip.destinations, trip.days) <=> FoundIn(trip.destinations, Visited(trip.days))
    BY <1>1, <1>2, TripDaysFit, EmbeddedFound
  <2> QED BY <1>3, <2>2, <2>3, MismatchMeans
<1>5. ASSUME {x \in preview.issues : x.code # "W01"} = {}
      PROVE  /\ Len(trip.days) = trip.duration
             /\ Connected(trip.days)
             /\ \A q \in preview.quotation : \A i \in DOMAIN trip.days :
                   trip.days[i].overnight # Absent /\ Offered(trip.days) # {} =>
                       \E h \in ToSet(trip.days[i].hotels) :
                           /\ q.tier \in {h.tier, Absent}
                           /\ h.hotel # Absent
                           /\ h.city = trip.days[i].end
  <2>1. Clean(trip)
    BY <1>3, <1>5 DEF Clean
  <2>2. Len(trip.days) = trip.duration /\ DaysClean(trip)
    BY <2>1, CleanMeans
  <2>3. Connected(trip.days)
    BY <1>1, <2>2, CleanConnects
  <2>4. ASSUME NEW q \in preview.quotation, NEW i \in DOMAIN trip.days,
               trip.days[i].overnight # Absent, Offered(trip.days) # {}
        PROVE  \E h \in ToSet(trip.days[i].hotels) :
                  /\ q.tier \in {h.tier, Absent}
                  /\ h.hotel # Absent
                  /\ h.city = trip.days[i].end
    <3>1. PICK row \in PricedPlans(trip) : q.tier = row.tier
      BY <1>3 DEF Quotation
    <3> QED BY <1>1, <2>2, <2>4, <3>1, CleanHotels
  <2> QED BY <2>2, <2>3, <2>4
<1> QED BY <1>4, <1>5 DEF ReportConfirmable

-----------------------------------------------------------------------------
(* The nights, hotel by hotel *)

HotelsOf(days) == UNION {ToSet(days[i].hotels) : i \in DOMAIN days}

NightRow(days) == [day : Nat, stay : HotelsOf(days)]

EachHotel(rows, days, i) ==
    i \in Stays(days) => \A h \in ToSet(days[i].hotels) : \E k \in 1 .. Len(rows) : rows[k].stay = h

\* The nights of one day: one for each of its hotels.
LEMMA RowsOfDay ==
  ASSUME NEW days, days \in Seq(TripDays), NEW i \in 1 .. Len(days)
  PROVE  /\ RowsOf(days, i) \in Seq(NightRow(days))
         /\ \A k \in 1 .. Len(RowsOf(days, i)) :
               /\ i \in Stays(days)
               /\ RowsOf(days, i)[k].day = i
               /\ RowsOf(days, i)[k].stay \in ToSet(days[i].hotels)
         /\ EachHotel(RowsOf(days, i), days, i)
         /\ \A j, k \in 1 .. Len(RowsOf(days, i)) : RowsOf(days, i)[j] = RowsOf(days, i)[k] => j = k
<1> DEFINE rows == RowsOf(days, i)
           hotels == days[i].hotels
           l == Len(hotels)
<1>1. i \in DOMAIN days /\ i \in Nat /\ DayFits(days[i])
  BY TripDaysFit, LenProperties, ElementOfSeq
<1>2. l \in Nat /\ DOMAIN hotels = 1 .. l /\ \A k \in 1 .. l : hotels[k] \in ToSet(hotels)
  <2>1. IsSequence(hotels)
    BY <1>1 DEF DayFits
  <2>2. l \in Nat /\ DOMAIN hotels = 1 .. l
    BY <2>1, LenProperties DEF IsSequence
  <2> QED BY <2>2 DEF ToSet
<1>3. \A j, k \in 1 .. l : hotels[j] = hotels[k] => j = k
  BY <1>1, <1>2 DEF DayFits
<1>4. ToSet(hotels) \subseteq HotelsOf(days) /\ \A h \in ToSet(hotels) : \E k \in 1 .. l : hotels[k] = h
  BY <1>1, <1>2 DEF HotelsOf, ToSet
<1> HIDE DEF hotels, l
<1>5. CASE days[i].overnight = Absent
  <2>1. rows = <<>>
    BY <1>5 DEF RowsOf
  <2>2. i \notin Stays(days)
    BY <1>5 DEF Stays
  <2>3. rows \in Seq(NightRow(days)) /\ 1 .. Len(rows) = {}
    BY <2>1
  <2> HIDE DEF rows
  <2> QED BY <2>2, <2>3 DEF rows, EachHotel
<1>6. CASE days[i].overnight # Absent
  <2>1. rows = [k \in 1 .. l |-> [day |-> i, stay |-> hotels[k]]]
    BY <1>2, <1>6 DEF RowsOf, hotels
  <2>2. i \in Stays(days)
    BY <1>1, <1>6 DEF Stays
  <2> HIDE DEF rows
  <2>3. \A k \in 1 .. l : rows[k] = [day |-> i, stay |-> hotels[k]]
    BY <2>1
  <2>4. rows \in [1 .. l -> NightRow(days)]
    BY <1>1, <1>2, <1>4, <2>1 DEF NightRow
  <2>5. rows \in Seq(NightRow(days)) /\ Len(rows) = l
    BY <1>2, <2>4
  <2>6. ASSUME NEW k \in 1 .. l
        PROVE  rows[k].day = i /\ rows[k].stay = hotels[k]
    <3>1. rows[k] = [day |-> i, stay |-> hotels[k]]
      BY <2>3
    <3> QED BY <3>1
  <2>7. \A j, k \in 1 .. l : rows[j] = rows[k] => j = k
    BY <1>3, <2>6
  <2>8. \A k \in 1 .. l : i \in Stays(days) /\ rows[k].day = i /\ rows[k].stay \in ToSet(hotels)
    BY <1>2, <2>2, <2>6
  <2>9. \A h \in ToSet(hotels) : \E k \in 1 .. l : rows[k].stay = h
    BY <1>4, <2>6
  <2>10. 1 .. Len(rows) = 1 .. l
    BY <2>5
  <2>11. EachHotel(rows, days, i)
    BY <2>9, <2>10 DEF EachHotel, hotels
  <2> HIDE DEF l
  <2> QED BY <2>5, <2>7, <2>8, <2>10, <2>11 DEF rows, hotels
<1> QED BY <1>5, <1>6

\* How the nights are listed.
RowsSoFar(p, days) ==
    /\ p \in [0 .. Len(days) -> Seq(NightRow(days))]
    /\ p[0] = <<>>
    /\ \A k \in 1 .. Len(days) : p[k] = p[k - 1] \o RowsOf(days, k)
    /\ HotelRows(days) = p[Len(days)]

\* The nights are a fold over the days.
LEMMA HotelRowsFold ==
  ASSUME NEW days, days \in Seq(TripDays)
  PROVE  \E p : RowsSoFar(p, days)
<1> DEFINE n == Len(days)
           V == Seq(NightRow(days))
           nth == [i \in DOMAIN days |-> i]
           step == [x \in V \X (1 .. n) |-> x[1] \o RowsOf(days, nth[x[2]])]
<1>1. /\ n \in Nat /\ DOMAIN nth = 1 .. n
      /\ \A k \in 1 .. n : nth[k] = k /\ RowsOf(days, nth[k]) \in V
  <2>1. n \in Nat /\ DOMAIN nth = 1 .. n /\ \A k \in 1 .. n : nth[k] = k
    BY LenProperties
  <2> QED BY <2>1, RowsOfDay
<1>2. step \in [V \X (1 .. n) -> V] /\ <<>> \in V
  BY <1>1
<1> HIDE DEF n, V, nth
<1>3. PICK g : FoldOf(g, V, n, step, <<>>)
  <2> HIDE DEF step
  <2> QED BY <1>1, <1>2, FoldsKept
<1> DEFINE It(i) == i = [s \in SUBSET (1 .. n) |-> IF s = {} THEN <<>>
                          ELSE i[s \ {Max(s)}] \o RowsOf(days, nth[Max(s)])]
           it == CHOOSE i : It(i)
<1>4. It(g)
  <2>1. \A s \in SUBSET (1 .. n) : s # {} =>
            step[<<g[s \ {Max(s)}], Max(s)>>] = g[s \ {Max(s)}] \o RowsOf(days, nth[Max(s)])
    BY <1>3 DEF FoldOf
  <2> HIDE DEF step
  <2> QED BY <1>3, <2>1 DEF FoldOf, Folds
<1>5. It(it)
  <2> HIDE DEF It
  <2> QED BY <1>4
<1>6. HotelRows(days) = it[1 .. n]
  BY <1>1 DEF HotelRows, FoldLeftDomain, FoldLeft, MapThenFoldSet, nth
<1> HIDE DEF it
<1> DEFINE W == V \cup {it[s] : s \in SUBSET (1 .. n)}
           next == [x \in W \X (1 .. n) |-> x[1] \o RowsOf(days, nth[x[2]])]
<1>7. Folds(it, next, <<>>, 1 .. n)
  <2>1. \A s \in SUBSET (1 .. n) : s # {} =>
            next[<<it[s \ {Max(s)}], Max(s)>>] = it[s \ {Max(s)}] \o RowsOf(days, nth[Max(s)])
    BY <1>3 DEF FoldOf
  <2> HIDE DEF next
  <2> QED BY <1>5, <2>1 DEF Folds
<1>8. \A v \in V, k \in 1 .. n : next[<<v, k>>] = v \o RowsOf(days, nth[k]) /\ next[<<v, k>>] \in V
  <2> TAKE v \in V, k \in 1 .. n
  <2>1. next[<<v, k>>] = v \o RowsOf(days, nth[k])
    OBVIOUS
  <2>2. RowsOf(days, nth[k]) \in Seq(NightRow(days)) /\ v \in Seq(NightRow(days))
    BY <1>1 DEF V
  <2>3. v \o RowsOf(days, nth[k]) \in Seq(NightRow(days))
    BY <2>2, ConcatProperties
  <2> QED BY <2>1, <2>3 DEF V
<1> HIDE DEF next
<1>9. PICK p : Results(p, V, n, it, next, <<>>)
  BY <1>1, <1>2, <1>7, <1>8, FoldResults
<1>10. RowsSoFar(p, days)
  <2>1. p \in [0 .. n -> V] /\ p[0] = <<>> /\ p[n] = it[1 .. n]
    BY <1>9 DEF Results
  <2>2. \A k \in 1 .. n : p[k] = p[k - 1] \o RowsOf(days, nth[k])
    <3> TAKE k \in 1 .. n
    <3>1. k - 1 \in 0 .. n
      BY <1>1
    <3>2. p[k - 1] \in V /\ p[k] = next[<<p[k - 1], k>>]
      BY <1>9, <3>1 DEF Results
    <3> QED BY <1>8, <3>2
  <2>3. \A k \in 1 .. n : p[k] = p[k - 1] \o RowsOf(days, k)
    BY <1>1, <2>2
  <2> QED BY <1>6, <2>1, <2>3 DEF RowsSoFar, n, V
<1> QED BY <1>10

\* Each hotel of each night is listed once, in the order of the days.
NightsListed(rows, days, k) ==
    /\ \A j \in 1 .. Len(rows) :
          /\ rows[j].day \in Stays(days) /\ rows[j].day <= k
          /\ rows[j].stay \in ToSet(days[rows[j].day].hotels)
    /\ \A i \in Stays(days) : i <= k => \A h \in ToSet(days[i].hotels) :
          \E j \in 1 .. Len(rows) : rows[j].day = i /\ rows[j].stay = h
    /\ \A i, j \in 1 .. Len(rows) : i < j => rows[i].day <= rows[j].day /\ rows[i] # rows[j]

LEMMA HotelRowsAre ==
  ASSUME NEW days, days \in Seq(TripDays)
  PROVE  /\ HotelRows(days) \in Seq(NightRow(days))
         /\ NightsListed(HotelRows(days), days, Len(days))
<1> DEFINE n == Len(days)
<1>1. n \in Nat /\ DOMAIN days = 1 .. n
  BY LenProperties
<1>2. PICK p : RowsSoFar(p, days)
  BY HotelRowsFold
<1>3. /\ p \in [0 .. n -> Seq(NightRow(days))] /\ p[0] = <<>>
      /\ \A k \in 1 .. n : p[k] = p[k - 1] \o RowsOf(days, k)
      /\ HotelRows(days) = p[n]
  BY <1>2 DEF RowsSoFar
<1>4. Stays(days) \subseteq 1 .. n
  BY <1>1 DEF Stays
<1> DEFINE P == {k \in 0 .. n : NightsListed(p[k], days, k)}
<1>5. 0 \in P
  <2>1. 1 .. Len(p[0]) = {} /\ 0 \in 0 .. n
    BY <1>1, <1>3
  <2>2. \A i \in Stays(days) : ~(i <= 0)
    BY <1>1, <1>4
  <2> HIDE DEF n
  <2> QED BY <2>1, <2>2 DEF NightsListed
<1>6. ASSUME NEW k \in 0 .. n, k + 1 \in 0 .. n, k \in P
      PROVE  k + 1 \in P
  <2> DEFINE m == k + 1
             old == p[k]
             more == RowsOf(days, m)
             new == p[m]
             a == Len(old)
             b == Len(more)
  <2>1. m \in 1 .. n /\ m - 1 = k /\ k \in Nat /\ m \in Int
    BY <1>1, <1>6
  <2>2. new = old \o more
    BY <1>3, <2>1
  <2>3. /\ old \in Seq(NightRow(days)) /\ NightsListed(old, days, k)
    BY <1>3, <1>6
  <2> HIDE DEF m, more
  <2>4. more \in Seq(NightRow(days))
    BY <2>1, RowsOfDay DEF more
  <2>12. \A j \in 1 .. b : m \in Stays(days) /\ more[j].day = m /\ more[j].stay \in ToSet(days[m].hotels)
    BY <2>1, RowsOfDay DEF more
  <2>13. m \in Stays(days) => \A h \in ToSet(days[m].hotels) : \E j \in 1 .. b : more[j].stay = h
    <3>1. EachHotel(RowsOf(days, m), days, m)
      BY <2>1, RowsOfDay
    <3> QED BY <3>1 DEF EachHotel, more
  <2>14. \A i, j \in 1 .. b : more[i] = more[j] => i = j
    BY <2>1, RowsOfDay DEF more
  <2>5. a \in Nat /\ b \in Nat
    BY <2>3, <2>4, LenProperties
  <2>6. /\ Len(new) = a + b
        /\ \A j \in 1 .. a : new[j] = old[j]
        /\ \A j \in a + 1 .. a + b : j - a \in 1 .. b /\ new[j] = more[j - a]
    <3>1. Len(new) = a + b /\ \A j \in 1 .. a + b : new[j] = IF j <= a THEN old[j] ELSE more[j - a]
      <4> HIDE DEF old, new
      <4> QED BY <2>2, <2>3, <2>4, ConcatProperties
    <3> HIDE DEF a, b, new, old, more
    <3> QED BY <2>5, <3>1
  <2> HIDE DEF m, old, more, new, a, b
  <2>7. \A j \in 1 .. a : /\ old[j].day \in Stays(days) /\ old[j].day <= k
                          /\ old[j].stay \in ToSet(days[old[j].day].hotels)
    BY <2>3 DEF NightsListed, a
  <2>8. ASSUME NEW j \in 1 .. a + b
        PROVE  /\ new[j].day \in Stays(days) /\ new[j].day <= m
               /\ new[j].stay \in ToSet(days[new[j].day].hotels)
    <3>1. CASE j \in 1 .. a
      <4>1. new[j] = old[j] /\ old[j].day \in Int
        BY <1>4, <2>6, <2>7, <3>1
      <4> QED BY <2>1, <2>7, <3>1, <4>1
    <3>2. CASE j \in a + 1 .. a + b
      <4>1. j - a \in 1 .. b /\ new[j] = more[j - a]
        BY <2>6, <3>2
      <4> QED BY <2>1, <2>12, <4>1
    <3> QED BY <2>5, <3>1, <3>2
  <2>9. ASSUME NEW i \in Stays(days), i <= m, NEW h \in ToSet(days[i].hotels)
        PROVE  \E j \in 1 .. a + b : new[j].day = i /\ new[j].stay = h
    <3>1. CASE i <= k
      <4>1. PICK j \in 1 .. a : old[j].day = i /\ old[j].stay = h
        BY <2>3, <3>1 DEF NightsListed, a
      <4> QED BY <2>5, <2>6, <4>1
    <3>2. CASE i = m
      <4>1. PICK j \in 1 .. b : more[j].stay = h
        BY <2>13, <3>2
      <4>2. a + j \in a + 1 .. a + b /\ (a + j) - a = j /\ a + j \in 1 .. a + b
        BY <2>5
      <4>3. new[a + j] = more[j] /\ more[j].day = m
        BY <2>6, <2>12, <4>2
      <4> QED BY <3>2, <4>1, <4>2, <4>3
    <3>3. i \in Int
      BY <1>4
    <3> QED BY <2>1, <2>9, <3>1, <3>2, <3>3
  <2>10. ASSUME NEW i \in 1 .. a + b, NEW j \in 1 .. a + b, i < j
         PROVE  new[i].day <= new[j].day /\ new[i] # new[j]
    <3>1. CASE j \in 1 .. a
      <4>1. i \in 1 .. a
        BY <2>5, <2>10, <3>1
      <4>2. old[i].day <= old[j].day /\ old[i] # old[j]
        BY <2>3, <2>10, <3>1, <4>1 DEF NightsListed, a
      <4> QED BY <2>6, <3>1, <4>1, <4>2
    <3>2. CASE i \in 1 .. a /\ j \in a + 1 .. a + b
      <4>1. new[i] = old[i] /\ old[i].day <= k /\ old[i].day \in Int
        BY <1>4, <2>6, <2>7, <3>2
      <4>2. new[j].day = m
        <5>1. j - a \in 1 .. b /\ new[j] = more[j - a]
          BY <2>6, <3>2
        <5> QED BY <2>12, <5>1
      <4>3. m = k + 1
        BY DEF m
      <4> QED BY <2>1, <4>1, <4>2, <4>3
    <3>3. CASE i \in a + 1 .. a + b /\ j \in a + 1 .. a + b
      <4>1. new[i] = more[i - a] /\ new[j] = more[j - a] /\ i - a \in 1 .. b /\ j - a \in 1 .. b
        BY <2>6, <3>3
      <4>2. i - a # j - a
        BY <2>5, <2>10
      <4>3. new[i] # new[j]
        BY <2>14, <4>1, <4>2
      <4>4. new[i].day = m /\ new[j].day = m
        BY <2>12, <4>1
      <4> QED BY <2>1, <4>3, <4>4
    <3> QED BY <2>5, <2>10, <3>1, <3>2, <3>3
  <2>11. NightsListed(new, days, m)
    BY <2>6, <2>8, <2>9, <2>10 DEF NightsListed
  <2> QED BY <1>6, <2>11 DEF m, new
<1> HIDE DEF P
<1>7. \A k \in 0 .. n : k \in P
  BY <1>1, <1>5, <1>6, UpTo
<1>8. n \in 0 .. n
  BY <1>1
<1>9. NightsListed(p[n], days, n) /\ p[n] \in Seq(NightRow(days))
  BY <1>3, <1>7, <1>8 DEF P
<1> QED BY <1>3, <1>9

-----------------------------------------------------------------------------
(* The stays *)

Option(H) == [stay : H, startDay : Int, endDay : Int, nights : Int]

\* A stay ends no sooner than it starts; two in the same hotel are a night apart.
Separate(options) ==
    /\ \A a \in 1 .. Len(options) :
          /\ options[a].startDay <= options[a].endDay
          /\ options[a].nights = options[a].endDay - options[a].startDay + 1
    /\ \A a, b \in 1 .. Len(options) :
          a < b /\ options[a].stay = options[b].stay => options[a].endDay + 1 < options[b].startDay

Covered(options, day, stay) ==
    \E a \in 1 .. Len(options) :
        options[a].stay = stay /\ options[a].startDay <= day /\ day <= options[a].endDay

\* What a night does to the stays: it is covered, nothing that was covered is lost, and
\* a stay ends when it did or with this night.
Joins(options, new, row) ==
    /\ Covered(new, row.day, row.stay)
    /\ \A d \in Nat : \A h : Covered(options, d, h) => Covered(new, d, h)
    /\ \A b \in 1 .. Len(new) :
          \/ new[b].stay = row.stay /\ new[b].endDay = row.day
          \/ \E a \in 1 .. Len(options) :
                new[b].stay = options[a].stay /\ new[b].endDay = options[a].endDay

\* The last stay of a hotel.
LEMMA LatestIs ==
  ASSUME NEW H, NEW options \in Seq(Option(H)), NEW stay
  PROVE  LET o == LatestOf(options, stay)
         IN  /\ o \in 0 .. Len(options)
             /\ o # 0 => options[o].stay = stay
             /\ \A a \in 1 .. Len(options) : options[a].stay = stay => o # 0 /\ a <= o
<1> DEFINE same == {o \in DOMAIN options : options[o].stay = stay}
<1>1. Len(options) \in Nat /\ DOMAIN options = 1 .. Len(options)
  BY LenProperties
<1>2. same \subseteq Nat /\ IsFiniteSet(same) /\ same \subseteq 1 .. Len(options)
  BY <1>1, FirstFinite, FS_Subset
<1>3. CASE same = {}
  <2>1. LatestOf(options, stay) = 0
    BY <1>3 DEF LatestOf
  <2> QED BY <1>1, <1>3, <2>1
<1>4. CASE same # {}
  <2>1. LatestOf(options, stay) = Max(same)
    BY <1>4 DEF LatestOf
  <2>2. Max(same) \in same /\ \A q \in same : Max(same) >= q
    <3> HIDE DEF same
    <3> QED BY <1>2, <1>4, Largest
  <2> QED BY <1>1, <2>1, <2>2
<1> QED BY <1>3, <1>4

\* A function on the first numbers is a sequence.
LEMMA ListsAre ==
  ASSUME NEW V
  PROVE  \A n \in Nat : [1 .. n -> V] \subseteq Seq(V)
OBVIOUS

\* The last stay of a hotel, made longer.
LongerBy(options, o, row, longer) ==
    /\ longer.stay = row.stay /\ longer.startDay = options[o].startDay
    /\ longer.endDay = row.day /\ longer.nights = options[o].nights + 1

IsLonger(options, o, row, new) ==
    \E longer : /\ LongerBy(options, o, row, longer)
                /\ \A a \in 1 .. Len(options) : new[a] = IF a = o THEN longer ELSE options[a]

LEMMA LongerIs ==
  ASSUME NEW H, NEW options \in Seq(Option(H)), NEW row \in [day : Nat, stay : H],
         NEW o \in 1 .. Len(options), options[o].stay = row.stay,
         NEW new, new = [options EXCEPT ![o].endDay = row.day, ![o].nights = @ + 1]
  PROVE  new \in Seq(Option(H)) /\ Len(new) = Len(options) /\ IsLonger(options, o, row, new)
<1> DEFINE l == Len(options)
           longer == [options[o] EXCEPT !.endDay = row.day, !.nights = @ + 1]
<1>1. /\ l \in Nat /\ DOMAIN options = 1 .. l /\ options \in [1 .. l -> Option(H)]
      /\ row.day \in Nat /\ row.stay \in H
  BY LenProperties
<1>2. \A a \in 1 .. l : /\ options[a].stay \in H /\ options[a].startDay \in Int
                        /\ options[a].endDay \in Int /\ options[a].nights \in Int
  BY <1>1 DEF Option
<1>3. /\ longer.stay = row.stay /\ longer.startDay = options[o].startDay
      /\ longer.endDay = row.day /\ longer.nights = options[o].nights + 1
      /\ longer \in Option(H)
  <2>1. options[o] \in Option(H)
    BY <1>1
  <2> DEFINE r == options[o]
  <2>2. /\ r \in [stay : H, startDay : Int, endDay : Int, nights : Int]
        /\ longer = [r EXCEPT !.endDay = row.day, !.nights = @ + 1]
    BY <2>1 DEF Option
  <2>3. row.day \in Int /\ r.nights + 1 \in Int /\ r.stay = row.stay
    BY <1>1, <1>2
  <2> HIDE DEF r, longer
  <2>4. /\ longer.stay = r.stay /\ longer.startDay = r.startDay
        /\ longer.endDay = row.day /\ longer.nights = r.nights + 1
        /\ longer \in [stay : H, startDay : Int, endDay : Int, nights : Int]
    BY <2>2, <2>3
  <2> QED BY <2>3, <2>4 DEF Option, r
<1>4. new = [options EXCEPT ![o] = longer]
  BY <1>1, <1>2 DEF Option
<1> HIDE DEF longer
<1>5. new \in [1 .. l -> Option(H)] /\ new \in Seq(Option(H)) /\ Len(new) = l
  <2> HIDE DEF l
  <2>1. new \in [1 .. l -> Option(H)]
    BY <1>1, <1>3, <1>4
  <2>2. new \in Seq(Option(H))
    BY <1>1, <2>1, ListsAre
  <2>3. Len(new) = l
    BY <1>1, <2>1, <2>2, LenProperties
  <2> QED BY <2>1, <2>2, <2>3
<1>6. \A a \in 1 .. l : new[a] = IF a = o THEN longer ELSE options[a]
  BY <1>1, <1>4
<1> QED BY <1>3, <1>5, <1>6 DEF IsLonger, LongerBy, l

\* A night that follows on the last stay of its hotel makes it longer.
LEMMA LongerStay ==
  ASSUME NEW H, NEW options \in Seq(Option(H)), Separate(options),
         NEW row \in [day : Nat, stay : H],
         \A a \in 1 .. Len(options) : options[a].stay = row.stay => options[a].endDay < row.day,
         NEW o \in 1 .. Len(options), options[o].stay = row.stay,
         \A a \in 1 .. Len(options) : options[a].stay = row.stay => a <= o,
         options[o].endDay = row.day - 1,
         NEW new \in Seq(Option(H)), Len(new) = Len(options), IsLonger(options, o, row, new)
  PROVE  new \in Seq(Option(H)) /\ Separate(new) /\ Joins(options, new, row)
<1> DEFINE l == Len(options)
<1>1. /\ l \in Nat /\ options \in [1 .. l -> Option(H)]
      /\ row.day \in Nat /\ row.stay \in H
  BY LenProperties
<1>2. \A a \in 1 .. l : /\ options[a].stay \in H /\ options[a].startDay \in Int
                        /\ options[a].endDay \in Int /\ options[a].nights \in Int
  BY <1>1 DEF Option
<1>5. new \in Seq(Option(H)) /\ Len(new) = l
  OBVIOUS
<1>12. PICK longer : /\ LongerBy(options, o, row, longer)
                     /\ \A a \in 1 .. l : new[a] = IF a = o THEN longer ELSE options[a]
  BY DEF IsLonger
<1>3. /\ longer.stay = row.stay /\ longer.startDay = options[o].startDay
      /\ longer.endDay = row.day /\ longer.nights = options[o].nights + 1
  BY <1>12 DEF LongerBy
<1>6. \A a \in 1 .. l : new[a] = IF a = o THEN longer ELSE options[a]
  BY <1>12
<1> HIDE DEF l
<1>7. /\ options[o].startDay <= options[o].endDay
      /\ options[o].nights = options[o].endDay - options[o].startDay + 1
  BY DEF Separate
<1>8. Separate(new)
  <2>1. ASSUME NEW a \in 1 .. l
        PROVE  new[a].startDay <= new[a].endDay /\ new[a].nights = new[a].endDay - new[a].startDay + 1
    <3>1. CASE a = o
      <4>1. /\ new[a].startDay = options[o].startDay /\ new[a].endDay = row.day
            /\ new[a].nights = options[o].nights + 1
        BY <1>3, <1>6, <3>1
      <4> QED BY <1>1, <1>2, <1>7, <4>1
    <3>2. CASE a # o
      BY <1>6, <3>2 DEF Separate, l
    <3> QED BY <3>1, <3>2
  <2>2. ASSUME NEW a \in 1 .. l, NEW b \in 1 .. l, a < b, new[a].stay = new[b].stay
        PROVE  new[a].endDay + 1 < new[b].startDay
    <3>1. options[a].stay = options[b].stay
      BY <1>3, <1>6, <2>2
    <3>2. options[a].endDay + 1 < options[b].startDay
      BY <2>2, <3>1 DEF Separate, l
    <3>3. a # o
      <4>1. SUFFICES ASSUME a = o PROVE FALSE
        OBVIOUS
      <4>2. b <= o
        BY <3>1, <4>1 DEF l
      <4> QED BY <1>1, <2>2, <4>1, <4>2
    <3>4. new[a] = options[a] /\ new[b].startDay = options[b].startDay
      BY <1>3, <1>6, <3>3
    <3> QED BY <3>2, <3>4
  <2> QED BY <1>5, <2>1, <2>2 DEF Separate
<1>9. Covered(new, row.day, row.stay)
  <2>1. new[o].stay = row.stay /\ new[o].startDay = options[o].startDay /\ new[o].endDay = row.day
    BY <1>3, <1>6 DEF l
  <2>2. options[o].startDay <= row.day
    BY <1>1, <1>2, <1>7 DEF l
  <2>3. row.day <= row.day
    BY <1>1
  <2> QED BY <1>5, <2>1, <2>2, <2>3 DEF Covered, l
<1>10. ASSUME NEW d \in Nat, NEW h, Covered(options, d, h)
       PROVE  Covered(new, d, h)
  <2>1. PICK a \in 1 .. l : options[a].stay = h /\ options[a].startDay <= d /\ d <= options[a].endDay
    BY <1>10 DEF Covered, l
  <2>2. new[a].stay = h /\ new[a].startDay <= d /\ d <= new[a].endDay
    <3>1. CASE a = o
      <4>1. new[a].stay = h /\ new[a].startDay = options[a].startDay /\ new[a].endDay = row.day
        BY <1>3, <1>6, <2>1, <3>1
      <4>2. d <= row.day
        BY <1>1, <1>2, <2>1, <3>1
      <4> QED BY <2>1, <4>1, <4>2
    <3>2. CASE a # o
      BY <1>6, <2>1, <3>2
    <3> QED BY <3>1, <3>2
  <2> QED BY <1>5, <2>2 DEF Covered
<1>11. ASSUME NEW b \in 1 .. l
       PROVE  \/ new[b].stay = row.stay /\ new[b].endDay = row.day
              \/ \E a \in 1 .. l : new[b].stay = options[a].stay /\ new[b].endDay = options[a].endDay
  BY <1>3, <1>6
<1> QED BY <1>5, <1>8, <1>9, <1>10, <1>11 DEF Joins, l

\* Any other night starts a stay.
LEMMA NewStay ==
  ASSUME NEW H, NEW options \in Seq(Option(H)), Separate(options),
         NEW row \in [day : Nat, stay : H],
         \A a \in 1 .. Len(options) : options[a].stay = row.stay => options[a].endDay < row.day - 1,
         NEW new, new = Append(options, [stay |-> row.stay, startDay |-> row.day,
                                         endDay |-> row.day, nights |-> 1])
  PROVE  new \in Seq(Option(H)) /\ Separate(new) /\ Joins(options, new, row)
<1> DEFINE l == Len(options)
           first == [stay |-> row.stay, startDay |-> row.day, endDay |-> row.day, nights |-> 1]
<1>1. /\ l \in Nat /\ options \in [1 .. l -> Option(H)]
      /\ row.day \in Nat /\ row.stay \in H
  BY LenProperties
<1>2. \A a \in 1 .. l : /\ options[a].stay \in H /\ options[a].startDay \in Int
                        /\ options[a].endDay \in Int /\ options[a].nights \in Int
  BY <1>1 DEF Option
<1>3. /\ first.stay = row.stay /\ first.startDay = row.day /\ first.endDay = row.day
      /\ first.nights = 1 /\ first \in Option(H)
  BY <1>1 DEF Option
<1>4. new = Append(options, first)
  OBVIOUS
<1> HIDE DEF first
<1>5. /\ new \in Seq(Option(H)) /\ Len(new) = l + 1
      /\ \A a \in 1 .. l : new[a] = options[a]
      /\ new[l + 1] = first
  BY <1>3, <1>4, AppendProperties
<1> HIDE DEF l
<1>6. \A a \in 1 .. l + 1 : a \in 1 .. l \/ a = l + 1
  BY <1>1
<1>7. Separate(new)
  <2>1. ASSUME NEW a \in 1 .. l + 1
        PROVE  new[a].startDay <= new[a].endDay /\ new[a].nights = new[a].endDay - new[a].startDay + 1
    <3>1. CASE a = l + 1
      BY <1>1, <1>3, <1>5, <3>1
    <3>2. CASE a \in 1 .. l
      BY <1>5, <3>2 DEF Separate, l
    <3> QED BY <1>6, <3>1, <3>2
  <2>2. ASSUME NEW a \in 1 .. l + 1, NEW b \in 1 .. l + 1, a < b, new[a].stay = new[b].stay
        PROVE  new[a].endDay + 1 < new[b].startDay
    <3>1. a \in 1 .. l
      BY <1>1, <2>2
    <3>2. CASE b = l + 1
      <4>1. new[a] = options[a] /\ new[b].stay = row.stay /\ new[b].startDay = row.day
        BY <1>3, <1>5, <3>1, <3>2
      <4>2. options[a].endDay < row.day - 1
        BY <2>2, <3>1, <4>1 DEF l
      <4> QED BY <1>1, <1>2, <3>1, <4>1, <4>2
    <3>3. CASE b \in 1 .. l
      BY <1>5, <2>2, <3>1, <3>3 DEF Separate, l
    <3> QED BY <1>6, <3>2, <3>3
  <2> QED BY <1>5, <2>1, <2>2 DEF Separate
<1>8. Covered(new, row.day, row.stay)
  <2>1. /\ l + 1 \in 1 .. l + 1 /\ row.day <= row.day
        /\ new[l + 1].stay = row.stay /\ new[l + 1].startDay = row.day /\ new[l + 1].endDay = row.day
    BY <1>1, <1>3, <1>5
  <2> QED BY <1>5, <2>1 DEF Covered
<1>9. ASSUME NEW d \in Nat, NEW h, Covered(options, d, h)
      PROVE  Covered(new, d, h)
  <2>1. PICK a \in 1 .. l : options[a].stay = h /\ options[a].startDay <= d /\ d <= options[a].endDay
    BY <1>9 DEF Covered, l
  <2>2. a \in 1 .. l + 1 /\ new[a] = options[a]
    BY <1>1, <1>5
  <2> QED BY <1>5, <2>1, <2>2 DEF Covered
<1>10. ASSUME NEW b \in 1 .. l + 1
       PROVE  \/ new[b].stay = row.stay /\ new[b].endDay = row.day
              \/ \E a \in 1 .. l : new[b].stay = options[a].stay /\ new[b].endDay = options[a].endDay
  <2>1. CASE b = l + 1
    BY <1>3, <1>5, <2>1
  <2>2. CASE b \in 1 .. l
    BY <1>5, <2>2
  <2> QED BY <1>6, <2>1, <2>2
<1> QED BY <1>5, <1>7, <1>8, <1>9, <1>10 DEF Joins, l

\* A night keeps the stays apart, if it comes after those of its hotel.
LEMMA StayedJoins ==
  ASSUME NEW H, NEW options \in Seq(Option(H)), Separate(options),
         NEW row \in [day : Nat, stay : H],
         \A a \in 1 .. Len(options) : options[a].stay = row.stay => options[a].endDay < row.day
  PROVE  /\ Stayed(options, row) \in Seq(Option(H)) /\ Separate(Stayed(options, row))
         /\ Joins(options, Stayed(options, row), row)
<1> DEFINE o == LatestOf(options, row.stay)
           l == Len(options)
<1>1. /\ l \in Nat /\ options \in [1 .. l -> Option(H)] /\ row.day \in Nat
  BY LenProperties
<1>2. \A a \in 1 .. l : options[a].startDay \in Int /\ options[a].endDay \in Int
  BY <1>1 DEF Option
<1>3. /\ o \in 0 .. l
      /\ o # 0 => options[o].stay = row.stay
      /\ \A a \in 1 .. l : options[a].stay = row.stay => o # 0 /\ a <= o
  BY LatestIs
<1> HIDE DEF o
<1>4. CASE o # 0 /\ Continues(options[o], row)
  <2>1. Stayed(options, row) = [options EXCEPT ![o].endDay = row.day, ![o].nights = @ + 1]
    BY <1>4 DEF Stayed, o
  <2>2. o \in 1 .. l /\ options[o].stay = row.stay /\ options[o].endDay = row.day - 1
    BY <1>1, <1>3, <1>4 DEF Continues
  <2>3. /\ Stayed(options, row) \in Seq(Option(H)) /\ Len(Stayed(options, row)) = l
        /\ IsLonger(options, o, row, Stayed(options, row))
    BY <2>1, <2>2, LongerIs
  <2> QED BY <1>3, <2>2, <2>3, LongerStay
<1>5. CASE ~(o # 0 /\ Continues(options[o], row))
  <2>1. Stayed(options, row) = Append(options, [stay |-> row.stay, startDay |-> row.day,
                                                endDay |-> row.day, nights |-> 1])
    BY <1>5 DEF Stayed, o
  <2>2. ASSUME NEW a \in 1 .. l, options[a].stay = row.stay
        PROVE  options[a].endDay < row.day - 1
    <3>1. o \in 1 .. l /\ a <= o /\ options[o].stay = row.stay
      BY <1>1, <1>3, <2>2
    <3>2. options[o].endDay < row.day /\ options[o].endDay # row.day - 1
      BY <1>3, <1>5, <3>1 DEF Continues
    <3>3. options[o].endDay < row.day - 1
      BY <1>1, <1>2, <3>1, <3>2
    <3>4. CASE a = o
      BY <3>3, <3>4
    <3>5. CASE a < o
      <4>1. options[a].endDay + 1 < options[o].startDay /\ options[o].startDay <= options[o].endDay
        BY <2>2, <3>1, <3>5 DEF Separate
      <4> QED BY <1>1, <1>2, <3>1, <3>3, <4>1
    <3> QED BY <3>1, <3>4, <3>5
  <2> QED BY <2>1, <2>2, NewStay
<1> QED BY <1>4, <1>5

\* A night leaves stays behind.
LEMMA StayedTyped ==
  ASSUME NEW H, NEW options \in Seq(Option(H)), NEW row \in [day : Nat, stay : H]
  PROVE  Stayed(options, row) \in Seq(Option(H))
<1> DEFINE o == LatestOf(options, row.stay)
           first == [stay |-> row.stay, startDay |-> row.day, endDay |-> row.day, nights |-> 1]
<1>1. /\ o \in 0 .. Len(options)
      /\ o # 0 => options[o].stay = row.stay
  BY LatestIs
<1>2. Len(options) \in Nat
  BY LenProperties
<1> HIDE DEF o
<1>3. CASE o # 0 /\ Continues(options[o], row)
  <2>1. Stayed(options, row) = [options EXCEPT ![o].endDay = row.day, ![o].nights = @ + 1]
    BY <1>3 DEF Stayed, o
  <2>2. o \in 1 .. Len(options) /\ options[o].stay = row.stay
    BY <1>1, <1>2, <1>3
  <2> QED BY <2>1, <2>2, LongerIs
<1>4. CASE ~(o # 0 /\ Continues(options[o], row))
  <2>1. Stayed(options, row) = Append(options, first)
    BY <1>4 DEF Stayed, o
  <2>2. first \in Option(H)
    BY DEF Option
  <2> HIDE DEF first
  <2> QED BY <2>1, <2>2, AppendProperties
<1> QED BY <1>3, <1>4

\* How the stays come about.
OptionsSoFar(p, days) ==
    LET rows == HotelRows(days)
        H == HotelsOf(days)
    IN  /\ p \in [0 .. Len(rows) -> Seq(Option(H))]
        /\ p[0] = <<>>
        /\ \A k \in 1 .. Len(rows) : p[k] = Stayed(p[k - 1], rows[k])
        /\ HotelOptions(days) = p[Len(rows)]

\* The stays are a fold over the nights.
LEMMA OptionsFold ==
  ASSUME NEW days, days \in Seq(TripDays)
  PROVE  \E p : OptionsSoFar(p, days)
<1> DEFINE rows == HotelRows(days)
           H == HotelsOf(days)
           n == Len(rows)
           V == Seq(Option(H))
           step == [x \in V \X (1 .. n) |-> Stayed(x[1], rows[x[2]])]
<1>1. /\ n \in Nat /\ DOMAIN rows = 1 .. n
      /\ \A k \in 1 .. n : rows[k] \in [day : Nat, stay : H]
  <2>1. rows \in Seq([day : Nat, stay : H])
    BY HotelRowsAre DEF NightRow
  <2> HIDE DEF rows, H
  <2> QED BY <2>1, LenProperties, ElementOfSeq
<1>2. step \in [V \X (1 .. n) -> V] /\ <<>> \in V
  <2>1. \A v \in V, k \in 1 .. n : Stayed(v, rows[k]) \in V
    <3> HIDE DEF rows, H, n
    <3> QED BY <1>1, StayedTyped
  <2> HIDE DEF V, n, rows, H
  <2>2. <<>> \in V
    BY DEF V
  <2> QED BY <2>1, <2>2
<1> HIDE DEF n, V, rows, H
<1>3. PICK g : FoldOf(g, V, n, step, <<>>)
  <2> HIDE DEF step
  <2> QED BY <1>1, <1>2, FoldsKept
<1> DEFINE It(i) == i = [s \in SUBSET (1 .. n) |-> IF s = {} THEN <<>>
                          ELSE Stayed(i[s \ {Max(s)}], rows[Max(s)])]
           it == CHOOSE i : It(i)
<1>4. It(g)
  <2>1. \A s \in SUBSET (1 .. n) : s # {} =>
            step[<<g[s \ {Max(s)}], Max(s)>>] = Stayed(g[s \ {Max(s)}], rows[Max(s)])
    BY <1>3 DEF FoldOf
  <2> HIDE DEF step
  <2> QED BY <1>3, <2>1 DEF FoldOf, Folds
<1>5. It(it)
  <2> HIDE DEF It
  <2> QED BY <1>4
<1>6. HotelOptions(days) = it[1 .. n]
  BY <1>1 DEF HotelOptions, FoldLeft, MapThenFoldSet, rows, n
<1> HIDE DEF it
<1> DEFINE W == V \cup {it[s] : s \in SUBSET (1 .. n)}
           next == [x \in W \X (1 .. n) |-> Stayed(x[1], rows[x[2]])]
<1>7. Folds(it, next, <<>>, 1 .. n)
  <2>1. \A s \in SUBSET (1 .. n) : s # {} =>
            next[<<it[s \ {Max(s)}], Max(s)>>] = Stayed(it[s \ {Max(s)}], rows[Max(s)])
    BY <1>3 DEF FoldOf
  <2> HIDE DEF next
  <2> QED BY <1>5, <2>1 DEF Folds
<1>8. \A v \in V, k \in 1 .. n : next[<<v, k>>] = Stayed(v, rows[k]) /\ next[<<v, k>>] \in V
  <2>1. \A v \in V, k \in 1 .. n : Stayed(v, rows[k]) \in V
    BY <1>1, StayedTyped DEF V
  <2> QED BY <2>1
<1> HIDE DEF next
<1>9. PICK p : Results(p, V, n, it, next, <<>>)
  BY <1>1, <1>2, <1>7, <1>8, FoldResults
<1>10. OptionsSoFar(p, days)
  <2>1. p \in [0 .. n -> V] /\ p[0] = <<>> /\ p[n] = it[1 .. n]
    BY <1>9 DEF Results
  <2>2. \A k \in 1 .. n : p[k] = Stayed(p[k - 1], rows[k])
    <3> TAKE k \in 1 .. n
    <3>1. k - 1 \in 0 .. n
      BY <1>1
    <3>2. p[k - 1] \in V /\ p[k] = next[<<p[k - 1], k>>]
      BY <1>9, <3>1 DEF Results
    <3> QED BY <1>8, <3>2
  <2> QED BY <1>6, <2>1, <2>2 DEF OptionsSoFar, n, V, rows, H
<1> QED BY <1>10

\* The stays after the first k nights: each of these is in one, and a stay ends with one.
StaysSoFar(options, rows, k) ==
    /\ Separate(options)
    /\ \A j \in 1 .. k : Covered(options, rows[j].day, rows[j].stay)
    /\ \A a \in 1 .. Len(options) : \E j \in 1 .. k :
          options[a].stay = rows[j].stay /\ options[a].endDay = rows[j].day

LEMMA StaysFollow ==
  ASSUME NEW H, NEW rows \in Seq([day : Nat, stay : H]), NEW k \in Nat, k + 1 \in 1 .. Len(rows),
         \A i, j \in 1 .. Len(rows) : i < j => rows[i].day <= rows[j].day /\ rows[i] # rows[j],
         NEW options \in Seq(Option(H)), StaysSoFar(options, rows, k)
  PROVE  StaysSoFar(Stayed(options, rows[k + 1]), rows, k + 1)
<1> DEFINE row == rows[k + 1]
           new == Stayed(options, row)
           l == Len(options)
<1>1. /\ Len(rows) \in Nat /\ l \in Nat
      /\ \A j \in 1 .. Len(rows) : rows[j] \in [day : Nat, stay : H]
  BY LenProperties, ElementOfSeq
<1>2. \A j \in 1 .. k : j \in 1 .. Len(rows) /\ j < k + 1
  BY <1>1
<1>3. Separate(options)
  BY DEF StaysSoFar
<1>4. row \in [day : Nat, stay : H] /\ row.day \in Nat
  BY <1>1
<1>5. ASSUME NEW a \in 1 .. l, options[a].stay = row.stay
      PROVE  options[a].endDay < row.day
  <2>1. PICK j \in 1 .. k : options[a].stay = rows[j].stay /\ options[a].endDay = rows[j].day
    BY DEF StaysSoFar
  <2>2. rows[j].day <= row.day /\ rows[j] # row
    BY <1>2
  <2>3. rows[j] \in [day : Nat, stay : H] /\ rows[j].stay = row.stay
    BY <1>1, <1>2, <1>5, <2>1
  <2>4. rows[j].day # row.day
    <3> DEFINE r == rows[j]
    <3>1. r \in [day : Nat, stay : H] /\ r # row /\ r.stay = row.stay
      BY <2>2, <2>3
    <3> HIDE DEF r, row
    <3>2. r.day # row.day
      BY <1>4, <3>1
    <3> QED BY <3>2 DEF r
  <2>5. rows[j].day \in Nat
    BY <2>3
  <2> QED BY <1>4, <2>1, <2>2, <2>4, <2>5
<1> HIDE DEF new, row, l
<1>6. new \in Seq(Option(H)) /\ Separate(new) /\ Joins(options, new, row)
  BY <1>3, <1>4, <1>5, StayedJoins DEF new, l
<1>7. k + 1 \in 1 .. k + 1 /\ \A j \in 1 .. k : j \in 1 .. k + 1
  OBVIOUS
<1>8. ASSUME NEW j \in 1 .. k + 1
      PROVE  Covered(new, rows[j].day, rows[j].stay)
  <2>1. CASE j = k + 1
    BY <1>6, <2>1 DEF Joins, row
  <2>2. CASE j \in 1 .. k
    <3>1. Covered(options, rows[j].day, rows[j].stay)
      BY <2>2 DEF StaysSoFar
    <3>2. rows[j].day \in Nat
      <4>1. rows[j] \in [day : Nat, stay : H]
        BY <1>1, <1>2, <2>2
      <4> QED BY <4>1
    <3> QED BY <1>6, <3>1, <3>2 DEF Joins
  <2> QED BY <2>1, <2>2
<1>9. ASSUME NEW b \in 1 .. Len(new)
      PROVE  \E j \in 1 .. k + 1 : new[b].stay = rows[j].stay /\ new[b].endDay = rows[j].day
  <2>1. CASE new[b].stay = row.stay /\ new[b].endDay = row.day
    BY <1>7, <2>1 DEF row
  <2>2. CASE \E a \in 1 .. l : new[b].stay = options[a].stay /\ new[b].endDay = options[a].endDay
    <3>1. PICK a \in 1 .. l : new[b].stay = options[a].stay /\ new[b].endDay = options[a].endDay
      BY <2>2
    <3>2. PICK j \in 1 .. k : options[a].stay = rows[j].stay /\ options[a].endDay = rows[j].day
      BY DEF StaysSoFar, l
    <3> QED BY <1>7, <3>1, <3>2
  <2> QED BY <1>6, <2>1, <2>2 DEF Joins, l
<1> QED BY <1>6, <1>8, <1>9 DEF StaysSoFar, new, row

\* The stays of a trip cover its nights, and are as long as they can be.
LEMMA OptionsAre ==
  ASSUME NEW days, days \in Seq(TripDays)
  PROVE  /\ HotelOptions(days) \in Seq(Option(HotelsOf(days)))
         /\ Separate(HotelOptions(days))
         /\ \A i \in Stays(days) : \A h \in ToSet(days[i].hotels) : Covered(HotelOptions(days), i, h)
<1> DEFINE rows == HotelRows(days)
           H == HotelsOf(days)
           n == Len(rows)
<1>1. /\ rows \in Seq([day : Nat, stay : H]) /\ n \in Nat
      /\ NightsListed(rows, days, Len(days))
  BY HotelRowsAre, LenProperties DEF NightRow
<1>2. PICK p : OptionsSoFar(p, days)
  BY OptionsFold
<1>3. /\ p \in [0 .. n -> Seq(Option(H))] /\ p[0] = <<>>
      /\ \A k \in 1 .. n : p[k] = Stayed(p[k - 1], rows[k])
      /\ HotelOptions(days) = p[n]
  BY <1>2 DEF OptionsSoFar
<1>4. \A i, j \in 1 .. Len(rows) : i < j => rows[i].day <= rows[j].day /\ rows[i] # rows[j]
  BY <1>1 DEF NightsListed
<1> HIDE DEF rows, H, n
<1> DEFINE P == {k \in 0 .. n : StaysSoFar(p[k], rows, k)}
<1>5. 0 \in P
  <2>1. 1 .. Len(p[0]) = {} /\ 1 .. 0 = {} /\ 0 \in 0 .. n
    BY <1>1, <1>3
  <2> QED BY <2>1 DEF StaysSoFar, Separate
<1>6. ASSUME NEW k \in 0 .. n, k + 1 \in 0 .. n, k \in P
      PROVE  k + 1 \in P
  <2>1. k + 1 \in 1 .. n /\ (k + 1) - 1 = k /\ k \in Nat
    BY <1>1, <1>6
  <2>2. p[k + 1] = Stayed(p[k], rows[k + 1])
    BY <1>3, <2>1
  <2>3. p[k] \in Seq(Option(H)) /\ StaysSoFar(p[k], rows, k)
    BY <1>3, <1>6
  <2>4. StaysSoFar(p[k + 1], rows, k + 1)
    BY <1>1, <1>4, <2>1, <2>2, <2>3, StaysFollow DEF n
  <2> QED BY <1>6, <2>4
<1> HIDE DEF P
<1>7. \A k \in 0 .. n : k \in P
  BY <1>1, <1>5, <1>6, UpTo
<1>8. n \in 0 .. n
  BY <1>1
<1>9. p[n] \in Seq(Option(H)) /\ StaysSoFar(p[n], rows, n)
  BY <1>3, <1>7, <1>8 DEF P
<1>10. ASSUME NEW i \in Stays(days), NEW h \in ToSet(days[i].hotels)
       PROVE  Covered(p[n], i, h)
  <2>1. Len(days) \in Nat /\ i \in 1 .. Len(days)
    BY LenProperties DEF Stays
  <2>2. i <= Len(days)
    BY <2>1
  <2>3. PICK j \in 1 .. n : rows[j].day = i /\ rows[j].stay = h
    BY <1>1, <2>2 DEF NightsListed, n
  <2> QED BY <1>9, <2>3 DEF StaysSoFar
<1> QED BY <1>3, <1>9, <1>10 DEF StaysSoFar, H

\* Every night of every hotel is in one stay.
NightsAddUp(options, days) ==
    /\ \A i \in Stays(days) : \A h \in ToSet(days[i].hotels) :
          Cardinality({o \in DOMAIN options :
              /\ options[o].stay = h
              /\ i \in options[o].startDay .. options[o].endDay}) = 1
    /\ \A o, p \in DOMAIN options :
          /\ options[o].nights = options[o].endDay - options[o].startDay + 1
          /\ options[o].stay = options[p].stay => options[o].endDay + 1 # options[p].startDay

LEMMA StaysAddUp ==
  ASSUME NEW days, days \in Seq(TripDays), NEW options, options = HotelOptions(days)
  PROVE  NightsAddUp(options, days)
<1> DEFINE l == Len(options)
           H == HotelsOf(days)
<1>1. /\ options \in Seq(Option(H)) /\ Separate(options)
      /\ \A i \in Stays(days) : \A h \in ToSet(days[i].hotels) : Covered(options, i, h)
  BY OptionsAre
<1> HIDE DEF H
<1>2. /\ l \in Nat /\ DOMAIN options = 1 .. l
      /\ \A o \in 1 .. l : options[o].startDay \in Int /\ options[o].endDay \in Int
  <2>1. l \in Nat /\ DOMAIN options = 1 .. l /\ \A o \in 1 .. l : options[o] \in Option(H)
    BY <1>1, LenProperties, ElementOfSeq
  <2> QED BY <2>1 DEF Option
<1>3. \A o \in 1 .. l : /\ options[o].startDay <= options[o].endDay
                        /\ options[o].nights = options[o].endDay - options[o].startDay + 1
  BY <1>1 DEF Separate
<1>4. \A o, p \in 1 .. l : o < p /\ options[o].stay = options[p].stay =>
          options[o].endDay + 1 < options[p].startDay
  BY <1>1 DEF Separate
<1> HIDE DEF l
<1>5. ASSUME NEW i \in Stays(days), NEW h \in ToSet(days[i].hotels)
      PROVE  Cardinality({o \in 1 .. l : /\ options[o].stay = h
                                         /\ i \in options[o].startDay .. options[o].endDay}) = 1
  <2> DEFINE held == {o \in 1 .. l : /\ options[o].stay = h
                                     /\ i \in options[o].startDay .. options[o].endDay}
  <2>1. i \in Int
    BY LenProperties DEF Stays
  <2>2. PICK o \in 1 .. l : options[o].stay = h /\ options[o].startDay <= i /\ i <= options[o].endDay
    <3>1. Covered(options, i, h)
      BY <1>1
    <3> QED BY <3>1 DEF Covered, l
  <2>3. o \in held
    BY <1>2, <2>1, <2>2
  <2>4. ASSUME NEW q \in held
        PROVE  q = o
    <3>1. q \in 1 .. l /\ options[q].stay = h /\ options[q].startDay <= i /\ i <= options[q].endDay
      BY <1>2, <2>1
    <3>2. ~(q < o)
      BY <1>2, <1>4, <2>1, <2>2, <3>1
    <3>3. ~(o < q)
      BY <1>2, <1>4, <2>1, <2>2, <3>1
    <3>4. q \in Int /\ o \in Int
      BY <1>2, <3>1
    <3> QED BY <3>2, <3>3, <3>4
  <2>5. held = {o}
    <3> HIDE DEF held
    <3> QED BY <2>3, <2>4
  <2> QED BY <2>5, FS_Singleton
<1>6. ASSUME NEW o \in 1 .. l, NEW p \in 1 .. l, options[o].stay = options[p].stay
      PROVE  options[o].endDay + 1 # options[p].startDay
  <2>1. CASE o < p
    BY <1>2, <1>4, <1>6, <2>1
  <2>2. CASE o = p
    BY <1>2, <1>3, <2>2
  <2>3. CASE p < o
    <3>1. options[p].endDay + 1 < options[o].startDay
      BY <1>4, <1>6, <2>3
    <3>2. options[o].startDay <= options[o].endDay /\ options[p].startDay <= options[p].endDay
      BY <1>3
    <3>3. /\ options[o].startDay \in Int /\ options[o].endDay \in Int
          /\ options[p].startDay \in Int /\ options[p].endDay \in Int
      BY <1>2
    <3> QED BY <3>1, <3>2, <3>3
  <2>4. o < p \/ o = p \/ p < o
    <3>1. o \in Int /\ p \in Int
      BY <1>2
    <3> QED BY <3>1
  <2> QED BY <2>1, <2>2, <2>3, <2>4
<1>7. \A i \in Stays(days) : \A h \in ToSet(days[i].hotels) :
         Cardinality({o \in DOMAIN options : /\ options[o].stay = h
                                            /\ i \in options[o].startDay .. options[o].endDay}) = 1
  BY <1>2, <1>5
<1>8. \A o, p \in DOMAIN options :
         /\ options[o].nights = options[o].endDay - options[o].startDay + 1
         /\ options[o].stay = options[p].stay => options[o].endDay + 1 # options[p].startDay
  BY <1>2, <1>3, <1>6
<1> QED BY <1>7, <1>8 DEF NightsAddUp

-----------------------------------------------------------------------------
(* The prices *)

Part(components, chosen, c) == IF c \in chosen THEN components[c].amount ELSE 0

\* More categories cost no less.
LEMMA TotalGrows ==
  ASSUME NEW components, NEW some, NEW more, some \subseteq more, more \subseteq PriceCategories,
         \A c \in more : components[c].amount \in Nat
  PROVE  Total(components, some) <= Total(components, more)
<1>1. ASSUME NEW c \in PriceCategories
      PROVE  /\ Part(components, some, c) \in Nat /\ Part(components, more, c) \in Nat
             /\ Part(components, some, c) <= Part(components, more, c)
  <2>1. CASE c \in some
    BY <2>1 DEF Part
  <2>2. CASE c \notin some /\ c \in more
    BY <2>2 DEF Part
  <2>3. CASE c \notin more
    BY <2>3 DEF Part
  <2> QED BY <2>1, <2>2, <2>3
<1>2. \A s : Total(components, s) = Part(components, s, "hotel") + Part(components, s, "guide")
                + Part(components, s, "vehicle") + Part(components, s, "attraction")
                + Part(components, s, "meal")
  BY DEF Total, Part
<1>3. {"hotel", "guide", "vehicle", "attraction", "meal"} \subseteq PriceCategories
  BY DEF PriceCategories
<1> HIDE DEF Total, Part
<1>4. /\ Part(components, some, "hotel") \in Nat /\ Part(components, more, "hotel") \in Nat
      /\ Part(components, some, "hotel") <= Part(components, more, "hotel")
  BY <1>1, <1>3
<1>5. /\ Part(components, some, "guide") \in Nat /\ Part(components, more, "guide") \in Nat
      /\ Part(components, some, "guide") <= Part(components, more, "guide")
  BY <1>1, <1>3
<1>6. /\ Part(components, some, "vehicle") \in Nat /\ Part(components, more, "vehicle") \in Nat
      /\ Part(components, some, "vehicle") <= Part(components, more, "vehicle")
  BY <1>1, <1>3
<1>7. /\ Part(components, some, "attraction") \in Nat /\ Part(components, more, "attraction") \in Nat
      /\ Part(components, some, "attraction") <= Part(components, more, "attraction")
  BY <1>1, <1>3
<1>8. /\ Part(components, some, "meal") \in Nat /\ Part(components, more, "meal") \in Nat
      /\ Part(components, some, "meal") <= Part(components, more, "meal")
  BY <1>1, <1>3
<1> QED BY <1>2, <1>4, <1>5, <1>6, <1>7, <1>8

\* The shown parts of a quoted price never exceed it and, all shown, make it.
LEMMA QuoteAddsUp ==
  ASSUME TripFits, NEW q \in Quotation(trip)
  PROVE  /\ Total(q.row.components, q.shown) <= q.unit
         /\ (q.row.components # Absent /\ \A c \in PriceCategories : q.row.components[c].shown)
            => Total(q.row.components, q.shown) = q.unit
<1> DEFINE Visible(r) == IF r.components = Absent THEN {}
                       ELSE {c \in PriceCategories : /\ r.components[c].shown
                                                     /\ r.components[c].amount # Absent}
<1>1. PICK row \in PricedPlans(trip) : /\ q.unit = UnitPrice(row) /\ q.row = row
                                       /\ q.shown = Visible(row)
  <2>1. PICK row \in PricedPlans(trip) :
            q = [vehicle |-> row.vehicle, tier |-> row.tier, unit |-> UnitPrice(row),
                 includesDriver |-> DriverDays(trip.days) # {}, shown |-> Visible(row), row |-> row]
    BY DEF Quotation
  <2> HIDE DEF Visible
  <2> QED BY <2>1
<1>2. row \in trip.prices /\ UnitPrice(row) # Absent
  BY DEF PricedPlans
<1>3. PICK rows \in PriceRows : row \in rows
  <2>1. trip.prices \in PriceRows \cup {{}}
    BY DEF TripFits
  <2> QED BY <1>2, <2>1
<1>4. /\ row.unit \in Nat \cup {Absent}
      /\ row.components # Absent =>
             \A c \in PriceCategories : row.components[c].amount \in Nat \cup {Absent}
  BY <1>3, PriceRowsAssumption
<1>5. CASE row.components = Absent
  <2>1. q.shown = {} /\ q.unit = row.unit /\ row.unit \in Nat
    BY <1>1, <1>2, <1>4, <1>5 DEF UnitPrice
  <2>2. Total(q.row.components, {}) = 0
    BY DEF Total
  <2> QED BY <1>1, <1>5, <2>1, <2>2
<1>6. CASE row.components # Absent
  <2> DEFINE priced == {c \in PriceCategories : row.components[c].amount # Absent}
  <2>1. q.unit = Total(row.components, priced)
    <3>1. UnitPrice(row) = ComponentUnitPrice(row.components)
      BY <1>6 DEF UnitPrice
    <3>2. priced # {} => ComponentUnitPrice(row.components) = Total(row.components, priced)
      BY DEF ComponentUnitPrice
    <3>3. priced = {} => ComponentUnitPrice(row.components) = Absent
      BY DEF ComponentUnitPrice
    <3> QED BY <1>1, <1>2, <3>1, <3>2, <3>3
  <2>2. q.shown = {c \in PriceCategories : row.components[c].shown /\ row.components[c].amount # Absent}
    BY <1>1, <1>6
  <2>3. q.shown \subseteq priced /\ priced \subseteq PriceCategories
    BY <2>2
  <2>4. \A c \in priced : row.components[c].amount \in Nat
    BY <1>4, <1>6
  <2>5. (\A c \in PriceCategories : row.components[c].shown) => q.shown = priced
    BY <2>2
  <2> HIDE DEF priced
  <2>6. Total(row.components, q.shown) <= Total(row.components, priced)
    BY <2>3, <2>4, TotalGrows
  <2> QED BY <1>1, <2>1, <2>5, <2>6
<1> QED BY <1>5, <1>6

-----------------------------------------------------------------------------
(* The mileage table *)

\* The board's names and then the legs as they are, in the order they are looked at.
Looked(day) == day.order \o [k \in DOMAIN day.legs |-> k]

\* A leg the board names comes at its place, the others behind those.
LEMMA RankIs ==
  ASSUME NEW day, DayFits(day), NEW k
  PROVE  /\ \A j \in 1 .. Len(day.order) : day.order[j] = k => Rank(day, k) = j
         /\ (\A j \in 1 .. Len(day.order) : day.order[j] # k) => Rank(day, k) = Len(day.order) + 1
         /\ Len(day.order) \in Nat
         /\ Rank(day, k) \in 1 .. Len(day.order) + 1
<1> DEFINE m == Len(day.order)
           place == CHOOSE q \in DOMAIN day.order : day.order[q] = k
<1>1. day.order \in Seq(Nat) /\ IsInjective(day.order)
  BY DEF DayFits
<1>2. m \in Nat /\ DOMAIN day.order = 1 .. m
  BY <1>1, LenProperties
<1>3. \A i, j \in 1 .. m : day.order[i] = day.order[j] => i = j
  BY <1>1, <1>2 DEF IsInjective
<1>4. Contains(day.order, k) <=> \E j \in 1 .. m : day.order[j] = k
  BY DEF Contains
<1>5. CASE \E j \in 1 .. m : day.order[j] = k
  <2>1. PICK j \in 1 .. m : day.order[j] = k
    BY <1>5
  <2>2. place \in 1 .. m /\ day.order[place] = k
    BY <1>2, <2>1
  <2> HIDE DEF place
  <2>3. place = j
    BY <1>3, <2>1, <2>2
  <2>4. Rank(day, k) = place
    BY <1>4, <1>5 DEF Rank, place
  <2> HIDE DEF m
  <2>5. \A i \in 1 .. m : day.order[i] = k => i = j
    BY <1>3, <2>1
  <2> QED BY <1>2, <2>1, <2>3, <2>4, <2>5 DEF m
<1>6. CASE \A j \in 1 .. m : day.order[j] # k
  <2>1. Rank(day, k) = m + 1
    BY <1>4, <1>6 DEF Rank
  <2> QED BY <1>2, <1>6, <2>1
<1> QED BY <1>5, <1>6

\* Of two legs one precedes the other.
LEMMA PrecedesOneWay ==
  ASSUME NEW day, DayFits(day), NEW j \in Nat, NEW k \in Nat
  PROVE  ~(Precedes(day, j, k) /\ Precedes(day, k, j))
<1>1. Rank(day, j) \in Int /\ Rank(day, k) \in Int
  BY RankIs
<1> QED BY <1>1 DEF Precedes

\* How the legs are listed.
MileageSoFar(p, day) ==
    /\ p \in [0 .. Len(Looked(day)) -> Seq(DOMAIN day.legs)]
    /\ p[0] = <<>>
    /\ \A k \in 1 .. Len(Looked(day)) : p[k] = Listed(day, p[k - 1], Looked(day)[k])
    /\ BoardOrder(day) = p[Len(Looked(day))]

LEMMA LookedIs ==
  ASSUME NEW day, DayFits(day)
  PROVE  LET m == Len(day.order)
             n == Len(day.legs)
         IN  /\ m \in Nat /\ n \in Nat /\ DOMAIN day.legs = 1 .. n
             /\ Looked(day) \in Seq(Nat) /\ Len(Looked(day)) = m + n
             /\ \A k \in 1 .. m : Looked(day)[k] = day.order[k]
             /\ \A k \in m + 1 .. m + n : Looked(day)[k] = k - m
<1> DEFINE m == Len(day.order)
           n == Len(day.legs)
           own == [k \in DOMAIN day.legs |-> k]
<1>1. day.order \in Seq(Nat) /\ IsSequence(day.legs)
  BY DEF DayFits
<1>2. m \in Nat /\ n \in Nat /\ DOMAIN day.legs = 1 .. n
  BY <1>1, LenProperties DEF IsSequence
<1>3. own \in [1 .. n -> Nat] /\ \A k \in 1 .. n : own[k] = k
  BY <1>2
<1>4. own \in Seq(Nat) /\ Len(own) = n
  <2>1. own \in Seq(Nat)
    <3> HIDE DEF own, n
    <3> QED BY <1>2, <1>3, ListsAre
  <2>2. Len(own) \in Nat /\ DOMAIN own = 1 .. Len(own)
    <3> HIDE DEF own
    <3> QED BY <2>1, LenProperties
  <2>3. DOMAIN own = 1 .. n
    BY <1>2
  <2> HIDE DEF own, n
  <2> QED BY <1>2, <1>3, <2>1, <2>2, <2>3, LenProperties
<1> HIDE DEF own, m, n
<1>5. /\ Looked(day) \in Seq(Nat) /\ Len(Looked(day)) = m + n
      /\ \A k \in 1 .. m + n : Looked(day)[k] = IF k <= m THEN day.order[k] ELSE own[k - m]
  BY <1>1, <1>4, ConcatProperties DEF Looked, own, m
<1>6. \A k \in 1 .. m : Looked(day)[k] = day.order[k]
  BY <1>2, <1>5
<1>7. \A k \in m + 1 .. m + n : Looked(day)[k] = k - m
  <2> TAKE k \in m + 1 .. m + n
  <2>1. k \in 1 .. m + n /\ ~(k <= m) /\ k - m \in 1 .. n
    BY <1>2
  <2> QED BY <1>3, <1>5, <2>1
<1> QED BY <1>2, <1>5, <1>6, <1>7 DEF m, n

\* Looking them up is a fold.
LEMMA MileageFolds ==
  ASSUME NEW day, DayFits(day)
  PROVE  \E p : MileageSoFar(p, day)
<1> DEFINE all == Looked(day)
           n == Len(all)
           V == Seq(DOMAIN day.legs)
           step == [x \in V \X (1 .. n) |-> Listed(day, x[1], all[x[2]])]
<1>1. n \in Nat /\ DOMAIN all = 1 .. n
  <2>1. all \in Seq(Nat)
    BY LookedIs
  <2> HIDE DEF all
  <2> QED BY <2>1, LenProperties
<1>2. step \in [V \X (1 .. n) -> V] /\ <<>> \in V
  <2>1. \A v \in V : \A c : Listed(day, v, c) \in V
    BY AppendProperties DEF Listed
  <2> HIDE DEF V, n, all
  <2>2. <<>> \in V
    BY DEF V
  <2> QED BY <2>1, <2>2
<1> HIDE DEF n, V, all
<1>3. PICK g : FoldOf(g, V, n, step, <<>>)
  <2> HIDE DEF step
  <2> QED BY <1>1, <1>2, FoldsKept
<1> DEFINE It(i) == i = [s \in SUBSET (1 .. n) |-> IF s = {} THEN <<>>
                          ELSE Listed(day, i[s \ {Max(s)}], all[Max(s)])]
           it == CHOOSE i : It(i)
<1>4. It(g)
  <2>1. \A s \in SUBSET (1 .. n) : s # {} =>
            step[<<g[s \ {Max(s)}], Max(s)>>] = Listed(day, g[s \ {Max(s)}], all[Max(s)])
    BY <1>3 DEF FoldOf
  <2> HIDE DEF step
  <2> QED BY <1>3, <2>1 DEF FoldOf, Folds
<1>5. It(it)
  <2> HIDE DEF It
  <2> QED BY <1>4
<1>6. BoardOrder(day) = it[1 .. n]
  BY <1>1 DEF BoardOrder, Looked, FoldLeft, MapThenFoldSet, all, n
<1> HIDE DEF it
<1> DEFINE W == V \cup {it[s] : s \in SUBSET (1 .. n)}
           next == [x \in W \X (1 .. n) |-> Listed(day, x[1], all[x[2]])]
<1>7. Folds(it, next, <<>>, 1 .. n)
  <2>1. \A s \in SUBSET (1 .. n) : s # {} =>
            next[<<it[s \ {Max(s)}], Max(s)>>] = Listed(day, it[s \ {Max(s)}], all[Max(s)])
    BY <1>3 DEF FoldOf
  <2> HIDE DEF next
  <2> QED BY <1>5, <2>1 DEF Folds
<1>8. \A v \in V, k \in 1 .. n : next[<<v, k>>] = Listed(day, v, all[k]) /\ next[<<v, k>>] \in V
  <2>1. \A v \in V : \A c : Listed(day, v, c) \in V
    BY AppendProperties DEF Listed, V
  <2> QED BY <2>1
<1> HIDE DEF next
<1>9. PICK p : Results(p, V, n, it, next, <<>>)
  BY <1>1, <1>2, <1>7, <1>8, FoldResults
<1>10. MileageSoFar(p, day)
  <2>1. p \in [0 .. n -> V] /\ p[0] = <<>> /\ p[n] = it[1 .. n]
    BY <1>9 DEF Results
  <2>2. \A k \in 1 .. n : p[k] = Listed(day, p[k - 1], all[k])
    <3> TAKE k \in 1 .. n
    <3>1. k - 1 \in 0 .. n
      BY <1>1
    <3>2. p[k - 1] \in V /\ p[k] = next[<<p[k - 1], k>>]
      BY <1>9, <3>1 DEF Results
    <3> QED BY <1>8, <3>2
  <2> QED BY <1>6, <2>1, <2>2 DEF MileageSoFar, n, V, all
<1> QED BY <1>10

\* What is listed of the first k: each of these that is a leg, and nothing else; in order.
InOrder(listed, day, k) ==
    /\ \A a \in 1 .. Len(listed) : \E j \in 1 .. k : Looked(day)[j] = listed[a]
    /\ \A j \in 1 .. k : Looked(day)[j] \in DOMAIN day.legs => Contains(listed, Looked(day)[j])
    /\ \A a, b \in 1 .. Len(listed) : a < b => Precedes(day, listed[a], listed[b])

\* What comes for the first time comes behind what came before.
LEMMA ComesBehind ==
  ASSUME NEW day, DayFits(day), NEW j \in Nat, NEW k \in Nat, j < k, j # 0,
         k <= Len(Looked(day)), \A i \in 1 .. k - 1 : Looked(day)[i] # Looked(day)[k]
  PROVE  Precedes(day, Looked(day)[j], Looked(day)[k])
<1> DEFINE m == Len(day.order)
           n == Len(day.legs)
           x == Looked(day)[j]
           y == Looked(day)[k]
<1>1. /\ m \in Nat /\ n \in Nat /\ Len(Looked(day)) = m + n
      /\ \A i \in 1 .. m : Looked(day)[i] = day.order[i]
      /\ \A i \in m + 1 .. m + n : Looked(day)[i] = i - m
  BY LookedIs
<1>2. /\ \A q : \A i \in 1 .. m : day.order[i] = q => Rank(day, q) = i
      /\ \A q : (\A i \in 1 .. m : day.order[i] # q) => Rank(day, q) = m + 1
      /\ \A q : Rank(day, q) \in 1 .. m + 1
  BY RankIs
<1> HIDE DEF m, n
<1>3. CASE k <= m
  <2>1. j \in 1 .. m /\ k \in 1 .. m
    BY <1>1, <1>3
  <2>2. Rank(day, x) = j /\ Rank(day, y) = k
    BY <1>1, <1>2, <2>1
  <2> QED BY <2>2 DEF Precedes
<1>4. CASE m < k
  <2>1. k \in m + 1 .. m + n
    BY <1>1, <1>4
  <2>2. y = k - m
    BY <1>1, <2>1
  <2>3. \A i \in 1 .. m : day.order[i] # y
    <3> TAKE i \in 1 .. m
    <3>1. i \in 1 .. k - 1
      BY <1>1, <1>4
    <3> QED BY <1>1, <3>1
  <2>4. Rank(day, y) = m + 1
    BY <1>2, <2>3
  <2>5. CASE j <= m
    <3>1. j \in 1 .. m
      BY <1>1, <2>5
    <3>2. Rank(day, x) = j
      BY <1>1, <1>2, <3>1
    <3> QED BY <1>1, <2>4, <2>5, <3>2 DEF Precedes
  <2>6. CASE m < j
    <3>1. j \in m + 1 .. m + n
      BY <1>1, <2>1, <2>6
    <3>2. x = j - m
      BY <1>1, <3>1
    <3>3. x < y
      BY <1>1, <2>2, <3>2
    <3>4. Rank(day, x) \in 1 .. m + 1
      BY <1>2
    <3>5. Rank(day, x) < m + 1 \/ Rank(day, x) = m + 1
      BY <1>1, <3>4
    <3> QED BY <2>4, <3>3, <3>5 DEF Precedes
  <2> QED BY <1>1, <2>5, <2>6
<1> QED BY <1>1, <1>3, <1>4

\* One more is looked at.
LEMMA ListedInOrder ==
  ASSUME NEW day, DayFits(day), NEW k \in Nat, k + 1 <= Len(Looked(day)),
         NEW listed \in Seq(DOMAIN day.legs), InOrder(listed, day, k)
  PROVE  InOrder(Listed(day, listed, Looked(day)[k + 1]), day, k + 1)
<1> DEFINE all == Looked(day)
           x == all[k + 1]
           new == Listed(day, listed, x)
           l == Len(listed)
<1>1. /\ \A a \in 1 .. l : \E j \in 1 .. k : all[j] = listed[a]
      /\ \A j \in 1 .. k : all[j] \in DOMAIN day.legs => Contains(listed, all[j])
      /\ \A a, b \in 1 .. l : a < b => Precedes(day, listed[a], listed[b])
  BY DEF InOrder
<1>2. l \in Nat /\ \A a \in 1 .. l : listed[a] \in DOMAIN day.legs
  BY LenProperties, ElementOfSeq
<1>3. k + 1 \in 1 .. k + 1 /\ \A j \in 1 .. k : j \in 1 .. k + 1
  OBVIOUS
<1>4. \A j \in 1 .. k + 1 : j \in 1 .. k \/ j = k + 1
  OBVIOUS
<1> HIDE DEF all
<1>5. CASE x \in DOMAIN day.legs /\ ~Contains(listed, x)
  <2>1. new = Append(listed, x)
    BY <1>5 DEF Listed
  <2> HIDE DEF x, new
  <2>2. /\ Len(new) = l + 1 /\ new[l + 1] = x
        /\ \A a \in 1 .. l : new[a] = listed[a]
    BY <1>2, <1>5, <2>1, AppendProperties
  <2>3. \A a \in 1 .. l + 1 : a \in 1 .. l \/ a = l + 1
    BY <1>2
  <2>4. ASSUME NEW a \in 1 .. l + 1
        PROVE  \E j \in 1 .. k + 1 : all[j] = new[a]
    BY <1>1, <1>3, <2>2, <2>3 DEF x
  <2>5. ASSUME NEW j \in 1 .. k + 1, all[j] \in DOMAIN day.legs
        PROVE  Contains(new, all[j])
    <3>1. l + 1 \in 1 .. l + 1 /\ \A a \in 1 .. l : a \in 1 .. l + 1
      BY <1>2
    <3>2. CASE j = k + 1
      BY <2>2, <3>1, <3>2 DEF Contains, x
    <3>3. CASE j \in 1 .. k
      <4>1. PICK a \in 1 .. l : listed[a] = all[j]
        BY <1>1, <2>5, <3>3 DEF Contains
      <4> QED BY <2>2, <3>1, <4>1 DEF Contains
    <3> QED BY <1>4, <3>2, <3>3
  <2>6. \A i \in 1 .. k : all[i] # x
    BY <1>1, <1>5
  <2>7. ASSUME NEW a \in 1 .. l + 1, NEW b \in 1 .. l + 1, a < b
        PROVE  Precedes(day, new[a], new[b])
    <3>1. a \in 1 .. l
      BY <1>2, <2>7
    <3>2. CASE b \in 1 .. l
      BY <1>1, <2>2, <2>7, <3>1, <3>2
    <3>3. CASE b = l + 1
      <4>1. PICK j \in 1 .. k : all[j] = listed[a]
        BY <1>1, <3>1
      <4>2. (k + 1) - 1 = k /\ j \in Nat /\ j # 0 /\ j < k + 1 /\ k + 1 \in Nat
        OBVIOUS
      <4>3. Precedes(day, all[j], all[k + 1])
        BY <2>6, <4>2, ComesBehind DEF all, x
      <4> QED BY <2>2, <3>1, <3>3, <4>1, <4>3 DEF x
    <3> QED BY <2>3, <3>2, <3>3
  <2> QED BY <2>2, <2>4, <2>5, <2>7 DEF InOrder, new, x, all
<1>6. CASE ~(x \in DOMAIN day.legs /\ ~Contains(listed, x))
  <2>1. new = listed
    BY <1>6 DEF Listed
  <2> HIDE DEF new
  <2>2. \A a \in 1 .. l : \E j \in 1 .. k + 1 : all[j] = listed[a]
    BY <1>1, <1>3
  <2>3. \A j \in 1 .. k + 1 : all[j] \in DOMAIN day.legs => Contains(listed, all[j])
    BY <1>1, <1>4, <1>6
  <2> QED BY <1>1, <2>1, <2>2, <2>3 DEF InOrder, new, all
<1> QED BY <1>5, <1>6

\* Each leg is looked up once, in order.
LEMMA MileageIs ==
  ASSUME NEW day, DayFits(day)
  PROVE  /\ BoardOrder(day) \in Seq(DOMAIN day.legs)
         /\ \A x \in DOMAIN day.legs : Contains(BoardOrder(day), x)
         /\ \A a, b \in 1 .. Len(BoardOrder(day)) :
               a < b => Precedes(day, BoardOrder(day)[a], BoardOrder(day)[b])
<1> DEFINE all == Looked(day)
           n == Len(all)
<1>1. PICK p : MileageSoFar(p, day)
  BY MileageFolds
<1>2. /\ p \in [0 .. n -> Seq(DOMAIN day.legs)] /\ p[0] = <<>>
      /\ \A k \in 1 .. n : p[k] = Listed(day, p[k - 1], all[k])
      /\ BoardOrder(day) = p[n]
  BY <1>1 DEF MileageSoFar
<1>3. n \in Nat
  <2>1. all \in Seq(Nat)
    BY LookedIs
  <2> HIDE DEF all
  <2> QED BY <2>1, LenProperties
<1> HIDE DEF n, all
<1> DEFINE P == {k \in 0 .. n : InOrder(p[k], day, k)}
<1>4. 0 \in P
  <2>1. 1 .. Len(p[0]) = {} /\ 1 .. 0 = {} /\ 0 \in 0 .. n
    BY <1>2, <1>3
  <2> QED BY <2>1 DEF InOrder
<1>5. ASSUME NEW k \in 0 .. n, k + 1 \in 0 .. n, k \in P
      PROVE  k + 1 \in P
  <2>1. k + 1 \in 1 .. n /\ (k + 1) - 1 = k /\ k \in Nat /\ k + 1 <= n
    BY <1>3, <1>5
  <2>2. p[k + 1] = Listed(day, p[k], all[k + 1])
    BY <1>2, <2>1
  <2>3. p[k] \in Seq(DOMAIN day.legs) /\ InOrder(p[k], day, k)
    BY <1>2, <1>5
  <2>4. InOrder(p[k + 1], day, k + 1)
    BY <2>1, <2>2, <2>3, ListedInOrder DEF n, all
  <2> QED BY <1>5, <2>4
<1> HIDE DEF P
<1>6. \A k \in 0 .. n : k \in P
  BY <1>3, <1>4, <1>5, UpTo
<1>7. InOrder(p[n], day, n) /\ p[n] \in Seq(DOMAIN day.legs)
  <2>1. n \in 0 .. n
    BY <1>3
  <2> QED BY <1>2, <1>6, <2>1 DEF P
<1>8. ASSUME NEW x \in DOMAIN day.legs
      PROVE  Contains(p[n], x)
  <2> DEFINE m == Len(day.order)
  <2>1. /\ m \in Nat /\ Len(day.legs) \in Nat /\ DOMAIN day.legs = 1 .. Len(day.legs)
        /\ n = m + Len(day.legs)
        /\ \A k \in m + 1 .. m + Len(day.legs) : all[k] = k - m
    BY LookedIs DEF n, all
  <2> HIDE DEF m
  <2>2. m + x \in m + 1 .. m + Len(day.legs) /\ (m + x) - m = x /\ m + x \in 1 .. n
    BY <2>1
  <2>3. all[m + x] = x
    BY <2>1, <2>2
  <2> QED BY <1>7, <2>2, <2>3 DEF InOrder, all
<1> QED BY <1>2, <1>7, <1>8 DEF InOrder

\* The legs in one order: there is only one that is sorted.
LEMMA OneOrder ==
  ASSUME NEW day, DayFits(day), NEW n \in Nat,
         NEW s \in [1 .. n -> Nat], NEW t \in [1 .. n -> Nat],
         \A i, j \in 1 .. n : i # j => s[i] # s[j],
         \A i, j \in 1 .. n : i # j => t[i] # t[j],
         \A i \in 1 .. n : \E j \in 1 .. n : s[j] = t[i],
         \A i \in 1 .. n : \E j \in 1 .. n : t[j] = s[i],
         \A i, j \in 1 .. n : i < j => Precedes(day, s[i], s[j]),
         \A i, j \in 1 .. n : i < j => Precedes(day, t[i], t[j])
  PROVE  s = t
<1> DEFINE P == {k \in 0 .. n : \A i \in 1 .. k : s[i] = t[i]}
<1>1. 0 \in P
  OBVIOUS
<1>2. ASSUME NEW k \in 0 .. n, k + 1 \in 0 .. n, k \in P
      PROVE  k + 1 \in P
  <2> DEFINE m == k + 1
  <2>1. m \in 1 .. n /\ k \in Nat /\ \A i \in 1 .. m : i \in 1 .. k \/ i = m
    BY <1>2
  <2>2. \A i \in 1 .. k : s[i] = t[i] /\ i \in 1 .. n /\ i # m
    BY <1>2
  <2> HIDE DEF m, P
  <2>3. PICK a \in 1 .. n : s[a] = t[m]
    BY <2>1
  <2>4. PICK b \in 1 .. n : t[b] = s[m]
    BY <2>1
  <2>5. a \notin 1 .. k /\ b \notin 1 .. k
    <3>1. ASSUME a \in 1 .. k PROVE FALSE
      <4>1. t[a] = t[m] /\ a # m
        BY <2>2, <2>3, <3>1
      <4> QED BY <2>1, <4>1
    <3>2. ASSUME b \in 1 .. k PROVE FALSE
      <4>1. s[b] = s[m] /\ b # m
        BY <2>2, <2>4, <3>2
      <4> QED BY <2>1, <4>1
    <3> QED BY <3>1, <3>2
  <2>6. m <= a /\ m <= b
    BY <2>1, <2>5 DEF m
  <2>7. a = m
    <3>1. SUFFICES ASSUME a # m PROVE FALSE
      OBVIOUS
    <3>2. b # m
      BY <2>1, <2>3, <2>4, <3>1
    <3>3. m < a /\ m < b
      BY <2>1, <2>6, <3>1, <3>2 DEF m
    <3>4. Precedes(day, s[m], t[m]) /\ Precedes(day, t[m], s[m])
      BY <2>1, <2>3, <2>4, <3>3
    <3>5. s[m] \in Nat /\ t[m] \in Nat
      BY <2>1
    <3> QED BY <3>4, <3>5, PrecedesOneWay
  <2> QED BY <1>2, <2>1, <2>2, <2>3, <2>7 DEF P, m
<1> HIDE DEF P
<1>3. \A k \in 0 .. n : k \in P
  BY <1>1, <1>2, UpTo
<1>4. \A i \in 1 .. n : s[i] = t[i]
  <2>1. n \in 0 .. n
    OBVIOUS
  <2> QED BY <1>3, <2>1 DEF P
<1> QED BY <1>4

\* The legs are looked up in the order of the transport column.
LEMMA MileageAddsUp ==
  ASSUME NEW day, DayFits(day)
  PROVE  BoardOrder(day) = TransportOrder(day)
<1> DEFINE n == Len(day.legs)
           s == BoardOrder(day)
           Sorted(q) == IsSorted(q, LAMBDA j, k : Precedes(day, j, k))
           t == CHOOSE q \in SetToSeqs(DOMAIN day.legs) : Sorted(q)
<1>1. n \in Nat /\ DOMAIN day.legs = 1 .. n
  BY LookedIs
<1>2. IsFiniteSet(1 .. n) /\ Cardinality(1 .. n) = n
  BY <1>1, FS_Interval
<1>3. /\ s \in Seq(1 .. n)
      /\ \A x \in 1 .. n : \E a \in 1 .. Len(s) : s[a] = x
      /\ \A a, b \in 1 .. Len(s) : a < b => Precedes(day, s[a], s[b])
  BY <1>1, MileageIs DEF Contains
<1> HIDE DEF n, s
<1>4. Len(s) \in Nat /\ s \in [1 .. Len(s) -> 1 .. n]
  BY <1>3, LenProperties
<1>5. \A a, b \in 1 .. Len(s) : a # b => s[a] # s[b]
  <2> TAKE a \in 1 .. Len(s), b \in 1 .. Len(s)
  <2>1. s[a] \in Nat /\ s[b] \in Nat
    BY <1>1, <1>4
  <2>2. ~(Precedes(day, s[a], s[a]))
    BY <2>1, PrecedesOneWay
  <2>3. ~(Precedes(day, s[b], s[b]))
    BY <2>1, PrecedesOneWay
  <2>4. a < b \/ b < a \/ a = b
    BY <1>4
  <2>5. a < b => Precedes(day, s[a], s[b])
    BY <1>3
  <2>6. b < a => Precedes(day, s[b], s[a])
    BY <1>3
  <2> QED BY <2>2, <2>3, <2>4, <2>5, <2>6
<1>6. Len(s) = n
  <2>1. s \in Bijection(1 .. Len(s), 1 .. n)
    BY <1>3, <1>4, <1>5 DEF Bijection, Injection, Surjection, IsInjective
  <2>2. ExistsBijection(1 .. Len(s), 1 .. n)
    BY <2>1 DEF ExistsBijection
  <2>3. IsFiniteSet(1 .. Len(s)) /\ Cardinality(1 .. Len(s)) = Len(s)
    BY <1>4, FS_Interval
  <2>4. Cardinality(1 .. n) = Cardinality(1 .. Len(s))
    BY <2>2, <2>3, FS_Bijection
  <2> QED BY <1>2, <2>3, <2>4
<1>7. s \in SetToSeqs(1 .. n) /\ Sorted(s)
  <2>1. s \in SetToSeqs(1 .. n)
    BY <1>2, <1>4, <1>5, <1>6 DEF SetToSeqs
  <2>2. Sorted(s)
    BY <1>3 DEF IsSorted
  <2> QED BY <2>1, <2>2
<1>8. t \in SetToSeqs(1 .. n) /\ Sorted(t)
  <2> HIDE DEF Sorted
  <2> QED BY <1>1, <1>7
<1>9. TransportOrder(day) = t
  BY DEF TransportOrder
<1> HIDE DEF t
<1>10. t \in [1 .. n -> 1 .. n] /\ \A i, j \in 1 .. n : i # j => t[i] # t[j]
  BY <1>2, <1>8 DEF SetToSeqs
<1>11. Len(t) = n
  <2>1. t \in Seq(1 .. n)
    BY <1>1, <1>10, ListsAre
  <2> QED BY <1>1, <1>10, <2>1, LenProperties
<1>12. \A i, j \in 1 .. n : i < j => Precedes(day, t[i], t[j])
  BY <1>8, <1>11 DEF IsSorted
<1>13. \A x \in 1 .. n : \E j \in 1 .. n : t[j] = x
  <2>1. t \in Injection(1 .. n, 1 .. n)
    BY <1>10 DEF Injection, IsInjective
  <2>2. t \in Surjection(1 .. n, 1 .. n)
    BY <1>2, <2>1, FS_Injection
  <2> QED BY <2>2 DEF Surjection
<1>14. s = t
  <2>1. s \in [1 .. n -> Nat] /\ t \in [1 .. n -> Nat]
    <3>1. s \in [1 .. n -> 1 .. n]
      BY <1>4, <1>6
    <3>2. [1 .. n -> 1 .. n] \subseteq [1 .. n -> Nat]
      BY <1>1
    <3> QED BY <1>10, <3>1, <3>2
  <2>2. \A i \in 1 .. n : \E j \in 1 .. n : s[j] = t[i]
    BY <1>3, <1>6, <1>10
  <2>3. \A i \in 1 .. n : \E j \in 1 .. n : t[j] = s[i]
    BY <1>4, <1>6, <1>13
  <2>4. \A i, j \in 1 .. n : i < j => Precedes(day, s[i], s[j])
    BY <1>3, <1>6
  <2>5. \A i, j \in 1 .. n : i # j => s[i] # s[j]
    BY <1>5, <1>6
  <2> QED BY <1>1, <1>10, <1>12, <2>1, <2>2, <2>3, <2>4, <2>5, OneOrder
<1> QED BY <1>9, <1>14 DEF s

\* What the customer reads of the preview of a trip adds up.
LEMMA AddsUpKept ==
  ASSUME TripFits, preview = BuildWebsitePreview(trip)
  PROVE  OutputAddsUp
<1>1. trip.days \in Seq(TripDays)
  BY DEF TripFits
<1>2. /\ preview.options = HotelOptions(trip.days)
      /\ preview.quotation = Quotation(trip)
      /\ \A i \in DOMAIN trip.days : preview.mileage[i] = Selected(trip.days[i], BoardOrder(trip.days[i]))
  BY DEF BuildWebsitePreview, SelectedMileages
<1>3. /\ \A i \in Stays(trip.days) : \A h \in ToSet(trip.days[i].hotels) :
            Cardinality({o \in DOMAIN preview.options :
                /\ preview.options[o].stay = h
                /\ i \in preview.options[o].startDay .. preview.options[o].endDay}) = 1
      /\ \A o, p \in DOMAIN preview.options :
            /\ preview.options[o].nights
               = preview.options[o].endDay - preview.options[o].startDay + 1
            /\ preview.options[o].stay = preview.options[p].stay =>
                  preview.options[o].endDay + 1 # preview.options[p].startDay
  <2>1. NightsAddUp(preview.options, trip.days)
    BY <1>1, <1>2, StaysAddUp
  <2> QED BY <2>1 DEF NightsAddUp
<1>4. ASSUME NEW q \in preview.quotation
      PROVE  LET shown == Total(q.row.components, q.shown)
             IN  /\ shown <= q.unit
                 /\ (q.row.components # Absent
                     /\ \A c \in PriceCategories : q.row.components[c].shown)
                    => shown = q.unit
  <2>1. q \in Quotation(trip)
    BY <1>2
  <2>2. /\ Total(q.row.components, q.shown) <= q.unit
        /\ (q.row.components # Absent /\ \A c \in PriceCategories : q.row.components[c].shown)
           => Total(q.row.components, q.shown) = q.unit
    BY <2>1, QuoteAddsUp
  <2> QED BY <2>2
<1>5. ASSUME NEW i \in DOMAIN trip.days
      PROVE  preview.mileage[i] = Selected(trip.days[i], TransportOrder(trip.days[i]))
  <2>1. DayFits(trip.days[i])
    BY <1>1, TripDaysFit, LenProperties, ElementOfSeq
  <2>2. BoardOrder(trip.days[i]) = TransportOrder(trip.days[i])
    BY <2>1, MileageAddsUp
  <2> QED BY <1>2, <2>2
<1> QED BY <1>3, <1>4, <1>5 DEF OutputAddsUp

-----------------------------------------------------------------------------
(* The steps *)

\* A step of the back office is a step of the report or leaves it as it is.
LEMMA ReportsAlone ==
  [BackOfficeNext]_backVars =>
      part' = part /\ ((part = "reports" /\ ReportNext) \/ UNCHANGED reportVars)
BY DEF BackOfficeNext, AgenciesStep, NumbersStep, AlertsStep, ReportsStep, VisitsStep,
       ShengxuStep, DictionariesStep, ResourcesStep, ReleaseStep, backVars

\* The trip with days of its kind, or with a set of prices, is a trip.
LEMMA TripStays ==
  ASSUME TripFits, NEW days \in Seq(TripDays), NEW prices \in PriceRows \cup {{}},
         prices # {} => days # <<>>, trip' = [trip EXCEPT !.days = days, !.prices = prices]
  PROVE  TripFits'
<1>1. trip \in [duration : Durations, destinations : Destinations, days : Seq(TripDays),
                prices : PriceRows \cup {{}}]
  BY DEF TripFits
<1>2. trip' = [duration |-> trip.duration, destinations |-> trip.destinations,
               days |-> days, prices |-> prices]
  BY <1>1
<1>3. trip'.days = days /\ trip'.prices = prices
  BY <1>2
<1>4. trip' \in [duration : Durations, destinations : Destinations, days : Seq(TripDays),
                 prices : PriceRows \cup {{}}]
  BY <1>1, <1>2
<1> QED BY <1>3, <1>4 DEF TripFits

\* An inquiry starts without days, prices and preview.
LEMMA ReportStart == ReportInit => ReportInv
<1> SUFFICES ASSUME ReportInit PROVE ReportInv
  OBVIOUS
<1>1. PICK n \in Durations, wanted \in Destinations :
          trip = [duration |-> n, destinations |-> wanted, days |-> <<>>, prices |-> {}]
  BY DEF ReportInit
<1>2. <<>> \in Seq(TripDays) /\ {} \in PriceRows \cup {{}}
  OBVIOUS
<1>3. TripFits
  BY <1>1, <1>2 DEF TripFits
<1>4. preview = Absent
  BY DEF ReportInit
<1> QED BY <1>3, <1>4 DEF ReportInv

\* Every step of the report keeps the invariant.
LEMMA ReportStep == ReportInv /\ ReportNext => ReportInv'
<1> SUFFICES ASSUME ReportInv, ReportNext PROVE ReportInv'
  OBVIOUS
<1>1. /\ TripFits
      /\ trip \in [duration : Durations, destinations : Destinations, days : Seq(TripDays),
                   prices : PriceRows \cup {{}}]
      /\ trip.days \in Seq(TripDays) /\ trip.prices \in PriceRows \cup {{}}
      /\ trip.prices # {} => trip.days # <<>>
  BY DEF ReportInv, TripFits
<1>2. CASE GenerateDraft
  <2>1. PICK s \in Skeletons :
            /\ Len(s) = trip.duration
            /\ trip' = [trip EXCEPT !.days = [i \in DOMAIN s |-> DraftDay(s, i)]]
    BY <1>2 DEF GenerateDraft
  <2> DEFINE days == [i \in DOMAIN s |-> DraftDay(s, i)]
             n == Len(s)
  <2>2. n \in Nat /\ DOMAIN s = 1 .. n /\ n # 0
    <3>1. s \in Seq(Cities)
      BY SkeletonsAssumption
    <3>2. n \in Nat /\ DOMAIN s = 1 .. n
      BY <3>1, LenProperties
    <3>3. trip.duration \in Nat \ {0}
      BY <1>1, DurationsAssumption
    <3> QED BY <2>1, <3>2, <3>3
  <2>3. \A i \in 1 .. n : DraftDay(s, i) \in TripDays
    BY <2>2 DEF TripDays
  <2>4. days \in [1 .. n -> TripDays] /\ days \in Seq(TripDays) /\ days # <<>>
    <3>1. days \in [1 .. n -> TripDays]
      BY <2>2, <2>3
    <3> HIDE DEF days, n
    <3>2. days \in Seq(TripDays)
      BY <2>2, <3>1, ListsAre
    <3>3. Len(days) = n
      BY <2>2, <3>1, <3>2, LenProperties
    <3>4. Len(<<>>) = 0
      OBVIOUS
    <3> QED BY <2>2, <3>1, <3>2, <3>3, <3>4
  <2> HIDE DEF days
  <2>5. trip' = [trip EXCEPT !.days = days, !.prices = trip.prices]
    BY <1>1, <2>1 DEF days
  <2>6. TripFits'
    BY <1>1, <2>4, <2>5, TripStays
  <2>7. preview' = Absent
    BY <1>2 DEF GenerateDraft
  <2> QED BY <2>6, <2>7 DEF ReportInv
<1>3. CASE ComposeDay
  <2>1. PICK d \in DayPlans : trip' = [trip EXCEPT !.days = Append(@, d)]
    BY <1>3 DEF ComposeDay
  <2> DEFINE days == Append(trip.days, d)
  <2>2. d \in TripDays
    BY DEF TripDays
  <2>3. days \in Seq(TripDays) /\ days # <<>>
    <3>1. days \in Seq(TripDays) /\ Len(days) = Len(trip.days) + 1 /\ Len(trip.days) \in Nat
      BY <1>1, <2>2, AppendProperties, LenProperties
    <3>2. Len(<<>>) = 0
      OBVIOUS
    <3> HIDE DEF days
    <3> QED BY <3>1, <3>2
  <2> HIDE DEF days
  <2>4. trip' = [trip EXCEPT !.days = days, !.prices = trip.prices]
    BY <1>1, <2>1 DEF days
  <2>5. TripFits'
    BY <1>1, <2>3, <2>4, TripStays
  <2>6. preview' = Absent
    BY <1>3 DEF ComposeDay
  <2> QED BY <2>5, <2>6 DEF ReportInv
<1>4. CASE SetPrices
  <2>1. PICK rows \in PriceRows : trip' = [trip EXCEPT !.prices = rows]
    BY <1>4 DEF SetPrices
  <2>2. trip' = [trip EXCEPT !.days = trip.days, !.prices = rows]
    BY <1>1, <2>1
  <2>3. trip.days # <<>> /\ trip.prices = {} /\ preview' = preview
    BY <1>4 DEF SetPrices
  <2>4. TripFits'
    BY <1>1, <2>2, <2>3, TripStays
  <2>5. preview = Absent
    BY <2>3 DEF ReportInv
  <2> QED BY <2>3, <2>4, <2>5 DEF ReportInv
<1>5. CASE Preview
  <2>1. trip.prices # {} /\ preview' = BuildWebsitePreview(trip) /\ trip' = trip
    BY <1>5 DEF Preview
  <2>2. TripFits'
    BY <1>1, <2>1 DEF TripFits
  <2> QED BY <2>1, <2>2 DEF ReportInv
<1> QED BY <1>2, <1>3, <1>4, <1>5 DEF ReportNext

\* While another part steps there is no preview.
ReportsInv == IF part = "reports" THEN ReportInv ELSE preview = Absent

\* The invariant gives what the report promises.
LEMMA ReportsKept == ReportsInv => ReportSound
<1> SUFFICES ASSUME ReportsInv PROVE ReportSound
  OBVIOUS
<1>1. CASE preview = Absent
  BY <1>1 DEF ReportSound, ReportConfirmable, OutputAddsUp
<1>2. CASE preview # Absent
  <2>1. TripFits /\ preview = BuildWebsitePreview(trip) /\ trip.prices # {}
    BY <1>2 DEF ReportsInv, ReportInv
  <2> QED BY <2>1, ConfirmableKept, AddsUpKept DEF ReportSound
<1> QED BY <1>1, <1>2

\* A report without errors sells a trip that can be made, and what the customer reads of
\* any report adds up: stays, prices and mileage (website-engine.ts, website-price.ts).
THEOREM ReportsStaySound == BackOfficeSpec => []ReportSound
<1>1. BackOfficeInit => ReportsInv
  BY ReportStart DEF BackOfficeInit, ReportShut, ReportsInv
<1>2. ReportsInv /\ [BackOfficeNext]_backVars => ReportsInv'
  <2> SUFFICES ASSUME ReportsInv, [BackOfficeNext]_backVars PROVE ReportsInv'
    OBVIOUS
  <2>1. part' = part /\ ((part = "reports" /\ ReportNext) \/ UNCHANGED reportVars)
    BY ReportsAlone
  <2>2. CASE part = "reports" /\ ReportNext
    BY <2>1, <2>2, ReportStep DEF ReportsInv
  <2>3. CASE UNCHANGED reportVars
    <3>1. trip' = trip /\ preview' = preview
      BY <2>3 DEF reportVars
    <3>2. TripFits' = TripFits
      BY <3>1 DEF TripFits
    <3>3. ReportInv' = ReportInv
      BY <3>1, <3>2 DEF ReportInv
    <3> QED BY <2>1, <3>1, <3>3 DEF ReportsInv
  <2> QED BY <2>1, <2>2, <2>3
<1> QED BY <1>1, <1>2, ReportsKept, PTL DEF BackOfficeSpec
=============================================================================
