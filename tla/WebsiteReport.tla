--------------------------- MODULE WebsiteReport ---------------------------
(***************************************************************************)
(* The report of a website itinerary: what src/website/website-engine.ts   *)
(* and website-price.ts conclude from the saved days, prices and           *)
(* configuration.  An itinerary is generated from a skeleton or composed   *)
(* day by day, priced, and previewed; the preview holds the issues that    *)
(* stop a confirmation and what the customer is shown.                     *)
(*                                                                         *)
(* Languages, wording and dictionaries are left out: both outputs are      *)
(* computed alike.  Amounts are in cents.                                  *)
(***************************************************************************)
EXTENDS Integers, FiniteSets, SequencesExt, FiniteSetsExt

CONSTANTS
    Cities, DisabledCities,
    Absent,
    DisabledAttractions,
    AttractionCity(_), AttractionPrice(_),  \* Absent: not chargeable
    Routes,             \* enabled routes: [from, to, mode, vehicle]
    DayPlans,           \* the days an operator composes
    Skeletons,          \* sequences of cities
    Destinations,       \* what inquiries ask for: sequences of cities
    PriceRows,          \* sets of [vehicle, tier, unit, components]
    Durations

VARIABLES
    trip,       \* [duration, destinations, days, prices]
    preview     \* the last preview, or Absent

reportVars == <<trip, preview>>

(* What a request may hold.  A day lies in cities; the board names an      *)
(* event once, a day offers one hotel of a tier, an inquiry names a        *)
(* destination once.  Prices are amounts or left open.                     *)
IsSequence(s) == s \in Seq(ToSet(s))

DayFits(day) ==
    /\ {day.depart, day.end} \subseteq Cities
    /\ IsSequence(day.legs)
    /\ \A leg \in ToSet(day.legs) : {leg.from, leg.to} \subseteq Cities
    /\ day.order \in Seq(Nat) /\ IsInjective(day.order)
    /\ IsSequence(day.hotels)
    /\ \A j, k \in DOMAIN day.hotels : day.hotels[j].tier = day.hotels[k].tier => j = k

ASSUME DurationsAssumption == Durations \subseteq Nat \ {0}

ASSUME DayPlansAssumption == \A day \in DayPlans : DayFits(day)

ASSUME SkeletonsAssumption == \A s \in Skeletons : s \in Seq(Cities)

ASSUME RoutesAssumption ==
    IsFiniteSet(Routes) /\ \A r \in Routes : {r.from, r.to} \subseteq Cities

ASSUME DestinationsAssumption == \A d \in Destinations : IsSequence(d) /\ IsInjective(d)

ASSUME AbsentAssumption == Absent \notin Nat

(* componentUnitPrice, normalizeVehiclePrice: five categories or none.     *)
PriceCategories == {"hotel", "guide", "vehicle", "attraction", "meal"}

Total(components, categories) ==
    LET part(c) == IF c \in categories THEN components[c].amount ELSE 0
    IN  part("hotel") + part("guide") + part("vehicle") + part("attraction") + part("meal")

ComponentUnitPrice(components) ==
    LET priced == {c \in PriceCategories : components[c].amount # Absent}
    IN  IF priced = {} THEN Absent ELSE Total(components, priced)

ASSUME PriceRowsAssumption ==
    \A rows \in PriceRows : \A row \in rows :
        /\ row.unit \in Nat \cup {Absent}
        /\ row.components # Absent =>
               \A c \in PriceCategories : row.components[c].amount \in Nat \cup {Absent}

UnitPrice(row) ==
    IF row.components = Absent THEN row.unit ELSE ComponentUnitPrice(row.components)

-----------------------------------------------------------------------------
(* websiteQuotationOptions: only the days decide what may be priced.       *)
PrivateLegs(day) == SelectSeq(day.legs, LAMBDA leg : leg.mode = "private_vehicle")

OrAbsent(set) == IF set = {} THEN {Absent} ELSE set

Vehicles(days) ==
    OrAbsent(UNION {{leg.vehicle : leg \in ToSet(PrivateLegs(days[i]))} \ {Absent} :
                       i \in DOMAIN days})

Stays(days) == {i \in DOMAIN days : days[i].overnight # Absent}

HotelTiers(days) ==
    OrAbsent(UNION {{h.tier : h \in ToSet(days[i].hotels)} : i \in Stays(days)})

DriverDays(days) == {i \in DOMAIN days : PrivateLegs(days[i]) # <<>>}

PricedPlans(t) == {row \in t.prices : UnitPrice(row) # Absent}

Issue(code, i) == [code |-> code, day |-> i]

IssueIf(test, code, i) == IF test THEN {Issue(code, i)} ELSE {}

Named(hotels) == {h \in ToSet(hotels) : h.hotel # Absent}

(* VAL-E01, E07 *)
PlanIssues(t) ==
    IssueIf(Len(t.days) # t.duration, "E01", 0)
    \cup IssueIf(PricedPlans(t) = {}, "E07", 0)

(* VAL-E09: every row is one of the combinations the days offer, and each  *)
(* priced tier has a named hotel on every overnight day.                   *)
PriceIssues(t) ==
    IssueIf(\E row \in t.prices : row.vehicle \notin Vehicles(t.days)
                                  \/ row.tier \notin HotelTiers(t.days), "E09", 0)
    \cup UNION {IssueIf(\E row \in PricedPlans(t) : row.tier # Absent
                           /\ \A h \in Named(t.days[i].hotels) : h.tier # row.tier, "E09", i) :
                   i \in Stays(t.days)}

(* CONFIG_NOT_READY for the cities of a day. *)
CityIssues(day, i) ==
    IssueIf({day.depart, day.end} \cap DisabledCities # {}, "CONFIG", i)

(* VAL-E02, E06 *)
HotelIssues_CityOnly(t, i) ==
    LET day == t.days[i]
    IN  IssueIf(day.overnight # Absent
                /\ \E h \in ToSet(day.hotels) : h.city # day.overnight, "E02", i)

HotelIssues(t, i) ==
    LET day == t.days[i]
    IN  IF day.overnight = Absent THEN IssueIf(day.hotels # <<>>, "E02", i)
        ELSE IssueIf(day.overnight # day.end
                     \/ \E h \in ToSet(day.hotels) : h.city # day.overnight, "E02", i)
             \cup IssueIf((\E k \in DOMAIN t.days : t.days[k].hotels # <<>>)
                          /\ Named(day.hotels) = {}, "E06", i)

(* VAL-E03: an attraction lies in a city of the day; the legs connect the  *)
(* day's ends, and a day departs where the one before it ended.            *)
DayCities(day) ==
    {day.depart, day.end} \cup UNION {{leg.from, leg.to} : leg \in ToSet(day.legs)}

LegFrom(day, k) == IF k = 1 THEN day.depart ELSE day.legs[k - 1].to

LegIssues(t, i) ==
    LET day == t.days[i]
        arrived == IF day.legs = <<>> THEN day.depart ELSE Last(day.legs).to
    IN  IssueIf(\/ \E k \in DOMAIN day.legs : day.legs[k].from # LegFrom(day, k)
                \/ arrived # day.end
                \/ i > 1 /\ t.days[i - 1].end # day.depart
                \/ \E a \in ToSet(day.items) : AttractionCity(a) \notin DayCities(day), "E03", i)
        \cup IssueIf(\E leg \in ToSet(day.legs) :
                        (leg.mode = "private_vehicle") # (leg.vehicle # Absent), "INVALID", i)

(* VAL-E04: what a day offers besides, each with the state of its fee. *)
FeeIssues(day, i) == IssueIf(\E f \in day.fees : f.state = "UNKNOWN", "E04", i)

(* CONFIG_NOT_READY for attractions; a repeated one is only a warning. *)
ItemIssues(days, i) ==
    LET before == UNION {ToSet(days[k].items) : k \in 1 .. i - 1}
        twice == \E j, k \in DOMAIN days[i].items : j < k /\ days[i].items[j] = days[i].items[k]
    IN  IssueIf(ToSet(days[i].items) \cap DisabledAttractions # {}, "CONFIG", i)
        \cup IssueIf(twice \/ ToSet(days[i].items) \cap before # {}, "W01", i)

(* The cities of the trip in order, each stay once; the destinations are   *)
(* looked for one after the other, each behind the one before.             *)
Stops(days) ==
    [k \in 1 .. 2 * Len(days) |-> IF k % 2 = 1 THEN days[(k + 1) \div 2].depart
                                  ELSE days[k \div 2].end]

Entered(seen, c) == IF seen # <<>> /\ Last(seen) = c THEN seen ELSE Append(seen, c)

Visited(days) == FoldLeft(Entered, <<>>, Stops(days))

NextPosition(visited, after, c) ==
    LET later == {p \in DOMAIN visited : p > after /\ visited[p] = c}
    IN  IF later = {} THEN Len(visited) + 1 ELSE Min(later)

Follows(destinations, visited) ==
    FoldLeft(LAMBDA p, c : NextPosition(visited, p, c), 0, destinations) <= Len(visited)

DestinationIssues(t) ==
    IssueIf(~Follows(t.destinations, Visited(t.days)), "MISMATCH", 0)

Issues(t) ==
    PlanIssues(t) \cup PriceIssues(t) \cup DestinationIssues(t)
    \cup UNION {CityIssues(t.days[i], i) \cup HotelIssues(t, i) \cup LegIssues(t, i)
                \cup FeeIssues(t.days[i], i) \cup ItemIssues(t.days, i) : i \in DOMAIN t.days}

-----------------------------------------------------------------------------
(* The legs in the order of the board, those it does not name last.  The   *)
(* transport column sorts them; the mileage table looks each up and keeps  *)
(* those the operator has selected for it.                                 *)
Rank(day, k) ==
    IF Contains(day.order, k) THEN CHOOSE p \in DOMAIN day.order : day.order[p] = k
    ELSE Len(day.order) + 1

Precedes(day, j, k) ==
    \/ Rank(day, j) < Rank(day, k)
    \/ Rank(day, j) = Rank(day, k) /\ j < k

TransportOrder(day) ==
    CHOOSE s \in SetToSeqs(DOMAIN day.legs) : IsSorted(s, LAMBDA j, k : Precedes(day, j, k))

Listed(day, seen, k) ==
    IF k \in DOMAIN day.legs /\ ~Contains(seen, k) THEN Append(seen, k) ELSE seen

BoardOrder(day) ==
    FoldLeft(LAMBDA seen, k : Listed(day, seen, k), <<>>,
             day.order \o [k \in DOMAIN day.legs |-> k])

Selected(day, order) == SelectSeq(order, LAMBDA k : day.legs[k].showInMileage)

SelectedMileages_All(day) == BoardOrder(day)
SelectedMileages(day) == Selected(day, BoardOrder(day))

(* Consecutive nights in the same hotel become one stay. *)
RowsOf(days, i) ==
    IF days[i].overnight = Absent THEN <<>>
    ELSE [k \in DOMAIN days[i].hotels |-> [day |-> i, stay |-> days[i].hotels[k]]]

HotelRows(days) ==
    FoldLeftDomain(LAMBDA rows, i : rows \o RowsOf(days, i), <<>>, days)

LatestOf(options, stay) ==
    LET same == {o \in DOMAIN options : options[o].stay = stay}
    IN  IF same = {} THEN 0 ELSE Max(same)

Continues_AnyGap(option, row) == option.endDay < row.day

Continues(option, row) == option.endDay = row.day - 1

Stayed(options, row) ==
    LET o == LatestOf(options, row.stay)
    IN  IF o # 0 /\ Continues(options[o], row)
        THEN [options EXCEPT ![o].endDay = row.day, ![o].nights = @ + 1]
        ELSE Append(options, [stay |-> row.stay, startDay |-> row.day,
                              endDay |-> row.day, nights |-> 1])

HotelOptions(days) == FoldLeft(Stayed, <<>>, HotelRows(days))

(* quotation: the priced rows with the components the customer may see.    *)
Quotation(t) ==
    {[vehicle |-> row.vehicle, tier |-> row.tier, unit |-> UnitPrice(row),
      includesDriver |-> DriverDays(t.days) # {},
      shown |-> IF row.components = Absent THEN {}
                ELSE {c \in PriceCategories : /\ row.components[c].shown
                                              /\ row.components[c].amount # Absent},
      row |-> row] : row \in PricedPlans(t)}

(* teamStandard: what the price includes, by category; a hotel's breakfast *)
(* is a meal, and only named hotels are listed.                            *)
Inclusions(days) ==
    {[kind |-> f.kind, name |-> f.name] :
        f \in {g \in UNION {days[i].fees : i \in DOMAIN days} : g.state = "INCLUDED"}}
    \cup {[kind |-> "hotel", name |-> h.hotel] :
             h \in UNION {Named(days[i].hotels) : i \in Stays(days)}}
    \cup {[kind |-> "meal", name |-> h.hotel] :
             h \in {g \in UNION {Named(days[i].hotels) : i \in Stays(days)} : g.breakfast}}

(* The B / L / D column of a day. *)
MealsShown(day) ==
    {f.name : f \in {g \in day.fees : g.kind = "meal" /\ g.state = "INCLUDED"}}
    \cup (IF day.overnight # Absent /\ \E h \in ToSet(day.hotels) : h.breakfast
          THEN {"breakfast"} ELSE {})

(* websiteAttractionPriceReference: each visit counts. *)
AttractionReference(days) ==
    FoldLeft(LAMBDA sum, day :
                FoldLeft(LAMBDA s, a : IF AttractionPrice(a) = Absent THEN s
                                       ELSE s + AttractionPrice(a), sum, day.items),
             0, days)

BuildWebsitePreview(t) ==
    [issues |-> Issues(t),
     options |-> HotelOptions(t.days),
     quotation |-> Quotation(t),
     reference |-> AttractionReference(t.days),
     inclusions |-> Inclusions(t.days),
     meals |-> [i \in DOMAIN t.days |-> MealsShown(t.days[i])],
     mileage |-> [i \in DOMAIN t.days |-> SelectedMileages(t.days[i])]]

-----------------------------------------------------------------------------
(* generateWebsiteDraft: a leg where exactly one route joins the cities, an *)
(* unnamed hotel of the first tier for every night but the last, breakfast  *)
(* on every day but the first.  The leg is not selected for the mileage    *)
(* table.  Patterns of attractions are left out.                           *)
DraftLeg(r) ==
    [from |-> r.from, to |-> r.to, mode |-> r.mode, vehicle |-> r.vehicle,
     showInMileage |-> FALSE]

DraftLegs(from, to) ==
    LET matching == {r \in Routes : r.from = from /\ r.to = to}
    IN  IF from # to /\ Cardinality(matching) = 1
        THEN <<DraftLeg(CHOOSE r \in matching : TRUE)>> ELSE <<>>

DraftMeals(i) ==
    {[kind |-> "meal", name |-> slot,
      state |-> IF slot = "breakfast" /\ i # 1 THEN "INCLUDED" ELSE "SELF_PAY"] :
        slot \in {"breakfast", "lunch", "dinner"}}

DraftDay(skeleton, i) ==
    LET city == skeleton[i]
        from == IF i = 1 THEN city ELSE skeleton[i - 1]
    IN  [depart |-> from, end |-> city,
         overnight |-> IF i = Len(skeleton) THEN Absent ELSE city,
         hotels |-> IF i = Len(skeleton) THEN <<>>
                    ELSE <<[tier |-> "A", city |-> city, hotel |-> Absent,
                          breakfast |-> TRUE]>>,
         legs |-> DraftLegs(from, city), order |-> <<>>, items |-> <<>>, fees |-> DraftMeals(i)]

ReportInit ==
    /\ \E n \in Durations : \E wanted \in Destinations :
          trip = [duration |-> n, destinations |-> wanted, days |-> <<>>, prices |-> {}]
    /\ preview = Absent

GenerateDraft ==
    /\ preview = Absent
    /\ \E s \in Skeletons :
          /\ Len(s) = trip.duration
          /\ ToSet(s) \cap DisabledCities = {}
          /\ trip' = [trip EXCEPT !.days = [i \in DOMAIN s |-> DraftDay(s, i)]]
    /\ UNCHANGED preview

ComposeDay ==
    /\ Len(trip.days) < trip.duration
    /\ preview = Absent
    /\ \E d \in DayPlans : trip' = [trip EXCEPT !.days = Append(@, d)]
    /\ UNCHANGED preview

SetPrices ==
    /\ trip.days # <<>>
    /\ trip.prices = {}
    /\ \E rows \in PriceRows : trip' = [trip EXCEPT !.prices = rows]
    /\ UNCHANGED preview

Preview ==
    /\ preview = Absent
    /\ trip.prices # {}
    /\ preview' = BuildWebsitePreview(trip)
    /\ UNCHANGED trip

ReportNext == GenerateDraft \/ ComposeDay \/ SetPrices \/ Preview

-----------------------------------------------------------------------------
(* What the trip is made of, whatever was composed, generated and priced;  *)
(* a preview is that of the trip as it is.                                 *)
TripDays ==
    DayPlans \cup UNION {{DraftDay(s, i) : i \in DOMAIN s} : s \in Skeletons}

TripFits ==
    /\ trip \in [duration : Durations, destinations : Destinations, days : Seq(TripDays),
                  prices : PriceRows \cup {{}}]
    /\ trip.prices # {} => trip.days # <<>>

ReportInv ==
    /\ TripFits
    /\ preview # Absent => preview = BuildWebsitePreview(trip) /\ trip.prices # {}

-----------------------------------------------------------------------------
(* A route of the whole trip: every leg starts where the traveller is, and *)
(* where the day ends the traveller is.                                    *)
Connected(days) ==
    \E at \in [0 .. Len(days) -> Cities] :
        \A i \in DOMAIN days :
            LET legs == days[i].legs
            IN  /\ days[i].depart = at[i - 1]
                /\ days[i].end = at[i]
                /\ \E stops \in [0 .. Len(legs) -> Cities] :
                      /\ stops[0] = at[i - 1]
                      /\ stops[Len(legs)] = at[i]
                      /\ \A k \in DOMAIN legs :
                            legs[k].from = stops[k - 1] /\ legs[k].to = stops[k]

(* The destinations can be found along the way in their order. *)
Embedded(destinations, days) ==
    \E f \in [DOMAIN destinations -> DOMAIN Stops(days)] :
        /\ \A j, k \in DOMAIN destinations : j < k => f[j] < f[k]
        /\ \A j \in DOMAIN destinations : destinations[j] = Stops(days)[f[j]]

Offered(days) == UNION {ToSet(days[i].hotels) : i \in DOMAIN days}

(* A report without errors sells a trip that can be made: it is connected  *)
(* and leads through the destinations in order, the traveller sleeps where *)
(* the day ends, and for every quoted price each night has a named hotel   *)
(* of its tier in that city, unless the trip is sold without any hotels.   *)
(* The destinations are missed only by a trip that does not lead through   *)
(* them.                                                                   *)
ReportConfirmable ==
    preview # Absent =>
    /\ (Issue("MISMATCH", 0) \in preview.issues) = ~Embedded(trip.destinations, trip.days)
    /\ {i \in preview.issues : i.code # "W01"} = {} =>
        /\ Len(trip.days) = trip.duration
        /\ Connected(trip.days)
        /\ \A q \in preview.quotation : \A i \in DOMAIN trip.days :
              trip.days[i].overnight # Absent /\ Offered(trip.days) # {} =>
                  \E h \in ToSet(trip.days[i].hotels) :
                      /\ q.tier \in {h.tier, Absent}
                      /\ h.hotel # Absent
                      /\ h.city = trip.days[i].end

(* What the customer reads adds up, whether or not it can be confirmed:    *)
(* every night of every hotel is in exactly one stay and stays are as long *)
(* as they can be; the shown parts of a price never exceed it and, all     *)
(* shown, make it; the mileage table lists the legs that are selected for  *)
(* it, and no other, in the order of the transport column.                 *)
OutputAddsUp ==
    preview # Absent =>
        /\ \A i \in Stays(trip.days) : \A h \in ToSet(trip.days[i].hotels) :
              Cardinality({o \in DOMAIN preview.options :
                  /\ preview.options[o].stay = h
                  /\ i \in preview.options[o].startDay .. preview.options[o].endDay}) = 1
        /\ \A o, p \in DOMAIN preview.options :
              /\ preview.options[o].nights
                 = preview.options[o].endDay - preview.options[o].startDay + 1
              /\ preview.options[o].stay = preview.options[p].stay =>
                    preview.options[o].endDay + 1 # preview.options[p].startDay
        /\ \A q \in preview.quotation :
              LET shown == Total(q.row.components, q.shown)
              IN  /\ shown <= q.unit
                  /\ (q.row.components # Absent
                      /\ \A c \in PriceCategories : q.row.components[c].shown)
                     => shown = q.unit
        /\ \A i \in DOMAIN trip.days : preview.mileage[i] = Selected(trip.days[i], TransportOrder(trip.days[i]))

(* The report of an itinerary, and what the customer reads of it.          *)
ReportSound == ReportConfirmable /\ OutputAddsUp
=============================================================================
