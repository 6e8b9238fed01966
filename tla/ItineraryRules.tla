--------------------------- MODULE ItineraryRules ---------------------------
(***************************************************************************)
(* The saves of one draft itinerary of a standard inquiry: the document a  *)
(* client sends is normalised against the saved one and the resource       *)
(* catalogue (src/inquiries/itinerary-validation.ts), the price changes    *)
(* are written to itinerary_price_adjustments (price-adjustments.ts), and  *)
(* the tables are rewritten (structured-itinerary.ts).  Saves of an        *)
(* itinerary are serialised by the locks that InquiryLifecycle models, so  *)
(* a save is one step here; the catalogue may change between two saves.    *)
(*                                                                         *)
(* A client edits one section of the plan at a time and the behaviours     *)
(* edit the section that focus names: the normalisation always runs over   *)
(* the whole plan.                                                         *)
(***************************************************************************)
EXTENDS QuotePricing

CONSTANTS
    MealSlots,       \* lunch and dinner
    Restaurants, Attractions,
    CustomMeal,      \* a meal that is not in the catalogue
    StandardPriced,  \* resources with is_standard_price: may be repeated
    TableSize,       \* restaurant priced by table -> its diners, or Nothing
    Hotels, HotelCity, HotelTier,
    Vehicles, VehicleTier, VehicleSeats,
    Guides,
    Reasons,         \* the reasons a client may give
    Blank,           \* no reason
    Prices,          \* cents that the catalogue and the clients use
    PlannedDays,     \* planned_days of the inquiry
    Focuses,         \* the sections of the plan under edit
    FirstPlan,       \* the document the itinerary is created from
    EditedPlans(_, _),   \* focus, saved plan -> the documents a client may send
    EditedResources(_),  \* focus -> the resources whose catalogue entry changes
    NoMode,          \* pricingMode is not given
    DayNames, ItemNames, \* the ids clients give days and items
    GroupSizes       \* the sizes of group a plan may quote

Modes == {"automatic", "manual", "unknown"}

ASSUME NoModeAssumption == NoMode \notin Modes
ASSUME PricesAssumption == Prices \subseteq Nat /\ Prices # {} /\ IsFiniteSet(Prices)
ASSUME TableSizeAssumption ==
    TableSize \in [Restaurants \cup Attractions -> (Nat \ {0}) \cup {Nothing}]
ASSUME GroupSizesAssumption == GroupSizes \subseteq Nat \ {0}
ASSUME FiniteAssumption == IsFiniteSet(Cities) /\ IsFiniteSet(ItemNames)

Resources == Cities \cup Restaurants \cup Attractions \cup Hotels \cup Guides \cup Vehicles
Bases == {"hotel_group", "hotel_individual"}

VARIABLES
    plan,         \* the saved itinerary, or Nothing before it is created
    catalogue,    \* resource -> [enabled, price, group]
    adjustments,  \* the rows the last save put in itinerary_price_adjustments
    focus         \* the section the clients edit

itineraryVars == <<plan, catalogue, adjustments, focus>>

-----------------------------------------------------------------------------
(* requirePriceReason: a price that changes needs a reason, unless it is   *)
(* the first price of its selection and the one of the catalogue.          *)

Changed(price, previous) == previous = NoPrice \/ previous # price

Restored(price, reference) == reference # NoPrice /\ price = reference

NeedsReason(price, previous, reference, lenient) ==
    /\ Changed(price, previous)
    /\ ~Restored(price, reference) \/ (previous # NoPrice /\ ~lenient)

ReasonGiven(price, previous, reference, lenient, reason) ==
    price # NoPrice /\ NeedsReason(price, previous, reference, lenient) => reason # Blank

ReasonKept(price, previous, reference, lenient, reason, oldReason) ==
    CASE price = NoPrice -> Blank
      [] price # NoPrice /\ ~Changed(price, previous) -> oldReason
      [] price # NoPrice /\ Changed(price, previous) ->
            IF NeedsReason(price, previous, reference, lenient) THEN reason ELSE Blank

-----------------------------------------------------------------------------
(* Days: the previous plan counts its deleted days after its active ones.  *)

AllDays(data) == data.days \o data.deleted

OldDays(old) == IF old = Nothing THEN <<>> ELSE AllDays(old)

OldNightBefore(old, id) ==
    LET places == {k \in 2 .. Len(OldDays(old)) : OldDays(old)[k].id = id}
    IN  IF places = {} THEN NoCity ELSE OldDays(old)[Min(places) - 1].overnight

(* A day departs from where the night before was spent, until the client   *)
(* says otherwise: a departure that was derived follows the new night.     *)
Departure(new, old, i) ==
    LET day    == new.days[i]
        before == OldNightBefore(old, day.id)
        night  == new.days[i - 1].overnight
    IN  IF i > 1 /\ (day.departure = NoCity
                     \/ (before \notin {NoCity, Unset} /\ day.departure = before))
        THEN IF night = Unset THEN NoCity ELSE night
        ELSE day.departure

(* Breakfast comes with a night for which every offered tier has a hotel.  *)
OfferedTiers(new) ==
    {t \in HotelTiers : \E c \in Cities : new.hotels[<<t, c>>] # Nothing}

Breakfast(new, i) ==
    /\ i > 1
    /\ new.days[i - 1].overnight \in Cities
    /\ OfferedTiers(new) # {}
    /\ \A t \in OfferedTiers(new) : new.hotels[<<t, new.days[i - 1].overnight>>] # Nothing

DaysSaved(new, old) ==
    [i \in DOMAIN new.days |->
        [new.days[i] EXCEPT !.departure = Departure(new, old, i),
                            !.breakfast = Breakfast(new, i)]]

MealsAt(new, id, slot) ==
    {m \in Known(new.items) : new.items[m].day = id /\ new.items[m].slot = slot}

DestinationsOk(new, old) ==
    \A c \in new.destinations :
        (IF old = Nothing THEN TRUE ELSE c \notin old.destinations) => catalogue[c].enabled

DaysOk(new) ==
    /\ \A i, j \in DOMAIN AllDays(new) : i # j => AllDays(new)[i].id # AllDays(new)[j].id
    /\ \A i \in DOMAIN new.days :
          /\ new.days[i].overnight \in new.destinations \cup {NoCity, Unset}
          /\ \A s \in MealSlots :
                /\ Cardinality(MealsAt(new, new.days[i].id, s)) <= 1
                /\ MealsAt(new, new.days[i].id, s) # {} => s \in new.days[i].meals

-----------------------------------------------------------------------------
(* Items of active and of deleted days. *)

OldItem(new, old, m) ==
    IF old = Nothing THEN Nothing
    ELSE IF old.items[m] # Nothing /\ old.items[m].resource = new.items[m].resource
         THEN old.items[m] ELSE Nothing

ItemReference(new, old, m) ==
    LET r == new.items[m].resource
    IN  IF r = CustomMeal THEN NoPrice
        ELSE IF OldItem(new, old, m) # Nothing THEN OldItem(new, old, m).reference
        ELSE catalogue[r].price

ItemDiners(new, old, m) ==
    LET item == new.items[m]
        was  == OldItem(new, old, m)
    IN  IF item.resource = CustomMeal THEN item.diners
        ELSE IF was # Nothing THEN was.diners
        ELSE TableSize[item.resource]

PriceBefore(was) == IF was = Nothing THEN NoPrice ELSE was.price
ReasonBefore(was) == IF was = Nothing THEN Blank ELSE was.reason

ItemsSaved(new, old) ==
    [m \in DOMAIN new.items |->
        IF new.items[m] = Nothing THEN Nothing
        ELSE LET item == new.items[m]
                 was  == OldItem(new, old, m)
                 ref  == ItemReference(new, old, m)
             IN  [item EXCEPT
                    !.reference = ref,
                    !.diners = ItemDiners(new, old, m),
                    !.reason = ReasonKept(item.price, PriceBefore(was), ref, FALSE,
                                          item.reason, ReasonBefore(was))]]

(* assertUniqueResources: an active plan repeats a resource only when its  *)
(* price is standard; custom meals are placeholders.                       *)
NoRepeatedResource(new) ==
    \A m, k \in ActiveItems(new) :
        /\ m # k
        /\ new.items[m].resource = new.items[k].resource
        => new.items[m].resource \in StandardPriced \cup {CustomMeal}

ItemsOk(new, old) ==
    /\ NoRepeatedResource(new)
    /\ \A m \in Known(new.items) :
          LET item == new.items[m]
              was  == OldItem(new, old, m)
          IN  /\ (item.slot # Nothing) = (item.resource \notin Attractions)
              /\ item.resource # CustomMeal /\ was = Nothing
                 => catalogue[item.resource].enabled
              /\ ReasonGiven(item.price, PriceBefore(was), ItemReference(new, old, m),
                             FALSE, item.reason)

-----------------------------------------------------------------------------
(* Hotels: a selection keeps its reference while the hotel and the kind of *)
(* rate stay; the catalogue is read again when either changes.             *)

OldHotel(new, old, k) ==
    IF old = Nothing THEN Nothing
    ELSE IF old.hotels[k] # Nothing /\ old.hotels[k].hotel = new.hotels[k].hotel
         THEN old.hotels[k] ELSE Nothing

SameBasis(new, old, k) ==
    /\ OldHotel(new, old, k) # Nothing
    /\ OldHotel(new, old, k).basis = new.hotels[k].basis

HotelReference_Refetched(new, old, k) ==
    IF new.hotels[k].basis = "hotel_group" THEN catalogue[new.hotels[k].hotel].group
    ELSE catalogue[new.hotels[k].hotel].price

HotelReference(new, old, k) ==
    IF SameBasis(new, old, k) THEN OldHotel(new, old, k).reference
    ELSE IF new.hotels[k].basis = "hotel_group" THEN catalogue[new.hotels[k].hotel].group
    ELSE catalogue[new.hotels[k].hotel].price

HotelPriceBefore_AnyRate(new, old, k) ==
    IF OldHotel(new, old, k) # Nothing THEN OldHotel(new, old, k).price ELSE NoPrice

HotelPriceBefore(new, old, k) ==
    IF SameBasis(new, old, k) THEN OldHotel(new, old, k).price ELSE NoPrice

HotelsSaved(new, old) ==
    [k \in DOMAIN new.hotels |->
        IF new.hotels[k] = Nothing THEN Nothing
        ELSE LET hotel == new.hotels[k]
                 ref   == HotelReference(new, old, k)
             IN  [hotel EXCEPT
                    !.reference = ref,
                    !.reason = ReasonKept(hotel.price, HotelPriceBefore(new, old, k), ref,
                                          FALSE, hotel.reason,
                                          ReasonBefore(OldHotel(new, old, k)))]]

HotelsOk(new, old) ==
    \A k \in Known(new.hotels) :
        LET hotel == new.hotels[k]
        IN  /\ k[2] \in new.destinations
            /\ ~SameBasis(new, old, k) =>
                  /\ catalogue[hotel.hotel].enabled
                  /\ HotelCity[hotel.hotel] = k[2]
                  /\ HotelTier[hotel.hotel] = k[1]
                  /\ hotel.basis \in Bases
                  /\ hotel.basis = "hotel_group" => catalogue[hotel.hotel].group # NoPrice
            /\ ReasonGiven(hotel.price, HotelPriceBefore(new, old, k),
                           HotelReference(new, old, k), FALSE, hotel.reason)

-----------------------------------------------------------------------------
(* Vehicles: each tier has segments of days with their vehicles, and one   *)
(* price for the whole tour.  A segment without dates is <<>>.             *)

NoGroup == [ranges |-> <<>>, mode |-> NoMode, total |-> NoPrice, segment |-> NoPrice,
            reason |-> Blank]

OldGroup(old, t) == IF old = Nothing THEN NoGroup ELSE old.vehicles[t]

KnownVehicles(group) == UNION {group.ranges[r].vehicles : r \in DOMAIN group.ranges}

Seats(range) == SumFunction([v \in range.vehicles |-> VehicleSeats[v]])

(* A vehicle that the tier did not have yet comes from the catalogue. *)
VehiclesOk(new, old, t) ==
    \A v \in KnownVehicles(new.vehicles[t]) \ KnownVehicles(OldGroup(old, t)) :
        catalogue[v].enabled /\ VehicleTier[v] = t

RangesOk_AnyGroup(new, t) ==
    LET ranges == new.vehicles[t].ranges
    IN  /\ \A r \in DOMAIN ranges :
             LET range == ranges[r]
             IN  range.days # <<>> =>
                   /\ range.days[1] >= 1 /\ range.days[2] <= Len(new.days)
                   /\ range.days[1] <= range.days[2]
                   /\ range.vehicles # {} \/ range.total = NoPrice
                      => Seats(range) >= Min(new.pax)
        /\ \A r, s \in DOMAIN ranges :
             r # s /\ ranges[r].days # <<>> /\ ranges[s].days # <<>>
             => ranges[r].days[1] > ranges[s].days[2] \/ ranges[s].days[1] > ranges[r].days[2]

RangesOk(new, t) ==
    LET ranges == new.vehicles[t].ranges
    IN  /\ \A r \in DOMAIN ranges :
             LET range == ranges[r]
             IN  range.days # <<>> =>
                   /\ range.days[1] >= 1 /\ range.days[2] <= Len(new.days)
                   /\ range.days[1] <= range.days[2]
                   /\ range.vehicles # {} \/ range.total = NoPrice
                      => Seats(range) >= Max(new.pax)
        /\ \A r, s \in DOMAIN ranges :
             r # s /\ ranges[r].days # <<>> /\ ranges[s].days # <<>>
             => ranges[r].days[1] > ranges[s].days[2] \/ ranges[s].days[1] > ranges[r].days[2]

(* vehicleSegmentTotal *)
SegmentTotal(ranges) ==
    IF ranges = <<>> \/ \E r \in DOMAIN ranges : ranges[r].total = NoPrice THEN NoPrice
    ELSE SumFunction([r \in DOMAIN ranges |-> ranges[r].total])

GroupTotalSent(group) == IF group.ranges = <<>> THEN NoPrice ELSE group.total

(* pricingMode: the client's, else the saved one, else automatic when the  *)
(* price asked for is the sum of the segments.                             *)
Mode(new, old, t) ==
    LET group   == new.vehicles[t]
        segment == SegmentTotal(group.ranges)
    IN  IF group.mode # NoMode THEN group.mode
        ELSE IF OldGroup(old, t).mode # NoMode THEN OldGroup(old, t).mode
        ELSE IF segment # NoPrice /\ GroupTotalSent(group) \in {NoPrice, segment}
        THEN "automatic" ELSE "manual"

GroupSaved(new, old, t) ==
    LET group   == new.vehicles[t]
        was     == OldGroup(old, t)
        segment == SegmentTotal(group.ranges)
        mode    == Mode(new, old, t)
        total   == IF mode = "automatic" THEN segment ELSE GroupTotalSent(group)
        before  == was.total
    IN  [group EXCEPT
            !.mode = mode, !.segment = segment, !.total = total,
            !.reason = CASE mode = "automatic" -> Blank
                         [] mode # "automatic" /\ total = NoPrice -> group.reason
                         [] mode # "automatic" /\ total # NoPrice /\ before = NoPrice -> Blank
                         [] mode # "automatic" /\ total # NoPrice /\ before # NoPrice ->
                              ReasonKept(total, before, segment, TRUE, group.reason,
                                         was.reason)]

GroupOk(new, old, t) ==
    LET saved == GroupSaved(new, old, t)
        was   == OldGroup(old, t)
    IN  /\ VehiclesOk(new, old, t)
        /\ RangesOk(new, t)
        /\ saved.mode = "automatic" /\ saved.ranges # <<>> => saved.segment # NoPrice
        /\ saved.mode # "automatic" /\ was.total # NoPrice
           => ReasonGiven(saved.total, was.total, saved.segment, TRUE, new.vehicles[t].reason)

-----------------------------------------------------------------------------
(* The guide of the plan, at most one; kept by the guide when it moves to  *)
(* another city of the plan.                                               *)

OldGuide(new, old) ==
    IF old = Nothing THEN Nothing
    ELSE IF old.guide # Nothing /\ old.guide.guide = new.guide.guide
         THEN old.guide ELSE Nothing

GuideReference(new, old) ==
    IF OldGuide(new, old) = Nothing THEN catalogue[new.guide.guide].price
    ELSE OldGuide(new, old).reference

GuideSaved(new, old) ==
    IF new.guide = Nothing THEN Nothing
    ELSE LET was == OldGuide(new, old)
             ref == GuideReference(new, old)
         IN  [new.guide EXCEPT
                !.reference = ref,
                !.reason = ReasonKept(new.guide.price, PriceBefore(was), ref, FALSE,
                                      new.guide.reason, ReasonBefore(was))]

GuideOk(new, old) ==
    new.guide # Nothing =>
        LET was == OldGuide(new, old)
        IN  /\ new.guide.city \in new.destinations
            /\ was = Nothing => catalogue[new.guide.guide].enabled
            /\ ReasonGiven(new.guide.price, PriceBefore(was), GuideReference(new, old),
                           FALSE, new.guide.reason)

-----------------------------------------------------------------------------
(* The quote: one option for each hotel tier with hotels and each vehicle  *)
(* tier with segments; an option that was asked for keeps its prices.      *)

UsedVehicleTiers(new) == {t \in VehicleTiers : new.vehicles[t].ranges # <<>>}

OptionsSaved(new) ==
    [o \in OfferedTiers(new) \X UsedVehicleTiers(new) |->
        [p \in new.pax |->
            IF o \in DOMAIN new.quote.options /\ p \in DOMAIN new.quote.options[o]
            THEN new.quote.options[o][p] ELSE NoPrice]]

(* A plan quotes its own pax tiers and cities, whatever was filled in. *)
Filled(costs, keys) ==
    [k \in keys |-> IF k \in DOMAIN costs THEN costs[k] ELSE NoPrice]

QuoteSaved(new) ==
    [new.quote EXCEPT !.paxOther = Filled(@, new.pax),
                      !.rooms    = Filled(@, new.destinations),
                      !.options  = OptionsSaved(new)]

QuoteOk(new) ==
    /\ DOMAIN new.quote.paxOther \subseteq new.pax
    /\ DOMAIN new.quote.rooms \subseteq new.destinations
    /\ \A o \in DOMAIN new.quote.options : DOMAIN new.quote.options[o] \subseteq new.pax
    /\ KnownPrice(new.quote.other) > 0 => new.quote.otherReason # Blank

-----------------------------------------------------------------------------
(* normalize *)

Normalized(new, old) ==
    [new EXCEPT
        !.days     = DaysSaved(new, old),
        !.items    = ItemsSaved(new, old),
        !.hotels   = HotelsSaved(new, old),
        !.vehicles = [t \in VehicleTiers |-> GroupSaved(new, old, t)],
        !.guide    = GuideSaved(new, old),
        !.quote    = QuoteSaved(new)]

Acceptable(new, old) ==
    /\ old = Nothing => Len(new.days) = PlannedDays
    /\ DestinationsOk(new, old)
    /\ DaysOk(new)
    /\ ItemsOk(new, old)
    /\ HotelsOk(new, old)
    /\ \A t \in VehicleTiers : GroupOk(new, old, t)
    /\ GuideOk(new, old)
    /\ QuoteOk(new)

-----------------------------------------------------------------------------
(* What a client may send: the classes of inquiry.dto.ts.                  *)

Cents == Nat \cup {NoPrice}
Reason == Reasons \cup {Blank}

(* The costs of those keys that were given one. *)
Costs(given) == [DOMAIN given -> Cents]

DayInput == [id : DayNames, departure : Cities \cup {NoCity},
             overnight : Cities \cup {NoCity, Unset}, breakfast : BOOLEAN,
             meals : SUBSET MealSlots]

ItemInput == [day : DayNames, resource : Restaurants \cup Attractions \cup {CustomMeal},
              slot : MealSlots \cup {Nothing}, diners : (Nat \ {0}) \cup {Nothing},
              price : Cents, reference : Cents, reason : Reason]

HotelInput == [hotel : Hotels, basis : Bases \cup {"resource_price", "unknown"},
               price : Cents, reference : Cents, reason : Reason]

GuideInput == [city : Cities, guide : Guides, price : Cents, reference : Cents,
               reason : Reason]

ArrangementInput == [days : {<<>>} \cup (Nat \X Nat), vehicles : SUBSET Vehicles,
                     total : Cents]

VehiclePlanInput == [ranges : Seq(ArrangementInput), mode : Modes \cup {NoMode},
                     total : Cents, segment : Cents, reason : Reason]

QuoteInput(quote) == [other : Cents, otherReason : Reason, paxOther : Costs(quote.paxOther),
                      rooms : Costs(quote.rooms), options : {quote.options}, tip : Cents]

PlanOf(quotes) ==
    [destinations : (SUBSET Cities) \ {{}}, days : Seq(DayInput) \ {<<>>},
     deleted : Seq(DayInput),
     items : [ItemNames -> ItemInput \cup {Nothing}],
     hotels : [HotelTiers \X Cities -> HotelInput \cup {Nothing}],
     vehicles : [VehicleTiers -> VehiclePlanInput], guide : GuideInput \cup {Nothing},
     pax : (SUBSET GroupSizes) \ {{}}, quote : quotes]

ItineraryInput(data) ==
    /\ data \in PlanOf(QuoteInput(data.quote))
    /\ \A o \in DOMAIN data.quote.options :
          data.quote.options[o] \in Costs(data.quote.options[o])

ASSUME NothingAssumption == Nothing \notin ItemInput \cup HotelInput \cup GuideInput

-----------------------------------------------------------------------------
(* The tables of structured-itinerary.ts: active and deleted days share    *)
(* one table, numbered through; options and their prices, and segments,    *)
(* are rows that name their parent.                                        *)

Rows(data) ==
    [days |-> {[at |-> i, deleted |-> FALSE, day |-> data.days[i]] : i \in DOMAIN data.days}
              \cup {[at |-> Len(data.days) + i, deleted |-> TRUE, day |-> data.deleted[i]] :
                        i \in DOMAIN data.deleted},
     options |-> DOMAIN data.quote.options,
     prices  |-> UNION {{<<o, p, data.quote.options[o][p]>> : p \in data.pax} :
                           o \in DOMAIN data.quote.options},
     ranges  |-> UNION {{<<t, r, data.vehicles[t].ranges[r]>> :
                            r \in DOMAIN data.vehicles[t].ranges} : t \in VehicleTiers},
     rest    |-> data]

(* ORDER BY position: a row comes after the rows that stand before it. *)
InOrder(rows) ==
    [i \in 1 .. Cardinality(rows) |->
        (CHOOSE r \in rows : Cardinality({s \in rows : s.at < r.at}) = i - 1).day]

RangesOf(rows, t) ==
    LET own == {r \in rows.ranges : r[1] = t}
    IN  [i \in 1 .. Cardinality(own) |-> (CHOOSE r \in own : r[2] = i)[3]]

PricesUnder(rows, o) ==
    LET own == {r \in rows.prices : r[1] = o}
    IN  [p \in {r[2] : r \in own} |-> (CHOOSE r \in own : r[2] = p)[3]]

Loaded(rows) ==
    [rows.rest EXCEPT
        !.days    = InOrder({r \in rows.days : ~r.deleted}),
        !.deleted = InOrder({r \in rows.days : r.deleted}),
        !.vehicles = [t \in VehicleTiers |-> [@[t] EXCEPT !.ranges = RangesOf(rows, t)]],
        !.quote.options = [o \in rows.options |-> PricesUnder(rows, o)]]

(* diffChanges: the sections that differ. *)
Changes(before, after) == {k \in DOMAIN after : before[k] # after[k]}

-----------------------------------------------------------------------------
(* recordPriceAdjustments: the prices of a plan under their keys, each     *)
(* with the source it was taken from.                                      *)

Priced(key, vehicle, source, entry) ==
    [key |-> key, vehicle |-> vehicle, source |-> source, price |-> entry.price,
     reference |-> entry.reference, reason |-> entry.reason]

PricesOf(saved) ==
    IF saved = Nothing THEN {}
    ELSE {Priced(<<"item", m>>, FALSE, <<saved.items[m].resource>>, saved.items[m]) :
             m \in Known(saved.items)}
         \cup {Priced(<<"hotel", k>>, FALSE,
                      <<saved.hotels[k].hotel, saved.hotels[k].basis>>, saved.hotels[k]) :
             k \in Known(saved.hotels)}
         \cup {Priced(<<"guide", g.city>>, FALSE, <<g.guide>>, g) :
             g \in {saved.guide} \ {Nothing}}
         \cup {Priced(<<"vehicle", t>>, TRUE, <<saved.vehicles[t].mode>>,
                      [price |-> saved.vehicles[t].total,
                       reference |-> saved.vehicles[t].segment,
                       reason |-> saved.vehicles[t].reason]) :
             t \in {v \in VehicleTiers : saved.vehicles[v].total # NoPrice}}

(* The saved entry under the same key, when it had a price. *)
Before(old, key) == {e \in PricesOf(old) : e.key = key /\ e.price # NoPrice}

Recorded_NotRestored(entry, before) ==
    /\ ~Restored(entry.price, entry.reference)
    /\ before = {} => ~entry.vehicle
    /\ \A was \in before : was.price # entry.price \/ was.source # entry.source

Recorded(entry, before) ==
    LET restored == Restored(entry.price, entry.reference)
    IN  IF before = {}
        THEN /\ ~entry.vehicle
             /\ IF entry.reference = NoPrice THEN entry.reason # Blank ELSE ~restored
        ELSE \A was \in before :
                IF was.source = entry.source \/ entry.vehicle
                THEN was.price # entry.price
                ELSE ~restored

Adjustments(new, old) ==
    {[key    |-> e.key,
      before |-> IF Before(old, e.key) = {} THEN NoPrice
                 ELSE (CHOOSE b \in Before(old, e.key) : TRUE).price,
      after  |-> e.price,
      reason |-> e.reason,
      action |-> IF Restored(e.price, e.reference) THEN "restored"
                 ELSE IF Before(old, e.key) = {} THEN "initial" ELSE "adjusted"] :
        e \in {p \in PricesOf(new) : p.price # NoPrice /\ Recorded(p, Before(old, p.key))}}

-----------------------------------------------------------------------------
(* assertPdfReady: what has to be there before the quote is generated. *)
PdfReady(saved) ==
    /\ MissingPrices(saved) = {}
    /\ OfferedTiers(saved) # {}
    /\ DOMAIN saved.quote.options # {}
    /\ \E t \in UsedVehicleTiers(saved) : saved.vehicles[t].total # NoPrice
    /\ \A t \in UsedVehicleTiers(saved) :
          /\ saved.vehicles[t].total # NoPrice
          /\ \A r \in DOMAIN saved.vehicles[t].ranges :
                LET range == saved.vehicles[t].ranges[r]
                IN  range.days # <<>> /\ (range.vehicles # {} \/ range.total # NoPrice)
    /\ \A i \in DOMAIN saved.days :
          /\ saved.days[i].overnight # Unset
          /\ saved.days[i].overnight \in Cities =>
                \A t \in OfferedTiers(saved) :
                    saved.hotels[<<t, saved.days[i].overnight>>] # Nothing
          /\ \A s \in saved.days[i].meals : MealsAt(saved, saved.days[i].id, s) # {}

-----------------------------------------------------------------------------
ItineraryInit ==
    /\ plan = Nothing
    /\ catalogue = [r \in Resources |->
                       [enabled |-> TRUE, price |-> Min(Prices), group |-> Max(Prices)]]
    /\ adjustments = {}
    /\ focus \in Focuses

(* createItinerary *)
CreatePlan ==
    /\ plan = Nothing
    /\ ItineraryInput(FirstPlan)
    /\ Acceptable(FirstPlan, Nothing)
    /\ plan' = Loaded(Rows(Normalized(FirstPlan, Nothing)))
    /\ adjustments' = Adjustments(plan', Nothing)
    /\ UNCHANGED <<catalogue, focus>>

(* saveItinerary: nothing is written when the normalised plan is the saved *)
(* one.                                                                    *)
SavePlan ==
    /\ plan # Nothing
    /\ \E new \in EditedPlans(focus, plan) :
          /\ ItineraryInput(new)
          /\ Acceptable(new, plan)
          /\ plan' = Loaded(Rows(Normalized(new, plan)))
    /\ Changes(plan, plan') # {}
    /\ adjustments' = Adjustments(plan', plan)
    /\ UNCHANGED <<catalogue, focus>>

(* The catalogue is edited: a resource gets another price or is disabled.  *)
EditCatalogue ==
    /\ plan # Nothing
    /\ \E r \in Resources : \E p \in Prices : \E g \in Prices \cup {NoPrice} :
       \E on \in BOOLEAN :
          /\ r \in EditedResources(focus)
          /\ g # catalogue[r].group => r \in Hotels
          /\ catalogue' = [catalogue EXCEPT ![r] = [enabled |-> on, price |-> p, group |-> g]]
    /\ UNCHANGED <<plan, adjustments, focus>>

ItineraryNext == CreatePlan \/ SavePlan \/ EditCatalogue

ItinerarySpec == ItineraryInit /\ [][ItineraryNext]_itineraryVars

-----------------------------------------------------------------------------
(* A saved plan can be saved again as it is, and nothing changes: whatever *)
(* happened to the catalogue meanwhile, no resource is refused, no price   *)
(* or reason is replaced and no reason is asked for.                       *)
SavedPlanStable ==
    plan # Nothing => Acceptable(plan, plan) /\ Normalized(plan, plan) = plan

(* A price that differs from its reference has a reason on record, through *)
(* every change of resource, rate, price and catalogue.                    *)
PriceExplained ==
    \A e \in PricesOf(plan) :
        ~e.vehicle /\ e.price # NoPrice /\ ~Restored(e.price, e.reference) => e.reason # Blank

(* The prices of a plan stand and are explained.                           *)
PricesStand == SavedPlanStable /\ PriceExplained

(* No price of a selection changes without a row in the adjustments that   *)
(* has both prices, and a reason unless a vehicle price follows its        *)
(* segments.                                                               *)
NoSilentPriceChange ==
    [][\A e \in PricesOf(plan') : \A was \in Before(plan, e.key) :
          e.price \notin {NoPrice, was.price} /\ (e.source = was.source \/ e.vehicle)
          => \E a \in adjustments' :
                /\ a.key = e.key /\ a.before = was.price /\ a.after = e.price
                /\ \/ a.reason # Blank
                   \/ e.vehicle /\ (e.source = <<"automatic">> \/ a.action = "restored")]_itineraryVars

(* The breakdown a client sees adds up: the cities of an option sum to its *)
(* hotel cost and each is within half a cent of half its rooms, the shared *)
(* costs cover what is shared up to half a cent each, and a larger group   *)
(* never pays more per person.                                             *)
QuoteAddsUp ==
    plan # Nothing =>
    LET quoted == Calculation(plan).options
    IN  \A o \in DOMAIN quoted :
          /\ SumFunction([c \in DOMAIN quoted[o].cities |->
                             KnownPrice(quoted[o].cities[c].cost)]) = quoted[o].hotel
          /\ \A c \in DOMAIN quoted[o].cities :
                LET exact == KnownPrice(RoomPrice(plan, o[1], c)) * Nights(plan, c)
                IN  2 * KnownPrice(quoted[o].cities[c].cost) - exact \in -1 .. 1
          /\ \A p \in plan.pax :
                2 * (p * SharedCost(plan, o[2], p).vehicle - VehicleTotal(plan, o[2]))
                    \in (-p) .. p
          /\ \A p, q \in plan.pax :
                p < q /\ KnownPrice(plan.quote.paxOther[p]) = KnownPrice(plan.quote.paxOther[q])
                => quoted[o].pax[q].base <= quoted[o].pax[p].base

(* A quote that may be generated misses nothing: every night of every      *)
(* option has a priced hotel, every option a priced vehicle, and every     *)
(* vehicle segment enough seats for the largest group.                     *)
ReadyQuoteComplete ==
    plan # Nothing /\ PdfReady(plan) =>
    /\ Calculation(plan).complete
    /\ \A o \in DOMAIN plan.quote.options :
          /\ \A c \in OvernightCities(plan) : RoomPrice(plan, o[1], c) # NoPrice
          /\ plan.vehicles[o[2]].total # NoPrice
          /\ \A r \in DOMAIN plan.vehicles[o[2]].ranges :
                LET range == plan.vehicles[o[2]].ranges[r]
                IN  range.vehicles # {} => Seats(range) >= Max(plan.pax)

(* The quote of a plan as the client reads it.                             *)
QuoteSound == QuoteAddsUp /\ ReadyQuoteComplete

-----------------------------------------------------------------------------
(* The inductive invariant behind PricesStand: what a save leaves behind,  *)
(* said of the plan alone, whatever the catalogue has become.              *)

(* A price that is not there needs no reason; one that departs from its    *)
(* reference has one.                                                      *)
Accounted(entry) ==
    /\ entry.price = NoPrice => entry.reason = Blank
    /\ entry.price # NoPrice /\ ~Restored(entry.price, entry.reference)
       => entry.reason # Blank

(* A day without a departure follows a day without a night.                *)
DaysSettled(data) ==
    /\ DaysOk(data)
    /\ \A i \in DOMAIN data.days :
          /\ data.days[i].breakfast = Breakfast(data, i)
          /\ i > 1 /\ data.days[i].departure = NoCity
             => data.days[i - 1].overnight \in {NoCity, Unset}

ItemsSettled(data) ==
    /\ NoRepeatedResource(data)
    /\ \A m \in Known(data.items) :
          LET item == data.items[m]
          IN  /\ (item.slot # Nothing) = (item.resource \notin Attractions)
              /\ item.resource = CustomMeal => item.reference = NoPrice
              /\ Accounted(item)

HotelsSettled(data) ==
    \A k \in Known(data.hotels) : k[2] \in data.destinations /\ Accounted(data.hotels[k])

(* The price of a vehicle plan in automatic mode is the sum of its         *)
(* segments, and has no reason of its own.                                 *)
GroupSettled(data, t) ==
    LET group == data.vehicles[t]
    IN  /\ group.mode # NoMode
        /\ RangesOk(data, t)
        /\ group.segment = SegmentTotal(group.ranges)
        /\ group.ranges = <<>> => group.total = NoPrice
        /\ group.mode = "automatic" =>
              /\ group.total = group.segment /\ group.reason = Blank
              /\ group.ranges # <<>> => group.segment # NoPrice

GuideSettled(data) ==
    data.guide # Nothing => data.guide.city \in data.destinations /\ Accounted(data.guide)

Settled(data) ==
    /\ ItineraryInput(data)
    /\ DaysSettled(data)
    /\ ItemsSettled(data)
    /\ HotelsSettled(data)
    /\ \A t \in VehicleTiers : GroupSettled(data, t)
    /\ GuideSettled(data)
    /\ QuoteOk(data) /\ QuoteSaved(data) = data.quote

CatalogueType ==
    catalogue \in [Resources -> [enabled : BOOLEAN, price : Prices,
                                 group : Prices \cup {NoPrice}]]

ItineraryInv == CatalogueType /\ (plan # Nothing => Settled(plan))
=============================================================================
