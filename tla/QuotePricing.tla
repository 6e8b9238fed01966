---------------------------- MODULE QuotePricing ----------------------------
(***************************************************************************)
(* How a structured itinerary is priced: src/inquiries/quote-pricing.ts    *)
(* over the integer cents of src/inquiries/money.ts.  Every amount of this *)
(* module is a number of cents, or NoPrice where the code keeps null.      *)
(*                                                                         *)
(* A plan is a record of its sections (ItineraryRules builds them):        *)
(*   days     <<[id, departure, overnight, breakfast, meals], ...>>        *)
(*   items    item id -> [day, resource, slot, diners, price, ...]         *)
(*   hotels   <<tier, city>> -> [hotel, basis, price, ...]                 *)
(*   vehicles tier -> [ranges, total, mode, segment, reason]               *)
(*   guide    [city, guide, price, ...], at most one                       *)
(*   pax      the sizes of group that are quoted                           *)
(*   quote    [other, otherReason, paxOther, rooms, options, tip]          *)
(***************************************************************************)
EXTENDS Integers, FiniteSets, SequencesExt, FiniteSetsExt

CONSTANTS
    HotelTiers,    \* the star tiers a plan can offer
    VehicleTiers,  \* standard and VIP vehicles
    Cities,        \* the cities a plan can visit
    NoCity,        \* '': no night is spent on that day
    Unset,         \* null: not filled in yet
    NoPrice,       \* null: the price is not known yet
    Nothing        \* no selection at that place of the plan

ASSUME NoPriceAssumption == NoPrice \notin Int

(* money.ts: a ratio of cents, rounded half away from zero. *)
RoundedInteger(numerator, denominator) ==
    (numerator + denominator \div 2) \div denominator

KnownPrice(price) == IF price = NoPrice THEN 0 ELSE price

Known(records) == {k \in DOMAIN records : records[k] # Nothing}

(* What one traveller pays for an item: a table is shared by its diners,   *)
(* and each item is used once per traveller.                               *)
ItemCost(item) ==
    IF item.price = NoPrice THEN NoPrice
    ELSE IF item.diners = Nothing THEN item.price
    ELSE RoundedInteger(item.price, item.diners)

DayIds(days) == {days[i].id : i \in DOMAIN days}

ActiveItems(plan) ==
    {i \in Known(plan.items) : plan.items[i].day \in DayIds(plan.days)}

DailyResourceCost(plan) ==
    KnownPrice(plan.quote.other)
    + SumFunction([i \in ActiveItems(plan) |-> KnownPrice(ItemCost(plan.items[i]))])

(* guideCost: the guide serves every day of the plan. *)
GuideCost(plan) ==
    IF plan.guide = Nothing THEN 0 ELSE KnownPrice(plan.guide.price) * Len(plan.days)

(* nightsByCity, a Map: cities in the order of their first night. *)
OvernightCities(plan) ==
    {plan.days[i].overnight : i \in DOMAIN plan.days} \ {NoCity, Unset}

Nights(plan, city) ==
    Cardinality({i \in DOMAIN plan.days : plan.days[i].overnight = city})

FirstNight(plan, city) ==
    Min({i \in DOMAIN plan.days : plan.days[i].overnight = city})

RoomPrice(plan, tier, city) ==
    IF plan.hotels[<<tier, city>>] = Nothing THEN NoPrice
    ELSE plan.hotels[<<tier, city>>].price

(* accumulatedRoomCost over a set of cities. *)
RoomCost(plan, tier, cities) ==
    SumFunction([c \in cities |-> KnownPrice(RoomPrice(plan, tier, c)) * Nights(plan, c)])

(* Two travellers share a room.  A city is charged with what it adds to    *)
(* the rounded half of the costs accumulated so far.                       *)
HotelCityCost_Alone(plan, tier, city) ==
    RoundedInteger(RoomCost(plan, tier, {city}), 2)

HotelCityCost(plan, tier, city) ==
    LET earlier == {c \in OvernightCities(plan) :
                       FirstNight(plan, c) < FirstNight(plan, city)}
    IN  RoundedInteger(RoomCost(plan, tier, earlier \cup {city}), 2)
        - RoundedInteger(RoomCost(plan, tier, earlier), 2)

(* hotelCityCosts: each city's nights and cost; a room without a price     *)
(* keeps a null cost.                                                      *)
HotelCityCosts(plan, tier) ==
    [c \in OvernightCities(plan) |->
        [nights |-> Nights(plan, c),
         cost   |-> IF RoomPrice(plan, tier, c) = NoPrice THEN NoPrice
                    ELSE HotelCityCost(plan, tier, c)]]

HotelUnitCost(plan, tier) ==
    RoundedInteger(RoomCost(plan, tier, OvernightCities(plan)), 2)

VehicleTotal(plan, tier) == KnownPrice(plan.vehicles[tier].total)

StaffRoomTotal(plan) ==
    SumFunction([c \in DOMAIN plan.quote.rooms |-> KnownPrice(plan.quote.rooms[c])])

(* The part of the cost that is shared by the group. *)
SharedCost(plan, tier, pax) ==
    [vehicle |-> RoundedInteger(VehicleTotal(plan, tier), pax),
     guide   |-> RoundedInteger(GuideCost(plan), pax)
                 + KnownPrice(plan.quote.paxOther[pax]),
     rooms   |-> RoundedInteger(StaffRoomTotal(plan), pax)]

BaseCost(plan, option, pax) ==
    LET shared == SharedCost(plan, option[2], pax)
    IN  HotelUnitCost(plan, option[1]) + DailyResourceCost(plan)
        + shared.vehicle + shared.guide + shared.rooms

(* paxPrices of an option: the price asked for, or the cost. *)
PaxPrice(plan, option, pax) ==
    LET base  == BaseCost(plan, option, pax)
        asked == plan.quote.options[option][pax]
        adult == IF asked = NoPrice THEN base ELSE asked
    IN  [base   |-> base,
         adult  |-> adult,
         tip    |-> KnownPrice(plan.quote.tip),
         profit |-> adult + KnownPrice(plan.quote.tip) - base]

(* missingItineraryPrices: every selection of an active day, a hotel or a  *)
(* guide whose price is not known.                                         *)
MissingPrices(plan) ==
    {<<"hotel", k>> : k \in {h \in Known(plan.hotels) : plan.hotels[h].price = NoPrice}}
    \cup {<<"guide", g.city>> : g \in {x \in {plan.guide} \ {Nothing} : x.price = NoPrice}}
    \cup {<<"item", i>> : i \in {j \in ActiveItems(plan) : plan.items[j].price = NoPrice}}

(* calculateItineraryQuote *)
Calculation(plan) ==
    [complete |-> MissingPrices(plan) = {},
     missing  |-> MissingPrices(plan),
     options  |-> [o \in DOMAIN plan.quote.options |->
                     [cities |-> HotelCityCosts(plan, o[1]),
                      hotel  |-> HotelUnitCost(plan, o[1]),
                      pax    |-> [p \in plan.pax |-> PaxPrice(plan, o, p)]]]]
=============================================================================
