-------------------------- MODULE MCItineraryRules --------------------------
(* Two cities, two or three days, one hotel tier with a hotel in each city *)
(* and an alternative in the first, one vehicle tier of two vehicles, two  *)
(* items.  A client edits one section of the saved plan at a time.         *)
EXTENDS ItineraryRules

CONSTANTS c1, c2, d1, d2, m1, m2, rest, sight, h1, h2, h3, v1, v2, g1, g2, t1, std,
          dinner, why, custom

MCTableSize == rest :> 3 @@ sight :> Nothing
MCHotelCity == h1 :> c1 @@ h2 :> c2 @@ h3 :> c1
MCHotelTier == h1 :> t1 @@ h2 :> t1 @@ h3 :> t1
MCVehicleTier == v1 :> std @@ v2 :> std
MCVehicleSeats == v1 :> 2 @@ v2 :> 3
MCPrices == {4, 7}

Day(id, from, night, meals) ==
    [id |-> id, departure |-> from, overnight |-> night, breakfast |-> FALSE, meals |-> meals]
Item(day, resource, slot, diners, price, reason) ==
    [day |-> day, resource |-> resource, slot |-> slot, diners |-> diners, price |-> price,
     reference |-> NoPrice, reason |-> reason]
Hotel(hotel, basis, price, reason) ==
    [hotel |-> hotel, basis |-> basis, price |-> price, reference |-> NoPrice,
     reason |-> reason]
Guide(city, guide, price, reason) ==
    [city |-> city, guide |-> guide, price |-> price, reference |-> NoPrice,
     reason |-> reason]
Segment(from, to, vehicles, total) ==
    [days |-> IF from = 0 THEN <<>> ELSE <<from, to>>, vehicles |-> vehicles, total |-> total]
Group(ranges, mode, total, reason) ==
    [ranges |-> ranges, mode |-> mode, total |-> total, segment |-> NoPrice,
     reason |-> reason]

MCFirstPlan ==
    [destinations |-> {c1, c2},
     days     |-> <<Day(d1, c1, c1, {dinner}), Day(d2, NoCity, c2, {})>>,
     deleted  |-> <<>>,
     items    |-> m1 :> Item(d1, rest, dinner, Nothing, 4, Blank) @@ m2 :> Nothing,
     hotels   |-> <<t1, c1>> :> Hotel(h1, "hotel_individual", 4, Blank)
                  @@ <<t1, c2>> :> Hotel(h2, "hotel_group", 7, Blank),
     vehicles |-> std :> Group(<<Segment(1, 2, {v1}, 7)>>, NoMode, NoPrice, Blank),
     guide    |-> Guide(c1, g1, 4, Blank),
     pax      |-> {2},
     quote    |-> [other |-> NoPrice, otherReason |-> Blank, paxOther |-> <<>>,
                   rooms |-> <<>>, options |-> <<>>, tip |-> NoPrice]]

SomePrices == Prices \cup {NoPrice}
SomeReasons == Reasons \cup {Blank}

DayPlans(old) ==
    LET nights == Cities \cup {NoCity, Unset}
        ids    == {<<d1, d2>>, <<d2, d1>>, <<d1>>, <<d2>>}
    IN  {[old EXCEPT
            !.days = [i \in DOMAIN order |->
                        Day(order[i], from[i], night[i], IF order[i] = d1 THEN {dinner} ELSE {})],
            !.deleted = IF Len(order) = 2 THEN <<>>
                        ELSE SelectSeq(OldDays(old), LAMBDA d : d.id # order[1])] :
            order \in ids, from \in [1 .. 2 -> {NoCity, c1}], night \in [1 .. 2 -> nights]}

ItemPlans(old) ==
    {[old EXCEPT !.items[m] = i] :
        m \in {m1, m2},
        i \in {Nothing}
              \cup {Item(d1, rest, dinner, Nothing, p, y) : p \in SomePrices, y \in SomeReasons}
              \cup {Item(d2, sight, Nothing, Nothing, p, y) : p \in SomePrices, y \in SomeReasons}
              \cup {Item(d1, custom, dinner, n, p, y) :
                        n \in {Nothing, 2}, p \in {7, NoPrice}, y \in SomeReasons}}

HotelPlans(old) ==
    {[old EXCEPT !.hotels[<<t1, c1>>] = h] :
        h \in {Nothing}
              \cup {Hotel(x, b, p, y) : x \in {h1, h2, h3}, b \in Bases \cup {"unknown"}, p \in SomePrices,
                                        y \in SomeReasons}}
    \cup {[old EXCEPT !.hotels[<<t1, c2>>] = h] :
             h \in {Nothing} \cup {Hotel(h2, "hotel_individual", p, why) : p \in {7, 4}}}

GuidePlans(old) ==
    {[old EXCEPT !.guide = s] :
        s \in {Nothing}
              \cup {Guide(c, g, p, y) :
                       c \in {c1, c2}, g \in {g1, g2}, p \in SomePrices, y \in SomeReasons}}

VehiclePlans(old) ==
    {[old EXCEPT !.vehicles[std] = Group(r, m, p, y), !.pax = x] :
        r \in {<<>>, <<Segment(1, 2, {v1}, 7)>>, <<Segment(1, 2, {v1, v2}, NoPrice)>>,
               <<Segment(1, 1, {v2}, 4), Segment(2, 2, {}, 7)>>,
               <<Segment(1, 2, {v2}, 4), Segment(2, 2, {v2}, 7)>>,
               <<Segment(0, 0, {v2}, 4)>>},
        m \in {"automatic", "manual", "unknown", NoMode}, p \in SomePrices, y \in SomeReasons,
        x \in {{2}, {2, 3}}}

QuotePlans(old) ==
    {[old EXCEPT !.quote = [other |-> a, otherReason |-> y, paxOther |-> o, rooms |-> r,
                            options |-> u, tip |-> t],
                 !.pax = x, !.hotels[<<t1, c1>>] = h] :
        a \in {NoPrice, 7}, y \in SomeReasons, t \in {NoPrice, 4},
        o \in {<<>>, 2 :> 7}, r \in {<<>>, c1 :> 7},
        u \in {<<>>, <<t1, std>> :> (2 :> 7)}, x \in {{2}, {2, 3}},
        h \in {Nothing, Hotel(h1, "hotel_individual", 7, why)}}

MCEditedPlans(section, old) ==
    CASE section = "days"     -> DayPlans(old)
      [] section = "items"    -> ItemPlans(old)
      [] section = "hotels"   -> HotelPlans(old)
      [] section = "guides"   -> GuidePlans(old)
      [] section = "vehicles" -> VehiclePlans(old)
      [] section = "quote"    -> QuotePlans(old)

MCEditedResources(section) ==
    CASE section = "items"  -> {rest}
      [] section = "hotels" -> {h1}
      [] section = "guides" -> {g1}
      [] section = "vehicles" -> {v2}
      [] section = "days" -> {c2}
      [] section = "quote" -> {}
=============================================================================
