\* One draft itinerary: one section under edit at a time, two prices.
CONSTANTS
    c1 = c1
    c2 = c2
    d1 = d1
    d2 = d2
    m1 = m1
    m2 = m2
    rest = rest
    sight = sight
    h1 = h1
    h2 = h2
    h3 = h3
    v1 = v1
    v2 = v2
    g1 = g1
    g2 = g2
    t1 = t1
    std = std
    dinner = dinner
    why = why
    custom = custom
    HotelTiers = {t1}
    VehicleTiers = {std}
    Cities = {c1, c2}
    NoCity = NoCity
    Unset = Unset
    NoPrice = NoPrice
    Nothing = Nothing
    MealSlots = {dinner}
    Restaurants = {rest}
    Attractions = {sight}
    CustomMeal = custom
    StandardPriced = {sight}
    TableSize <- MCTableSize
    Hotels = {h1, h2, h3}
    HotelCity <- MCHotelCity
    HotelTier <- MCHotelTier
    Vehicles = {v1, v2}
    VehicleTier <- MCVehicleTier
    VehicleSeats <- MCVehicleSeats
    Guides = {g1, g2}
    Reasons = {why}
    Blank = Blank
    Prices <- MCPrices
    PlannedDays = 2
    Focuses = {"days", "items", "hotels", "guides", "vehicles", "quote"}
    FirstPlan <- MCFirstPlan
    EditedPlans <- MCEditedPlans
    EditedResources <- MCEditedResources
    NoMode = NoMode
    DayNames = {d1, d2}
    ItemNames = {m1, m2}
    GroupSizes = {2, 3}
SPECIFICATION ItinerarySpec
INVARIANT PricesStand
PROPERTY NoSilentPriceChange
INVARIANT QuoteSound
