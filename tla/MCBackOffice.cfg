SPECIFICATION BackOfficeSpec
CONSTANTS
    Parts = {"agencies", "numbers", "alerts", "reports", "visits", "shengxu", "dictionaries", "resources", "release"}
    Agencies = {1, 2, 3}
    NoAgency = NoAgency
    ShortNames = {"s", "t"}
    AgencyWriters = {w1, w2}
    Creators = {"u", "v", "w"}
    TourCode <- MCTourCode
    Countries = {"CN", "FR"}
    Days = {1}
    Inserts = {t1, t2, t3}
    MaxSequence = 3
    Events = {e, f}
    Callers = {c1, c2}
    NoCaller = NoCaller
    SentLimit = 1
    PendingLimit = 1
    MaxCalls = 4
    Cities = {"x", "y", "z"}
    DisabledCities = {"z"}
    Absent = Absent
    DisabledAttractions = {"q"}
    AttractionCity <- MCAttractionCity
    AttractionPrice <- MCAttractionPrice
    Routes <- MCRoutes
    DayPlans <- MCDayPlans
    Skeletons <- MCSkeletons
    Destinations <- MCDestinations
    PriceRows <- MCPriceRows
    Durations = {1, 2, 3}
    References = {"r", "q"}
    Bodies <- MCBodies
    VisitClients = {c1, c2}
    MaxInquiries = 2
    Houses = {"h1", "h2"}
    Persons = {"p1", "p2", "p3"}
    FirstPersons = {"p1", "p3"}
    HouseOf <- MCHouseOf
    Coordinators = {"u", "v"}
    FirstOwner = "u"
    Sheets = {1}
    LedgerWriters = {w1, w2}
    SheetDates = {1}
    MaxEdits = 1
    MaxSheetVersion = 2
    Categories = {1, 2, 3}
    CategoryCodes = {"country-region", "own"}
    Entries = {1, 2}
    EntryCodes = {"CN", "FR"}
    Sources = {"inquiry", "tour", "ledger"}
    EntryEditors = {w1, w2}
    MaxEntryEdits = 2
    Images = {"a", "b", "c", "d"}
    Manifest <- MCManifest
    Breaking = {"b1"}
    None = None
    FirstImage = "a"
    KillPoints = {"build", "publish", "migrate", "migrated", "record", "activate", "restore", "failed", "healthy", "clean", "unlink"}
    RecentReleases = 1
    Items = {1, 2, 3}
    TypedCodes = {2}
    Areas = {"x", "y"}
    NoArea = NoArea
    Librarians = {w1, w2}
    MaxCode = 4
    MaxRequests = 3
    MaxRelease = 4
CHECK_DEADLOCK FALSE
INVARIANT HierarchySound
INVARIANT NumbersFree
INVARIANT NoAlertSwallowed
INVARIANT ReportSound
INVARIANT VisitsSound
INVARIANT LedgersCurrent
INVARIANT DictionarySound
INVARIANT ResourcesSound
INVARIANT SchemaServed
INVARIANT ReleasesKept
