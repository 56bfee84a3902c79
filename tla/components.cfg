CONSTANTS
    Sources = {iot, sharing}
    Setup = Setup
    None = None
    MaxEvents = 2
    PerSecond = 1
    MaxCopies = 2
    MaxResets = 1
    Accounts <- TwoAccounts
    Codes = {"plain", "open", "aka", "reset", "unknown"}
    Code <- CodeTable
    ManualCodes <- ManualUnlock
    MaxCommands = 2
    MaxCalls = 1
    MaxStreams = 2
    MaxRetries = 1
    MaxTrouble = 4
    Threads = {t1, t2}
    MaxTokens = 3
    MaxRequests = 3
    MaxRevoked = 2
    Recorders = {q1, q2}
    Reader = Reader
    Devices = {d1, d2}
    MaxMonth = 2
    MaxRecords = 2
    MaxReads = 1
    MaxStops = 1
    Dialogs = {o1, o2}
    MaxWrites = 3
    MaxLogins = 2
    Learners = {l1, l2}
    Refreshers = {r1}
    MaxDialogs = 2
    MaxSessions = 2
    Browsers = {b1}
    Ice = {i1, i2}
    CameraIce = {k1}
    Copies = {"regular", "sharing", "iot"}
    Priority <- CopyPriority
    DpCodes = {"a", "b"}
    MinCollapse = 3
    MaxRequeries = 1
    MaxForeign = 1
    Firsts <- FirstCopies
    Seconds <- SecondCopies
    Fresh <- FreshCopies
    ReadOnlyCodes = {"alias"}
    FarmValves = {"v1", "v2"}
    PlaceIds = {"p1", "p2"}
    SiteIds = {"s1", "s2"}
    PumpIds = {"u1", "u2"}
    FarmTaps = {"k1"}
    FarmNames = {"north", "south"}
    NoName = "no name"
    Farms <- SomeFarms
    NamedAs <- SomeNames
    InRooms <- SomeRooms
    LastDay = 1
    MaxEdits = 2
    MaxFarmRuns = 1
    MaxFarmCrashes = 1
    Top = 3
    Interval = 2
    MaxMoves = 4
    MaxCoverStarts = 1
    LastMinute = 5
    MaxRunMinutes = 4
    MaxWaterings = 2
    MaxLostReports = 2
    LastNForAverages = 1
    Registries <- SomeRegistries
    Appliances = {"valve 1", "lamp 1"}
    AtSetup = {"valve 1"}
    Appliance <- SomeAppliances
    Catalogues <- SomeCatalogues
    NoCode = "no code"
    Binders = {m1, m2}
    TaskSlots = {0, 6}
    TaskHours = {0, 23}
    TaskMinutes = {0, 59}
    Amounts = {0, 256, 16777471}
    Masks = {0, 127}
CHECK_DEADLOCK FALSE
SPECIFICATION Spec
VIEW View
INVARIANTS TypeOK CountedOnce TotalIsSum NoneStranded FallBacksSafe SoleStream
    ReconnectHeals CountsThisMonth SettingsKept OneDialog KeysTrue CandidatesOnce EntitiesFollow
    RepairSettles NamedOnce  FeedTrue CodesShown FramesTell
PROPERTIES DispatchesOnce HistoryStays
