CONSTANTS
    Items <- MCItems
    About <- MCAbout
    Ranges <- MCRanges
    AllTime = "all"
    RangeDays <- MCRangeDays
    DayHours = 24
    ProfileTopN = 2
    BingeGapHours = 4
    WatchTopN = 1
    Credits <- MCCredits
    Played <- MCPlayed
    PeopleTopN = 1
    Reports <- MCReports
    MaxPlays = 4
    MaxDay = 3
    Requests = {r1, r2}
    Keys = {"item", "film", "person"}
    Tagged = {"item", "film"}
    Images = {"image", "poster"}
    Oversized = {"poster"}
    Cut = "cut"
    Miss = "miss"
    Broken = "broken"
    Costs <- MCCosts
    ArtCap = 5
    PlayKeys <- MCPlayKeys
    Readers = {"u"}
    Libraries = {"Films", "Unknown"}
    AllLibraries = "all"
    PageLimit = 1
    MaxRows = 4
    Calls = {c1, c2}
    Sources = {s1, s2}
    NoSource = NoSource
    FrameCap = 2
    MaxVersion = 2
    Persons = {"a", "b"}
    Genres = {"g"}
    Server = "server"
    Worlds <- MCWorlds
    MaxDoublings = 1
    LookupsPerRun = 1
SPECIFICATION MCSpec
INVARIANTS
    AllTypesOK
    PanelsInStep
    LibrariesAddUp
    TasteAddsUp
    DayVerdicts
    RunsAreChains
    ChartsAgree
    CapKeepsTheBest
    SignatureSetsApart
    WatchStatsAddUp
    BytesAddUp
    KeepsTheLatest
    ArtIsJellyfins
    PagesFollow
    NothingPassedOver
    NoStreamLeftBehind
    HeardIsShown
    StoredIdIsKnown
PROPERTY KnownNamesGetLinked
CHECK_DEADLOCK FALSE
