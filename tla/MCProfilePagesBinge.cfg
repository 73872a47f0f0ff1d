CONSTANTS
    Items <- MCItems
    About <- MCAbout
    Ranges <- MCRanges
    AllTime = "all"
    RangeDays <- MCRangeDays
    DayHours = 24
    ProfileTopN = 2
    BingeGapHours = 4
    WatchTopN = 1
    Credits <- MCCredits
    Played <- MCPlayed
    PeopleTopN = 1
    Reports <- MCReports
    MaxPlays = 4
    MaxDay = 3
SPECIFICATION PagesSpec
INVARIANT BingeRowsAreWritten
CHECK_DEADLOCK FALSE
