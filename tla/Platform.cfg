SPECIFICATION PlatformSpec
CONSTANTS
    i1 = i1
    i2 = i2
    Watched = {"a1", "a2"}
    Investors = {"u1", "u2"}
    Followers <- BothFollowOne
    Holders <- OneHolder
    Passes = {i1, i2}
    MaxPasses = 2
    MaxAborts = 1
    Evidence <- AnyEvidence
    FactorCounts = {0, 1, 3}
    LastClose = 100
    StopDistance = 4
    SupportLevel = 95
    ResistanceLevel = 110
    Quotes = {96}
    MaxRuleRetries = 1
    MaxRuns = 1
    MaxCrashes = 1
    Translators = {i1, i2}
    People <- ThreePeople
    Founder = "ann"
    Subjects = {"x"}
    Author <- ByAnn
    Roles = {"investor", "admin"}
    MaxRequests = 2
    MaxShellUses = 1
    Listable = {"a1"}
    Names = {"Default", "banks"}
    OpenRequests = {i1, i2}
    MaxCategories = 2
    MaxItems = 3
    Prices = {97, 100, 103}
    Levels <- TwoLevels
    StopLevel = 98
    Peak = 115
    PreviousClose = 80
    Volatility = 13
    Indicators <- ThreeBars
    HeldSessions = 1
    Baseline = 1
    Lookback = 2
    FlowSessions = 2
    MaxSessions = 2
    MaxPolls = 3
    MaxBars = 3
    MaxRevised = 1
    Articles = {1, 2, 3}
    Published <- FirstDays
    Feed <- TwoFeeds
    Codes <- OneCode
    Words <- OneName
    Shouting = {}
    Says <- OneDateEach
    Issuers = {"AAA", "BBB"}
    CompanyNames = {"acme", "best"}
    Feeds = {"f1", "f2"}
    Indexed <- OneAliasEach
    MaxIssuersPerItem = 1
    MaxEntriesPerSource = 1
    BackfillLimit = 1
    YearDays = 6
    MaxDaysBehind = 1
    MaxRolloverDays = 2
    MaxDaysAhead = 7
    NoticeDays = 2
    MechanicalNoticeDays = 3
    Mechanical = {"ex_date"}
    EventKind <- TwoMeetings
    ExtractLimit = 2
    WatchedBy <- AnnWatches
    LastDay = 7
    MaxEdits = 1
    Tickers = {1, 2, 3}
    Reports <- SessionReports
    Criteria = {"a", "b"}
    WeightOf <- TwoToOne
    Tests <- Asks
    Shows <- Finds
    MinSessions = 1
    Depth = 2
    ChunkSize = 2
    Minutes = 2
    LastMinute = 4
    MaxScans = 2
    Owners = {"ann"}
    Requests = {i1, i2}
    Assets = {"a1", "a2"}
    TickerOf <- TickerEach
    SectorOf <- OneClassified
    Quantities = {1, 2}
    MarketPrices = {3}
    PaidPrices = {2, 3}
    Bindings <- ThreeProviders
    MinEntries = 1
    MaxWrites = 2
    Text <- FourParagraphs
    ArticlesOf <- OneHeadline
    ChunkLength = 10
    Overlap = 3
    MinSize = 2
    Separator = 1
    Models = {"m1", "m2"}
    NoModel = "none"
    MaxChanges = 2
    LastSlot = 3
    Closes = {4, 5}
    Period = 2
    Ingestions = {i1, i2}
    Ranges = {1, 3}
    MaxRevisions = 1
    MaxStarts = 3
SYMMETRY Symmetry
INVARIANTS CrossingAlerted AlertsAreEvents StrongNeedsWitnesses SidesAgree
    SnapshotTruthful AdminRoleSurvives AudienceIsNamed OneDatePerStory NoWordLost
    PicksAreHonest NobodySkipped FollowedUntilRemoved PagesAreRight SeriesIsRight PersonalStaysHome
PROPERTIES RankingsSound
CHECK_DEADLOCK FALSE
