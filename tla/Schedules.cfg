SPECIFICATION SchedulesSpec
CONSTANTS
    Jobs = {j1, j2, j3}
    Limit = 2
    DayLength = 2
    MaxNow = 3
    MaxMishaps = 1
    Runners = {r1, r2}
    Manual = Manual
    NeverFetched = NeverFetched
    Period = 3
    Lookback = 3
    Threshold = 2
    MaxLate = 1
    MaxRun = 1
    LastInstant = 8
    MaxManual = 2
    MaxFailures = 2
    KeyedByDate = FALSE
    HoursPerDay = 3
    Crons = {1, 2}
    Off = Off
    Unset = Unset
    Weekend = {3}
    Holidays = {2, 3}
    PublishHour = 1
    Span = 3
    MaxGap = 2
    LastHour = 12
    MaxChanges = 3
    MaxFetches = 0
    MaxBackfills = 0
    Sources = {1, 2}
    Urls = {"f1", "f2"}
    FirstUrl <- OneRowEach
    Templated = {"f2"}
    Tickers = {"AAA"}
    Articles = {1}
    PublishedAt <- AtMinuteOne
    FeedOf <- InTheFirst
    About <- AboutAAA
    Readers = {w1, w2}
    DeactivateThreshold = 2
    CacheTime = 3
    LastMinute = 1
    MaxOutages = 1
    MaxEdits = 1
    MaxJobs = 3
SYMMETRY Symmetry
INVARIANTS NoArticleSkipped NeverStuck FlagEarned FreshDueTime GapsAndStreaksEarned
PROPERTY ImplementsAllowance
CHECK_DEADLOCK FALSE
