SPECIFICATION ProvidersSpec
CONSTANTS
    Providers = {"hosted", "own"}
    Priority <- HostedFirst
    Handles <- BothStandard
    SelfHosted = {"own"}
    PerWindow = 1
    Window = 2
    Threshold = 2
    ResetTime = 2
    MaxAttempts = 2
    BackoffCap = 1
    MaxAsks = 2
    Assets = {1, 2, 3}
    Unchanging = {}
    DailyQuota = 1
    PerTick = 2
    Interval = 1
    KeyedByDate = TRUE
    HoursPerDay = 3
    Crons = {1, 2}
    Off = Off
    Unset = Unset
    Weekend = {1}
    Holidays = {1, 2}
    PublishHour = 1
    Span = 3
    MaxGap = 1
    LastHour = 11
    MaxChanges = 1
    MaxFetches = 1
    MaxBackfills = 1
    HubUsers = {"u1", "u2"}
    HubSockets = {"s1", "s2"}
    HubOwner <- OneSocketEach
    QueueSize = 2
    FirstDelay = 1
    MaxDelay = 3
    MaxEvents = 3
    MaxDrops = 2
INVARIANTS DownProvidersRest NewestSurvives SessionsImported
PROPERTIES QuestionsAdvance QuestionsEnd NoAssetStarves EventsFlow
CHECK_DEADLOCK FALSE
