SPECIFICATION FeedsSpec
CONSTANTS
    Sources = {1, 2}
    Urls = {"f1", "f2"}
    FirstUrl <- MCFirst
    Templated = {}
    Tickers = {"AAA"}
    Articles = {1}
    PublishedAt <- MCPublishedAt
    FeedOf <- MCFeedOf
    About <- MCAbout
    Readers = {r1}
    DeactivateThreshold = 2
    CacheTime = 0
    LastMinute = 2
    MaxOutages = 1
    MaxEdits = 0
    MaxJobs = 2
INVARIANTS OutageSkipsNothing
CHECK_DEADLOCK FALSE
