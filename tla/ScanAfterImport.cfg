SPECIFICATION ScanSpec
CONSTANTS
    Tickers = {1, 2, 3}
    Reports <- SessionReports
    Criteria = {"a", "b"}
    WeightOf <- Weights
    Tests <- Asks
    Shows <- Finds
    MinSessions = 1
    Depth = 2
    ChunkSize = 2
    Minutes = 2
    LastMinute = 4
    MaxScans = 2
PROPERTIES ScanFollowsImport
CHECK_DEADLOCK FALSE
