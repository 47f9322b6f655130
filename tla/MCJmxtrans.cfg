CONSTANTS
    requests = requests
    request_time = request_time
    http = http
    ajp = ajp
    Metrics <- MCMetrics
    RatioOf <- MCRatioOf
    Conns <- MCConns
    Interval = 10
    MaxRead = 3
    MaxCount = 1
    MaxRestart = 1
    PurgeAge = 360
    PurgeEvery = 60
    Gaps = {350, 370}
    MaxOutage = 1

SPECIFICATION Spec

INVARIANTS
    TypeOK
    FlushedSumOfOneRead
    RateSpanBounded
    SentByClose
