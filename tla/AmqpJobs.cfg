SPECIFICATION FairSpec
CONSTANTS
    hot = hot
    cool = cool
    cron = cron
    Jobs = {j1}
    Queues = {hot, cool, cron}
    WithMeta = {hot, cool}
    RetryConfig <- RetryConfigs
    Workers = {w1, w2}
    Handlers = {h1, h2}
    None = None
    MaxAttempts = 3
    MaxCuts = 2
CHECK_DEADLOCK FALSE
INVARIANTS
    NeverLost
    RecordTruth
    RunsBounded
PROPERTIES
    JobsSettle
