SPECIFICATION Spec
CONSTANTS
    hot = hot
    cool = cool
    cron = cron
    Jobs = {j1}
    Queues = {hot, cool}
    WithMeta = {hot, cool}
    RetryConfig <- RetryConfigs
    Workers = {w1}
    Handlers = {h1}
    None = None
    MaxAttempts = 3
    MaxCuts = 0
CHECK_DEADLOCK FALSE
PROPERTIES
    BacksOff
