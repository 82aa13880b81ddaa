\* One read, against the documentation of RetryConfig.
CONSTANTS
    Calls = {c1}
    Helpers = {"get_bytes"}
    MaxRetries = 1
    InitialBackoff = 1
    MaxBackoff = 1
    JitterSpan = 1
    ShlBits = 32
    RetryOnMutations = FALSE
    RateLimited = TRUE
    Rate = 1
    Per = 1
    TotalTimeout = 1
    Statuses = {200, 503}
    RetryAfters = {}
SPECIFICATION MCSpec
INVARIANTS
    ReadTimeoutsRetried
