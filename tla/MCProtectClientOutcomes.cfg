\* One call through every helper, with every class of status, three retries:
\* the cap is reached at the second, the width of the factor left at the third.
\* There is no limiter.
CONSTANTS
    Calls = {c1}
    Helpers = {"get_json", "get_bytes", "post_json_retriable",
               "post_empty_json_retriable", "patch_json", "send_no_content"}
    MaxRetries = 3
    InitialBackoff = 1
    MaxBackoff = 2
    JitterSpan = 2
    ShlBits = 2
    RetryOnMutations = FALSE
    RateLimited = FALSE
    Rate = 1
    Per = 1
    TotalTimeout = 2
    Statuses = {200, 304, 404, 408, 429, 503}
    RetryAfters = {0, 4}
SPECIFICATION MCFairSpec
INVARIANTS
    TypeOK
    OutcomeTruthful
    GivesUpOnlyExhausted
    NeverBelowSchedule
PROPERTIES
    ContractSpec
    EveryCallReturns
