\* Two concurrent calls, a read and a mutation in every combination, over a
\* bucket of one permit that refills more slowly than the retry loop backs off:
\* they contend for permits, retry, time out, and are served late.  An attempt
\* times out as soon as the client looks, or any time later.
CONSTANTS
    Calls = {c1, c2}
    Helpers = {"get_bytes", "send_no_content"}
    MaxRetries = 1
    InitialBackoff = 1
    MaxBackoff = 1
    JitterSpan = 1
    ShlBits = 32
    RetryOnMutations = FALSE
    RateLimited = TRUE
    Rate = 1
    Per = 2
    TotalTimeout = 0
    Statuses = {200, 429}
    RetryAfters = {3}
SPECIFICATION MCFairSpec
INVARIANTS
    EffectsBounded
    PermitPerAttempt
PROPERTIES
    RetryAfterHonoured
    LimiterSpec
    EveryCallReturns
