------------------------------- MODULE Retry -------------------------------
(***************************************************************************)
(* The decisions of RetryAfterAwareMiddleware (src/crates/ferro-protect/   *)
(* src/retry.rs): which outcome of an attempt is retried, and after which  *)
(* delay.  Delays are in ticks.  The loop that uses them is in             *)
(* ProtectClient.                                                          *)
(***************************************************************************)
EXTENDS Integers

CONSTANTS MaxRetries,      \* max_retries
          InitialBackoff,  \* initial_backoff
          MaxBackoff,      \* max_backoff
          JitterSpan,      \* the jitter is below this; 100 ms in the code
          ShlBits          \* the width of the factor 2^attempt; u32 in the code

ASSUME RetryAssumption ==
    /\ MaxRetries \in Nat
    /\ InitialBackoff \in Nat
    /\ MaxBackoff \in Nat
    /\ JitterSpan \in Nat \ {0}
    /\ ShlBits \in Nat \ {0}

-----------------------------------------------------------------------------
\* What one attempt ends with: a response, of which only the status and the
\* Retry-After header matter here, or a transport error.  A header that is
\* missing, not ASCII or not a number of seconds is NoHint.
NoHint   == -1
NoStatus == 0

Response(status, retryAfter) ==
    [kind |-> "response", status |-> status, retryAfter |-> retryAfter, cause |-> "none"]

TransportError(cause) ==
    [kind |-> "error", status |-> NoStatus, retryAfter |-> NoHint, cause |-> cause]

\* "reset" stands for every transport failure that is neither a timeout nor a
\* failure to connect.
Causes == {"timeout", "connect", "reset"}

IsSuccess(status)     == status \in 200..299
IsServerError(status) == status \in 500..599

IsTransient(error) == error.cause \in {"timeout", "connect"}

\* What shifting 1 left by n bits gives, where no bit is lost.
Shifted[n \in Nat] == IF n = 0 THEN 1 ELSE 2 * Shifted[n - 1]

\* Mutant of Factor: the shift wraps around.
FactorWrapped(attempt) == Shifted[attempt % ShlBits]

\* 1u32.checked_shl(attempt).unwrap_or(u32::MAX)
Factor(attempt) == IF attempt < ShlBits THEN Shifted[attempt] ELSE Shifted[ShlBits] - 1

\* The exponential schedule without jitter.  `saturating_mul` saturates above
\* every max_backoff, which `min` then hides.
CappedBackoff(attempt) ==
    LET exp == InitialBackoff * Factor(attempt)
    IN  IF exp < MaxBackoff THEN exp ELSE MaxBackoff

\* The delays that backoff_for may draw.
BackoffFor(attempt) == {CappedBackoff(attempt) + jitter : jitter \in 0..(JitterSpan - 1)}

\* Mutant of RetriedStatus: 408 is taken for a client error.
RetriedStatusNo408(status) == status = 429 \/ IsServerError(status)

\* Which response is retried at all.
RetriedStatus(status) == status = 429 \/ IsServerError(status) \/ status = 408

Retried(result) ==
    IF result.kind = "response" THEN RetriedStatus(result.status) ELSE IsTransient(result)

\* The server said when to come back, and it is listened to.
Hinted(result) == result.status = 429 /\ result.retryAfter # NoHint

\* Mutant of Exhausted: one retry too many.
ExhaustedLate(attempt) == attempt > MaxRetries

Exhausted(attempt) == attempt >= MaxRetries

\* Mutant of RetryDelays: the server's hint is ignored.
RetryDelaysUnhinted(result, attempt) ==
    IF Exhausted(attempt) \/ ~ Retried(result) THEN {} ELSE BackoffFor(attempt)

\* The delays that decide_retry may return for the attempt just finished;
\* the empty set is `None`, stop.
RetryDelays(result, attempt) ==
    IF Exhausted(attempt) \/ ~ Retried(result) THEN {}
    ELSE IF Hinted(result) THEN {result.retryAfter}
    ELSE BackoffFor(attempt)
=============================================================================
