---------------------------- MODULE RateLimiter ----------------------------
(***************************************************************************)
(* The proactive rate limiter of ferro-protect (src/crates/ferro-protect/  *)
(* src/rate_limit.rs).  One GCRA cell, shared by every clone of the        *)
(* middleware, is consulted by concurrent callers of `handle`.  The cell   *)
(* and the loop of `until_ready` belong to the external crate governor.    *)
(*                                                                         *)
(* Time is counted in ticks (the code counts nanoseconds).  A local        *)
(* variable whose value is not needed any more is reset to 0.              *)
(***************************************************************************)
EXTENDS Integers, Sequences

CONSTANTS Callers,   \* the requests that go through the middleware
          Rate,      \* RateLimitConfig::rate, a NonZeroU32
          Per        \* RateLimitConfig::per, in ticks

ASSUME RateAssumption == Rate \in Nat \ {0}
ASSUME PerAssumption  == Per \in Nat

\* The period between two refills of a cell: `self.per / self.rate.get()`,
\* an integer division.
CellPeriod == Per \div Rate

\* `Quota::with_period(cell_period)` rejects a zero period; no limiter
\* exists then, so everything below is about an accepted quota.
QuotaAccepted == CellPeriod > 0

\* `allow_burst(self.rate)`
Burst == Rate

ASSUME QuotaAssumption == QuotaAccepted

\* Mutant of Tolerance: `allow_burst` is forgotten.
ToleranceNone == 0

\* How far ahead of the clock the cell may run.
Tolerance == (Burst - 1) * CellPeriod

VARIABLES
    now,     \* the monotonic clock
    tat,     \* the cell: theoretical arrival time of the next request
    pc,      \* where each caller is in `handle`
    reading, \* the clock value a caller took before it consults the cell
    wake,    \* when a denied caller's timer fires
    log      \* history: the readings that were granted, in grant order

vars == <<now, tat, pc, reading, wake, log>>

PC == {"idle", "ready", "deciding", "sleeping"}

TypeOK ==
    /\ now \in Nat
    /\ tat \in Nat
    /\ pc \in [Callers -> PC]
    /\ reading \in [Callers -> Nat]
    /\ wake \in [Callers -> Nat]
    /\ log \in Seq(Nat)

\* The bucket starts full: nothing has been promised yet.
Init ==
    /\ now = 0
    /\ tat = 0
    /\ pc = [c \in Callers |-> "idle"]
    /\ reading = [c \in Callers |-> 0]
    /\ wake = [c \in Callers |-> 0]
    /\ log = <<>>

-----------------------------------------------------------------------------
\* The GCRA decision for a request that read the clock at t.
Conforms(t) == tat - Tolerance <= t

\* Mutant of TatAfter: the debt of earlier grants is dropped.
TatAfterForgetting(t) == t + CellPeriod

\* The cell after a request that read the clock at t is granted.
TatAfter(t) == (IF tat >= t THEN tat ELSE t) + CellPeriod

\* A request enters the middleware and calls `until_ready`.
Arrive(c) ==
    /\ pc[c] = "idle"
    /\ pc' = [pc EXCEPT ![c] = "ready"]
    /\ UNCHANGED <<now, tat, reading, wake, log>>

\* Mutant of ReadClock: the clock is not read again after a sleep.
ReadClockOnce(c) ==
    /\ pc[c] = "ready"
    /\ pc' = [pc EXCEPT ![c] = "deciding"]
    /\ UNCHANGED <<now, tat, reading, wake, log>>

\* The clock is read before the cell is: other callers, and time, may pass
\* between the two.
ReadClock(c) ==
    /\ pc[c] = "ready"
    /\ pc' = [pc EXCEPT ![c] = "deciding"]
    /\ reading' = [reading EXCEPT ![c] = now]
    /\ UNCHANGED <<now, tat, wake, log>>

\* The compare-and-swap of the cell succeeds; `until_ready` returns and the
\* request goes on to the next middleware.
Grant(c) ==
    /\ pc[c] = "deciding"
    /\ Conforms(reading[c])
    /\ tat' = TatAfter(reading[c])
    /\ pc' = [pc EXCEPT ![c] = "idle"]
    /\ log' = Append(log, reading[c])
    /\ reading' = [reading EXCEPT ![c] = 0]
    /\ UNCHANGED <<now, wake>>

\* Mutant of Deny: the timer gets a duration where it needs a time.
DenyForDuration(c) ==
    /\ pc[c] = "deciding"
    /\ ~ Conforms(reading[c])
    /\ pc' = [pc EXCEPT ![c] = "sleeping"]
    /\ wake' = [wake EXCEPT ![c] = tat - Tolerance - now]
    /\ reading' = [reading EXCEPT ![c] = 0]
    /\ UNCHANGED <<now, tat, log>>

\* Mutant of Deny: the burst is not allowed for when the sleep is computed.
DenyUntilTat(c) ==
    /\ pc[c] = "deciding"
    /\ ~ Conforms(reading[c])
    /\ pc' = [pc EXCEPT ![c] = "sleeping"]
    /\ wake' = [wake EXCEPT ![c] = tat]
    /\ reading' = [reading EXCEPT ![c] = 0]
    /\ UNCHANGED <<now, tat, log>>

\* The cell is not touched: the caller sleeps until the earliest time at
\* which the cell, as it was seen, would grant.
Deny(c) ==
    /\ pc[c] = "deciding"
    /\ ~ Conforms(reading[c])
    /\ pc' = [pc EXCEPT ![c] = "sleeping"]
    /\ wake' = [wake EXCEPT ![c] = tat - Tolerance]
    /\ reading' = [reading EXCEPT ![c] = 0]
    /\ UNCHANGED <<now, tat, log>>

\* A timer fires at its deadline or later; the loop consults the cell again.
Wake(c) ==
    /\ pc[c] = "sleeping"
    /\ wake[c] <= now
    /\ pc' = [pc EXCEPT ![c] = "ready"]
    /\ wake' = [wake EXCEPT ![c] = 0]
    /\ UNCHANGED <<now, tat, reading, log>>

Tick ==
    /\ now' = now + 1
    /\ UNCHANGED <<tat, pc, reading, wake, log>>

\* The steps of a caller that is inside the middleware.
Proceed(c) == ReadClock(c) \/ Grant(c) \/ Deny(c) \/ Wake(c)

Next == Tick \/ \E c \in Callers : Arrive(c) \/ Proceed(c)

Spec == Init /\ [][Next]_vars

-----------------------------------------------------------------------------
\* The requests of log[i..j] took (j - i + 1) permits; all but Burst of them
\* were paid for by the time between the two readings.  This is the promise
\* of `rate` and `per` ("target steady-state rate ... and max burst size")
\* for every run of grants, whatever the callers' interleaving and however
\* stale their readings are.
Conformance ==
    \A i, j \in 1..Len(log) :
        i <= j => log[j] - log[i] >= (j - i + 1 - Burst) * CellPeriod

\* No queue of promises: however many callers wait, the cell is never more
\* than a full bucket ahead of the clock, so that a denied caller sleeps at
\* most one refill period before it may ask again.
DebtBounded ==
    /\ tat <= now + Burst * CellPeriod
    /\ \A c \in Callers : pc[c] = "sleeping" => wake[c] <= now + CellPeriod

\* The limiter never holds a request back without cause: a request that
\* would have to wait now finds at least Burst permits granted whose refills
\* are not over yet (no permit is lost to an interleaving or a retry of the
\* cell, and the bucket really starts full).
HeldBackOnlyWhenSpent ==
    tat - Tolerance > now =>
        \E i \in 1..Len(log) :
            /\ Len(log) - i + 1 >= Burst
            /\ log[i] + (Len(log) - i + 2 - Burst) * CellPeriod > now

\* A caller that entered gets its permit although nobody queues: denied
\* callers race with later ones each time they wake up.  It needs an end of
\* the arrivals, the executor to run the caller and the clock to advance.
EveryCallerGranted == \A c \in Callers : pc[c] = "ready" ~> pc[c] = "idle"

\* What ARCHITECTURE.md says of the quota: at most `rate` requests in any
\* rolling window of length `per`.
RollingWindowQuota ==
    \A i, j \in 1..Len(log) :
        (i <= j /\ log[j] - log[i] < Per) => j - i + 1 <= Rate
=============================================================================
