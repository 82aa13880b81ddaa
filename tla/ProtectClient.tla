--------------------------- MODULE ProtectClient ---------------------------
(***************************************************************************)
(* Concurrent calls of one ProtectClient and its clones, from the helper   *)
(* of client.rs through the middleware stack to the server and back.       *)
(*                                                                         *)
(* `build` makes two stacks over one reqwest client and ONE limiter:       *)
(*    http_retriable  retry loop, then limiter, then the request           *)
(*    http_mutating   limiter, then the request, with the retry loop       *)
(*                    around them only if retry_on_mutations was set       *)
(*                                                                         *)
(* The limiter is the state machine of RateLimiter, with the calls as its  *)
(* callers.  The server, the network and reqwest are the environment.  A   *)
(* variable whose value is not needed any more is reset to 0.              *)
(***************************************************************************)
EXTENDS Retry, Sequences, FiniteSets

CONSTANTS Calls,             \* concurrent calls of the client's methods
          Helpers,           \* the helpers of client.rs the calls may use
          RetryOnMutations,  \* retry_on_mutations
          RateLimited,       \* FALSE after .rate_limit(None)
          Rate, Per,         \* the RateLimitConfig
          TotalTimeout,      \* reqwest's timeout of one attempt, body included
          Statuses,          \* the statuses the server answers with
          RetryAfters        \* the values of its Retry-After headers

RetriableHelpers ==
    {"get_json", "get_bytes", "post_json_retriable", "post_empty_json_retriable"}
MutatingHelpers == {"patch_json", "send_no_content"}

ASSUME ClientAssumption ==
    /\ Helpers \subseteq RetriableHelpers \cup MutatingHelpers
    /\ RetryOnMutations \in BOOLEAN
    /\ RateLimited \in BOOLEAN
    /\ TotalTimeout \in Nat
    /\ Statuses \subseteq 100..599
    /\ RetryAfters \subseteq Nat

\* `build` fails when the quota is rejected.
ASSUME QuotaAssumption ==
    /\ Rate \in Nat \ {0}
    /\ Per \in Nat
    /\ Per \div Rate > 0

VARIABLES
    helper,    \* the helper of client.rs each call uses
    pc,        \* where each call is
    attempt,   \* the retry loop's counter of finished attempts
    deadline,  \* when reqwest's timeout of the current attempt fires
    result,    \* how the last attempt ended
    delay,     \* the delay decide_retry returned
    wake,      \* when the retry loop's sleep ends
    outcome,   \* what the method returned
    wire,      \* requests the server may yet process: <<call, attempt>>
    effects,   \* history: how often the server carried out each call
    notBefore, \* history: the time the last Retry-After named
    \* the limiter:
    now, tat, limiterPc, reading, limiterWake, log

limiterVars == <<tat, limiterPc, reading, limiterWake, log>>
callVars    == <<attempt, deadline, result, delay, wake>>
serverVars  == <<wire, effects, notBefore>>
vars == <<helper, pc, callVars, outcome, serverVars, now, limiterVars>>

Limiter == INSTANCE RateLimiter
             WITH Callers <- Calls, pc <- limiterPc, wake <- limiterWake

PC == {"start", "limiter", "send", "inflight", "drain", "backoff", "body", "done"}

NoResult == TransportError("none")

Pending     == [variant |-> "pending", status |-> NoStatus, cause |-> "none"]
Ok          == [variant |-> "Ok", status |-> NoStatus, cause |-> "none"]
Http(cause) == [variant |-> "Http", status |-> NoStatus, cause |-> cause]
Api(status) == [variant |-> "Api", status |-> status, cause |-> "none"]
InvalidUrl  == [variant |-> "InvalidUrl", status |-> NoStatus, cause |-> "none"]

Outcomes ==
    {Pending, Ok, InvalidUrl}
        \cup {Http(cause) : cause \in Causes \cup {"decode"}}
        \cup {Api(status) : status \in Statuses}

AttemptResults ==
    {NoResult} \cup {TransportError(cause) : cause \in Causes}
               \cup {Response(s, ra) : s \in Statuses, ra \in RetryAfters \cup {NoHint}}

TypeOK ==
    /\ helper \in [Calls -> Helpers]
    /\ pc \in [Calls -> PC]
    /\ attempt \in [Calls -> 0..MaxRetries]
    /\ deadline \in [Calls -> Nat]
    /\ result \in [Calls -> AttemptResults]
    /\ delay \in [Calls -> Int]
    /\ wake \in [Calls -> Int]
    /\ outcome \in [Calls -> Outcomes]
    /\ wire \subseteq Calls \X (0..MaxRetries)
    /\ effects \in [Calls -> Nat]
    /\ notBefore \in [Calls -> Nat]
    /\ Limiter!TypeOK

Init ==
    /\ helper \in [Calls -> Helpers]
    /\ pc = [c \in Calls |-> "start"]
    /\ attempt = [c \in Calls |-> 0]
    /\ deadline = [c \in Calls |-> 0]
    /\ result = [c \in Calls |-> NoResult]
    /\ delay = [c \in Calls |-> 0]
    /\ wake = [c \in Calls |-> 0]
    /\ outcome = [c \in Calls |-> Pending]
    /\ wire = {}
    /\ effects = [c \in Calls |-> 0]
    /\ notBefore = [c \in Calls |-> 0]
    /\ Limiter!Init

-----------------------------------------------------------------------------
\* Mutant of HasRetryLayer: the mutating stack is built like the other.
HasRetryLayerAlways(c) == helper[c] \in RetriableHelpers \cup MutatingHelpers

\* The stacks that `build` assembles.
HasRetryLayer(c) == helper[c] \in RetriableHelpers \/ RetryOnMutations

\* A request enters what is below the retry loop: the limiter, which both
\* stacks share, or reqwest itself when the limiter is disabled.
EnterInnerStack(c) ==
    \/ /\ RateLimited
       /\ Limiter!Arrive(c)
       /\ pc' = [pc EXCEPT ![c] = "limiter"]
    \/ /\ ~ RateLimited
       /\ UNCHANGED <<now, limiterVars>>
       /\ pc' = [pc EXCEPT ![c] = "send"]

\* The method returns.
Finish(c, res) ==
    /\ outcome' = [outcome EXCEPT ![c] = res]
    /\ pc' = [pc EXCEPT ![c] = "done"]
    /\ deadline' = [deadline EXCEPT ![c] = 0]
    /\ UNCHANGED <<helper, attempt, result, delay, wake, serverVars, now, limiterVars>>

\* The path does not join the base URL: `?` returns before there is a request.
RejectUrl(c) ==
    /\ pc[c] = "start"
    /\ Finish(c, InvalidUrl)

\* The method builds its request and sends it into its stack.
Issue(c) ==
    /\ pc[c] = "start"
    /\ EnterInnerStack(c)
    /\ UNCHANGED <<helper, callVars, outcome, serverVars>>

\* `until_ready` does not return yet.
WaitForPermit(c) ==
    /\ pc[c] = "limiter"
    /\ Limiter!ReadClock(c) \/ Limiter!Deny(c) \/ Limiter!Wake(c)
    /\ UNCHANGED <<helper, pc, callVars, outcome, serverVars>>

\* Mutant of Permit: a request that has slept is not decided again.
PermitAfterSleep(c) ==
    /\ pc[c] = "limiter"
    /\ \/ Limiter!Grant(c)
       \/ /\ limiterPc[c] = "sleeping"
          /\ limiterWake[c] <= now
          /\ limiterPc' = [limiterPc EXCEPT ![c] = "idle"]
          /\ limiterWake' = [limiterWake EXCEPT ![c] = 0]
          /\ UNCHANGED <<now, tat, reading, log>>
    /\ pc' = [pc EXCEPT ![c] = "send"]
    /\ UNCHANGED <<helper, callVars, outcome, serverVars>>

\* `until_ready` returns: `next.run`.
Permit(c) ==
    /\ pc[c] = "limiter"
    /\ Limiter!Grant(c)
    /\ pc' = [pc EXCEPT ![c] = "send"]
    /\ UNCHANGED <<helper, callVars, outcome, serverVars>>

\* The delays the retry loop may settle on, if the stack has one.
Delays(c, res) == IF HasRetryLayer(c) THEN RetryDelays(res, attempt[c]) ELSE {}

\* An attempt is over.  The retry loop settles on a delay, or the result of
\* the attempt leaves the stack: an error is the method's result, a response
\* goes on to have its body read.
AttemptEnds(c, res) ==
    /\ result' = [result EXCEPT ![c] = res]
    /\ deadline' = IF res.kind = "error" THEN [deadline EXCEPT ![c] = 0] ELSE deadline
    /\ \/ \E d \in Delays(c, res) :
              /\ delay' = [delay EXCEPT ![c] = d]
              /\ pc' = [pc EXCEPT ![c] = "drain"]
              /\ UNCHANGED outcome
       \/ /\ Delays(c, res) = {}
          /\ res.kind = "response"
          /\ pc' = [pc EXCEPT ![c] = "body"]
          /\ UNCHANGED <<delay, outcome>>
       \/ /\ Delays(c, res) = {}
          /\ res.kind = "error"
          /\ pc' = [pc EXCEPT ![c] = "done"]
          /\ outcome' = [outcome EXCEPT ![c] = Http(res.cause)]
          /\ UNCHANGED delay
    /\ UNCHANGED <<helper, attempt, wake, now, limiterVars>>

\* The connection stands and the request is on its way.
Transmit(c) ==
    /\ pc[c] = "send"
    /\ pc' = [pc EXCEPT ![c] = "inflight"]
    /\ deadline' = [deadline EXCEPT ![c] = now + TotalTimeout]
    /\ wire' = wire \cup {<<c, attempt[c]>>}
    /\ notBefore' = [notBefore EXCEPT ![c] = 0]
    /\ UNCHANGED <<helper, attempt, result, delay, wake, outcome, effects,
                   now, limiterVars>>

\* No connection within the connect timeout, or it was refused.
ConnectFails(c) ==
    /\ pc[c] = "send"
    /\ AttemptEnds(c, TransportError("connect"))
    /\ notBefore' = [notBefore EXCEPT ![c] = 0]
    /\ UNCHANGED <<wire, effects>>

\* The connection breaks before the response arrives.
ConnectionLost(c) ==
    /\ pc[c] = "inflight"
    /\ AttemptEnds(c, TransportError("reset"))
    /\ UNCHANGED serverVars

\* Mutant of TimesOut: reqwest is built without a timeout.
TimesOutNever(c) ==
    /\ pc[c] = "inflight"
    /\ FALSE
    /\ AttemptEnds(c, TransportError("timeout"))
    /\ UNCHANGED serverVars

\* No response in time.  The server may still have the request, and work on
\* it while the next attempt is made.
TimesOut(c) ==
    /\ pc[c] = "inflight"
    /\ deadline[c] <= now
    /\ AttemptEnds(c, TransportError("timeout"))
    /\ UNCHANGED serverVars

\* What the server may have done when it answers with a status: a 5xx may be
\* sent after the request took effect.
CarriedOut(status) ==
    IF IsSuccess(status) THEN {1} ELSE IF IsServerError(status) THEN {0, 1} ELSE {0}

Hints(status) ==
    IF status = 429 \/ IsServerError(status) THEN RetryAfters \cup {NoHint} ELSE {NoHint}

\* The server processes the current attempt of a call and its response
\* arrives.
Answer(c) ==
    /\ pc[c] = "inflight"
    /\ <<c, attempt[c]>> \in wire
    /\ wire' = wire \ {<<c, attempt[c]>>}
    /\ \E status \in Statuses : \E hint \in Hints(status), n \in CarriedOut(status) :
           /\ effects' = [effects EXCEPT ![c] = @ + n]
           /\ notBefore' =
                  [notBefore EXCEPT ![c] = IF hint = NoHint THEN 0 ELSE now + hint]
           /\ AttemptEnds(c, Response(status, hint))

\* The server carries a request out and its response does not arrive: it is
\* lost, or the client has given the attempt up.  (A request that is lost
\* itself stays on the wire for ever.)
ServeUnheard(c) ==
    \E m \in wire :
        /\ m[1] = c
        /\ wire' = wire \ {m}
        /\ effects' = [effects EXCEPT ![c] = @ + 1]
        /\ UNCHANGED <<helper, pc, callVars, outcome, notBefore, now, limiterVars>>

\* The body of a retried response has been drained, successfully or not; the
\* loop counts the attempt and goes to sleep.
StartSleep(c) ==
    /\ pc[c] = "drain"
    /\ attempt' = [attempt EXCEPT ![c] = @ + 1]
    /\ wake' = [wake EXCEPT ![c] = now + delay[c]]
    /\ delay' = [delay EXCEPT ![c] = 0]
    /\ deadline' = [deadline EXCEPT ![c] = 0]
    /\ pc' = [pc EXCEPT ![c] = "backoff"]
    /\ UNCHANGED <<helper, result, outcome, serverVars, now, limiterVars>>

\* Mutant of Retry: the limiter is stacked outside the retry loop.
RetryPastLimiter(c) ==
    /\ pc[c] = "backoff"
    /\ wake[c] <= now
    /\ pc' = [pc EXCEPT ![c] = "send"]
    /\ wake' = [wake EXCEPT ![c] = 0]
    /\ UNCHANGED <<helper, attempt, deadline, result, delay, outcome, serverVars,
                   now, limiterVars>>

\* The sleep is over: the loop runs the rest of the stack again.
Retry(c) ==
    /\ pc[c] = "backoff"
    /\ wake[c] <= now
    /\ EnterInnerStack(c)
    /\ wake' = [wake EXCEPT ![c] = 0]
    /\ UNCHANGED <<helper, attempt, deadline, result, delay, outcome, serverVars>>

\* send_no_content returns on a success without looking at the body.
NoContent(c) == helper[c] = "send_no_content" /\ IsSuccess(result[c].status)

SkipBody(c) ==
    /\ pc[c] = "body"
    /\ NoContent(c)
    /\ Finish(c, Ok)

\* Mutant of ReadBody: the status is not looked at.
ReadBodyUnchecked(c) ==
    /\ pc[c] = "body"
    /\ ~ NoContent(c)
    /\ Finish(c, Ok)

\* The whole body arrives: the value of a success, or an API error whether or
\* not the error body parses.  Only the JSON helpers can find that the body
\* of a success has the wrong shape: reqwest's `json` says so.
ReadBody(c) ==
    /\ pc[c] = "body"
    /\ ~ NoContent(c)
    /\ \/ IsSuccess(result[c].status) /\ Finish(c, Ok)
       \/ /\ IsSuccess(result[c].status) /\ helper[c] # "get_bytes"
          /\ Finish(c, Http("decode"))
       \/ ~ IsSuccess(result[c].status) /\ Finish(c, Api(result[c].status))

\* The body breaks off, for a success as for an error response.
BodyLost(c) ==
    /\ pc[c] = "body"
    /\ ~ NoContent(c)
    /\ Finish(c, Http("reset"))

\* reqwest's timeout of the attempt also covers its body.
BodyTimesOut(c) ==
    /\ pc[c] = "body"
    /\ ~ NoContent(c)
    /\ deadline[c] <= now
    /\ Finish(c, Http("timeout"))

Tick ==
    /\ Limiter!Tick
    /\ UNCHANGED <<helper, pc, callVars, outcome, serverVars>>

\* What happens without help of the server, the network or the application:
\* the executor polls the call, and timers fire.
Advance(c) ==
    \/ WaitForPermit(c) \/ Permit(c) \/ Transmit(c) \/ TimesOut(c)
    \/ deadline[c] <= now /\ StartSleep(c)
    \/ Retry(c) \/ SkipBody(c) \/ BodyTimesOut(c)

\* What needs the server or the network.
Environment(c) ==
    \/ ConnectFails(c) \/ ConnectionLost(c) \/ Answer(c) \/ ServeUnheard(c)
    \/ StartSleep(c) \/ ReadBody(c) \/ BodyLost(c)

Next == Tick \/ \E c \in Calls : RejectUrl(c) \/ Issue(c) \/ Advance(c) \/ Environment(c)

Spec == Init /\ [][Next]_vars

-----------------------------------------------------------------------------
\* How often a call may reach the server.
Budget(c) ==
    IF helper[c] \in RetriableHelpers \/ RetryOnMutations THEN MaxRetries + 1 ELSE 1

\* Nothing is carried out more often than the retry policy allows: a mutation
\* once, unless retry_on_mutations was set; the POSTs that allocate a session
\* at most max_retries + 1 times -- even when responses are lost or a server
\* is still at an attempt the client has given up.
EffectsBounded == \A c \in Calls : effects[c] <= Budget(c)

\* The caller can believe the result.  Ok means that the server carried the
\* request out.  An API error below 500 of a request that was sent once means
\* that it did not and will not, and so does InvalidUrl of any request.
OutcomeTruthful ==
    \A c \in Calls :
        /\ outcome[c] = Ok => effects[c] >= 1
        /\ \/ outcome[c] = InvalidUrl
           \/ outcome[c].variant = "Api" /\ outcome[c].status < 500 /\ Budget(c) = 1
           => effects[c] = 0 /\ \A m \in wire : m[1] # c

\* The response came and its body did not: the retry loop, which sees a response
\* before its body is read, had let go of the call.
FailedInBody(c) == result[c].kind = "response" /\ outcome[c].variant = "Http"

\* A retried call that returns with retries left was not stopped by anything that
\* the loop is there for: its last attempt was answered with none of the statuses
\* that are retried, and what it returns is no timeout and no failure to connect
\* -- unless that hit the body, which is outside the loop.  An API error is that
\* of the last attempt.
GivesUpOnlyExhausted ==
    \A c \in Calls : pc[c] = "done" =>
        /\ outcome[c].variant = "Api" => outcome[c].status = result[c].status
        /\ (HasRetryLayer(c) /\ attempt[c] < MaxRetries) =>
               /\ result[c].status \notin {408, 429} \cup 500..599
               /\ outcome[c].cause \in {"timeout", "connect"} => FailedInBody(c)

\* What the documentation of RetryConfig says, without that exception: a read
\* timeout reaches the caller of a retried call only when the retries are used up.
ReadTimeoutsRetried ==
    \A c \in Calls : (pc[c] = "done" /\ HasRetryLayer(c) /\ outcome[c] = Http("timeout"))
        => attempt[c] = MaxRetries

\* Without a hint of the server no delay is below what the schedule gave any
\* earlier attempt of the call at least -- not where 2^attempt leaves the width
\* of the factor either.  (Once the cap is reached, jitter alone may make one
\* delay shorter than the one before.)
NeverBelowSchedule ==
    \A c \in Calls : (pc[c] = "drain" /\ ~ Hinted(result[c])) =>
        \A earlier \in 0..attempt[c] : delay[c] >= CappedBackoff(earlier)

\* The attempts a call has made or is making; what has begun is no longer
\* before the limiter.
AttemptStarted(c) ==
    pc[c] \in {"send", "inflight", "drain", "body", "done"} /\ outcome[c] # InvalidUrl
AttemptsOf(c)     == attempt[c] + IF AttemptStarted(c) THEN 1 ELSE 0

\* Every attempt of every call -- the first and the retries, reads and
\* mutations -- has taken a permit of its own from the one limiter, and no
\* permit is taken for nothing: the permits can be dealt out to the calls so
\* that each has as many as it has attempts.
PermitPerAttempt ==
    RateLimited =>
        \E owner \in [1..Len(log) -> Calls] :
            \A c \in Calls :
                Cardinality({k \in 1..Len(log) : owner[k] = c}) = AttemptsOf(c)

\* A call that was answered 429 with a Retry-After does not send again before
\* that time, whatever max_backoff is and whatever the limiter allows.
RetryAfterHonoured ==
    [][\A c \in Calls :
          (pc[c] = "send" /\ pc'[c] # "send" /\ attempt[c] > 0 /\ result[c].status = 429)
              => now >= notBefore[c]]_vars

\* Every method call returns, whatever the server and the network do.
EveryCallReturns == \A c \in Calls : pc[c] # "start" ~> pc[c] = "done"

\* The calls drive the limiter only as it is meant to be driven, so that its
\* promises hold of the client.
LimiterSpec == Limiter!Spec

\* The client keeps the contract with its callers.
AbstractOutcome(c) ==
    CASE outcome[c].variant = "pending" -> "pending"
      [] outcome[c].variant = "Ok" -> "ok"
      [] outcome[c].variant = "Api" /\ outcome[c].status < 500 -> "refused"
      [] outcome[c] = InvalidUrl -> "refused"
      [] OTHER -> "unknown"

Contract == INSTANCE CallContract
              WITH MaxBudget <- MaxRetries + 1,
                   budget <- [c \in Calls |-> Budget(c)],
                   outcome <- [c \in Calls |-> AbstractOutcome(c)]

ContractSpec == Contract!Spec
=============================================================================
