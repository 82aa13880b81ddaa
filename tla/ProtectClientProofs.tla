------------------------ MODULE ProtectClientProofs ------------------------
(***************************************************************************)
(* What the middleware stacks guarantee for every number of calls, every   *)
(* retry policy, every rate limit and every server.                        *)
(***************************************************************************)
EXTENDS ProtectClient, FiniteSetTheorems, SetInduction, TLAPS

LP == INSTANCE RateLimiterProofs
        WITH Callers <- Calls, pc <- limiterPc, wake <- limiterWake

-----------------------------------------------------------------------------
\* Part 1: the limiter.  ProtectClient implements RateLimiter, so that the
\* theorems of RateLimiterProofs hold of the client.

\* An attempt's end leaves the limiter alone.
LEMMA AttemptEndsLimiter ==
    ASSUME NEW c, NEW res, AttemptEnds(c, res)
    PROVE  UNCHANGED Limiter!vars
BY DEF AttemptEnds, limiterVars, Limiter!vars

LEMMA LimiterStep == [Next]_vars => [Limiter!Next]_(Limiter!vars)
<1> SUFFICES ASSUME [Next]_vars
             PROVE  [Limiter!Next]_(Limiter!vars)
  OBVIOUS
<1> DEFINE Same == UNCHANGED Limiter!vars
<1>1. CASE Tick
  BY <1>1 DEF Tick, Limiter!Next
<1>2. ASSUME NEW c \in Calls, EnterInnerStack(c)
      PROVE  Limiter!Next \/ Same
  BY <1>2 DEF EnterInnerStack, Limiter!Next, Limiter!vars, limiterVars
<1>3. ASSUME NEW c \in Calls, Issue(c)
      PROVE  Limiter!Next \/ Same
  BY <1>2, <1>3 DEF Issue
<1>3a. ASSUME NEW c \in Calls, RejectUrl(c)
       PROVE  Same
  BY <1>3a DEF RejectUrl, Finish, limiterVars, Limiter!vars
<1>4. ASSUME NEW c \in Calls, Advance(c)
      PROVE  Limiter!Next \/ Same
  <2>1. CASE WaitForPermit(c) \/ Permit(c)
    BY <2>1 DEF WaitForPermit, Permit, Limiter!Next, Limiter!Proceed
  <2>2. CASE Transmit(c) \/ StartSleep(c)
    BY <2>2 DEF Transmit, StartSleep, limiterVars, Limiter!vars
  <2>3. CASE TimesOut(c)
    BY <2>3, AttemptEndsLimiter DEF TimesOut
  <2>4. CASE Retry(c)
    BY <1>2, <2>4 DEF Retry
  <2>5. CASE SkipBody(c) \/ BodyTimesOut(c)
    BY <2>5 DEF SkipBody, BodyTimesOut, Finish, limiterVars, Limiter!vars
  <2>6. QED
    BY <1>4, <2>1, <2>2, <2>3, <2>4, <2>5 DEF Advance
<1>5. ASSUME NEW c \in Calls, Environment(c)
      PROVE  Same
  <2>1. CASE ConnectFails(c) \/ ConnectionLost(c)
    BY <2>1, AttemptEndsLimiter DEF ConnectFails, ConnectionLost
  <2>2. CASE Answer(c)
    BY <2>2, AttemptEndsLimiter DEF Answer
  <2>3. CASE ServeUnheard(c) \/ StartSleep(c)
    BY <2>3 DEF ServeUnheard, StartSleep, limiterVars, Limiter!vars
  <2>4. CASE ReadBody(c) \/ BodyLost(c)
    BY <2>4 DEF ReadBody, BodyLost, Finish, limiterVars, Limiter!vars
  <2>5. QED
    BY <1>5, <2>1, <2>2, <2>3, <2>4 DEF Environment
<1>6. CASE UNCHANGED vars
  BY <1>6 DEF vars, limiterVars, Limiter!vars
<1>7. QED
  BY <1>1, <1>3, <1>3a, <1>4, <1>5, <1>6 DEF Next

\* Retries, both stacks and the limiter's on/off switch included, the client
\* only ever drives the shared limiter as rate_limit.rs and governor mean it.
THEOREM LimiterRefined == Spec => LimiterSpec
<1>1. Init => Limiter!Init
  BY DEF Init
<1>2. QED
  BY <1>1, LimiterStep, PTL DEF Spec, LimiterSpec, Limiter!Spec

\* The constants of the client are those of an accepted quota.
LEMMA LimiterConstants ==
    LP!RateAssumption /\ LP!PerAssumption /\ LP!QuotaAssumption
BY QuotaAssumption
   DEF LP!RateAssumption, LP!PerAssumption, LP!QuotaAssumption, LP!QuotaAccepted,
       LP!CellPeriod

\* The two instances of RateLimiter are the same.
LEMMA SameLimiter ==
    /\ Limiter!Init <=> LP!Init
    /\ [Limiter!Next]_(Limiter!vars) <=> [LP!Next]_(LP!vars)
    /\ LP!Conformance <=> Limiter!Conformance
<1>1. Limiter!Init <=> LP!Init
  BY DEF Limiter!Init, LP!Init
<1>2. LP!Conformance <=> Limiter!Conformance
  BY DEF LP!Conformance, Limiter!Conformance, LP!CellPeriod, Limiter!CellPeriod,
         LP!Burst, Limiter!Burst
<1>3. [Limiter!Next]_(Limiter!vars) <=> [LP!Next]_(LP!vars)
  BY DEF Limiter!Next, Limiter!vars, Limiter!Tick, Limiter!Arrive, Limiter!Proceed,
         Limiter!ReadClock, Limiter!Grant, Limiter!Deny, Limiter!Wake,
         Limiter!Conforms, Limiter!TatAfter, Limiter!Tolerance, Limiter!CellPeriod,
         Limiter!Burst,
         LP!Next, LP!vars, LP!Tick, LP!Arrive, LP!Proceed,
         LP!ReadClock, LP!Grant, LP!Deny, LP!Wake,
         LP!Conforms, LP!TatAfter, LP!Tolerance, LP!CellPeriod, LP!Burst
<1>4. QED
  BY <1>1, <1>2, <1>3

\* The attempts of all calls together, reads, mutations and retries, keep to
\* the rate and the burst that the builder was given.
THEOREM ClientConformance == Spec => []Limiter!Conformance
<1>1. LP!Spec => []LP!Conformance
  BY LP!ConformanceHolds, LimiterConstants, PTL
<1>2. LimiterSpec => LP!Spec
  BY SameLimiter, PTL DEF LimiterSpec, Limiter!Spec, LP!Spec
<1>3. QED
  BY <1>1, <1>2, SameLimiter, LimiterRefined, PTL

\* What all calls together are granted in a window of Rate refill periods, one
\* second with the default quota: less than twice the rate.
ClientWindow ==
    \A i, j \in 1..Len(log) :
        (i <= j /\ log[j] - log[i] < Rate * (Per \div Rate)) => j - i + 1 <= 2 * Rate - 1

\* Reads, mutations and retries together exceed ARCHITECTURE.md's quota of a
\* rolling window by less than the bucket.
THEOREM ClientWindowBounded == Spec => []ClientWindow
<1>1. LP!Spec => []LP!WindowBounded
  BY LP!WindowBoundedHolds, LimiterConstants, PTL
<1>2. LimiterSpec => LP!Spec
  BY SameLimiter, PTL DEF LimiterSpec, Limiter!Spec, LP!Spec
<1>3. LP!WindowBounded => ClientWindow
  BY DEF LP!WindowBounded, LP!CellPeriod, LP!Burst, ClientWindow
<1>4. QED
  BY <1>1, <1>2, <1>3, LimiterRefined, PTL

-----------------------------------------------------------------------------
\* Part 2: the schedule of the retry loop.  2^attempt never falls, not where it
\* saturates either, so that no later delay is below an earlier one's minimum.

\* The equations of the shift.
LEMMA ShiftedSteps ==
    /\ Shifted \in [Nat -> Nat]
    /\ Shifted[0] = 1
    /\ \A n \in Nat : Shifted[n + 1] = 2 * Shifted[n]
<1> DEFINE double == [n \in Nat |-> [x \in Nat |-> 2 * x]]
           Body(f) == [n \in Nat |-> IF n = 0 THEN 1 ELSE 2 * f[n - 1]]
<1>1. \A n \in Nat : double[n] \in [Nat -> Nat]
  OBVIOUS
<1>2. \E f \in [Nat -> Nat] : FollowsAlways(f, 1, double)
  <2>1. 1 \in Nat
    OBVIOUS
  <2> HIDE DEF double
  <2> QED BY <1>1, <2>1, NatRecursion
<1>3. PICK f \in [Nat -> Nat] : f[0] = 1 /\ \A n \in Nat : f[n + 1] = double[n][f[n]]
  <2> HIDE DEF double
  <2> QED BY <1>2 DEF FollowsAlways
<1>4. \A n \in Nat : f[n + 1] = 2 * f[n]
  BY <1>3
<1>5. \A n \in Nat : f[n] = Body(f)[n]
  <2> TAKE n \in Nat
  <2>1. CASE n = 0
    BY <1>3, <2>1
  <2>2. CASE n # 0
    <3>1. n - 1 \in Nat /\ (n - 1) + 1 = n
      BY <2>2
    <3> QED BY <1>4, <2>2, <3>1
  <2> QED BY <2>1, <2>2
<1>6. f = Body(f)
  BY <1>5
<1>7. Shifted = Body(Shifted)
  <2> HIDE DEF Body
  <2> QED BY <1>6 DEF Shifted, Body
<1>8. \A n \in Nat : Shifted[n] = IF n = 0 THEN 1 ELSE 2 * Shifted[n - 1]
  BY <1>7
<1>9. Shifted[0] = 1 /\ \A n \in Nat : Shifted[n + 1] = 2 * Shifted[n]
  BY <1>8
<1>10. \A n \in Nat : Shifted[n] \in Nat
  <2> DEFINE S == {n \in Nat : Shifted[n] \in Nat}
  <2>1. 0 \in S /\ \A n \in Nat : n \in S => n + 1 \in S
    BY <1>9
  <2>2. Nat \subseteq S
    <3> HIDE DEF S
    <3> QED BY <2>1, NatSetInduction
  <2> QED BY <2>2
<1>11. Shifted \in [Nat -> Nat]
  BY <1>7, <1>10
<1> QED BY <1>9, <1>11

\* A longer shift gives no less, and never nothing.
LEMMA ShiftedGrows ==
    ASSUME NEW m \in Nat, NEW n \in Nat, m <= n
    PROVE  Shifted[m] >= 1 /\ Shifted[m] <= Shifted[n]
<1> DEFINE P == {k \in Nat : Shifted[k] >= 1}
           S == {k \in Nat : Shifted[m] <= Shifted[m + k]}
<1>1. Nat \subseteq P
  <2>1. 0 \in P /\ \A k \in Nat : k \in P => k + 1 \in P
    BY ShiftedSteps
  <2> HIDE DEF P
  <2> QED BY <2>1, NatSetInduction
<1>2. Nat \subseteq S
  <2>1. 0 \in S
    BY ShiftedSteps
  <2>2. ASSUME NEW k \in Nat, k \in S PROVE k + 1 \in S
    <3>1. Shifted[m + k + 1] = 2 * Shifted[m + k] /\ Shifted[m + k] \in Nat /\ Shifted[m] \in Nat
      BY ShiftedSteps
    <3> QED BY <2>2, <3>1
  <2> HIDE DEF S
  <2> QED BY <2>1, <2>2, NatSetInduction
<1>3. n - m \in Nat /\ m + (n - m) = n
  OBVIOUS
<1> QED BY <1>1, <1>2, <1>3

\* The factor never falls, not where it saturates either.
LEMMA FactorGrows ==
    ASSUME NEW a \in Nat, NEW b \in Nat, a <= b
    PROVE  Factor(a) \in Nat /\ Factor(b) \in Nat /\ Factor(a) <= Factor(b)
<1>1. /\ Shifted[a] \in Nat /\ Shifted[b] \in Nat /\ Shifted[ShlBits] \in Nat
      /\ Shifted[ShlBits] >= 1 /\ Shifted[a] <= Shifted[b]
  <2>1. ShlBits \in Nat /\ ShlBits <= ShlBits
    BY RetryAssumption
  <2>2. Shifted[a] <= Shifted[b] /\ Shifted[ShlBits] >= 1
    BY <2>1, ShiftedGrows
  <2> QED BY <2>1, <2>2, ShiftedSteps
<1>2. a < ShlBits => Shifted[a] <= Shifted[ShlBits] - 1
  <2> SUFFICES ASSUME a < ShlBits PROVE Shifted[a] <= Shifted[ShlBits] - 1
    OBVIOUS
  <2>1. Shifted[a + 1] = 2 * Shifted[a] /\ Shifted[a] >= 1
    BY ShiftedSteps, ShiftedGrows
  <2>2. a + 1 \in Nat /\ a + 1 <= ShlBits /\ ShlBits \in Nat
    BY RetryAssumption
  <2>3. Shifted[a + 1] <= Shifted[ShlBits]
    BY <2>2, ShiftedGrows
  <2> QED BY <1>1, <2>1, <2>3
<1> QED BY <1>1, <1>2, RetryAssumption DEF Factor

\* The schedule without jitter never falls.
LEMMA ScheduleGrows ==
    ASSUME NEW a \in Nat, NEW b \in Nat, a <= b
    PROVE  /\ CappedBackoff(a) \in Nat /\ CappedBackoff(b) \in Nat
           /\ CappedBackoff(a) <= CappedBackoff(b)
<1>1. Factor(a) \in Nat /\ Factor(b) \in Nat /\ Factor(a) <= Factor(b)
  BY FactorGrows
<1>2. ASSUME NEW x \in Nat, NEW y \in Nat, x <= y
      PROVE  /\ InitialBackoff * x \in Nat /\ InitialBackoff * y \in Nat
             /\ InitialBackoff * x <= InitialBackoff * y
  <2>1. InitialBackoff \in Nat /\ y - x \in Nat
    BY <1>2, RetryAssumption
  <2>2. /\ InitialBackoff * x \in Nat /\ InitialBackoff * (y - x) \in Nat
        /\ InitialBackoff * y = InitialBackoff * x + InitialBackoff * (y - x)
    BY <2>1
  <2> QED BY <2>2
<1> QED BY <1>1, <1>2, RetryAssumption DEF CappedBackoff

\* Every delay the schedule may draw is at least the capped one.
LEMMA ScheduleBounded ==
    ASSUME NEW a \in Nat, NEW d \in BackoffFor(a)
    PROVE  d \in Int /\ d >= CappedBackoff(a)
<1>1. Factor(a) \in Int
  BY FactorGrows
<1>2. CappedBackoff(a) \in Int
  BY <1>1, RetryAssumption DEF CappedBackoff
<1> QED BY <1>2, RetryAssumption DEF BackoffFor

-----------------------------------------------------------------------------
\* Part 3: effects and outcomes.  Every effect, and every request the server
\* may yet process, has been paid for by an attempt, and the retry loop never
\* makes more attempts than the policy and the stack allow.

\* The attempts a call may have transmitted so far.
Transmitted(c) ==
    attempt[c] + IF pc[c] \in {"inflight", "drain", "body", "done"} THEN 1 ELSE 0

Outstanding(c) == {m \in wire : m[1] = c}

\* TypeOK without the limiter's variables, and that the wire is finite.
CallTypes ==
    /\ helper \in [Calls -> Helpers]
    /\ pc \in [Calls -> PC]
    /\ attempt \in [Calls -> 0..MaxRetries]
    /\ deadline \in [Calls -> Nat]
    /\ result \in [Calls -> AttemptResults]
    /\ delay \in [Calls -> Int]
    /\ wake \in [Calls -> Int]
    /\ outcome \in [Calls -> Outcomes]
    /\ wire \subseteq Calls \X (0..MaxRetries)
    /\ effects \in [Calls -> Nat]
    /\ notBefore \in [Calls -> Nat]
    /\ IsFiniteSet(wire)

\* The loop's own states are only reached in a stack that has it, and with a
\* retry left; a call that is not issued yet has made no attempt.
WithinPolicy(c) ==
    /\ pc[c] = "start" => attempt[c] = 0
    /\ pc[c] = "drain" => attempt[c] < MaxRetries
    /\ HasRetryLayer(c) \/ (attempt[c] = 0 /\ pc[c] \notin {"drain", "backoff"})

Paid(c) == effects[c] + Cardinality(Outstanding(c)) <= Transmitted(c)

\* A status by which a call that is sent once learns that it was not done.
Refusal(c, status) == ~ IsSuccess(status) /\ status < 500 /\ Budget(c) = 1

NotDone(c) == effects[c] = 0 /\ Outstanding(c) = {}

\* The response whose body is being read says what the server did.
ResponseTruthful(c) ==
    pc[c] = "body" =>
        /\ result[c].kind = "response"
        /\ IsSuccess(result[c].status) => effects[c] >= 1
        /\ Refusal(c, result[c].status) => NotDone(c)

\* So does what the method returned.
ReturnTruthful(c) ==
    /\ pc[c] # "done" => outcome[c] = Pending
    /\ outcome[c] = Ok => effects[c] >= 1
    /\ outcome[c].variant = "Api" =>
           /\ ~ IsSuccess(outcome[c].status)
           /\ Refusal(c, outcome[c].status) => NotDone(c)
    /\ outcome[c] = InvalidUrl => NotDone(c)

CallOk(c) == WithinPolicy(c) /\ Paid(c) /\ ResponseTruthful(c) /\ ReturnTruthful(c)

IInv == CallTypes /\ \A c \in Calls : CallOk(c)

-----------------------------------------------------------------------------
LEMMA OutstandingFinite ==
    ASSUME NEW c, IsFiniteSet(wire)
    PROVE  /\ IsFiniteSet(Outstanding(c))
           /\ Cardinality(Outstanding(c)) \in Nat
           /\ Cardinality(Outstanding(c)) = 0 <=> Outstanding(c) = {}
<1>1. Outstanding(c) \in SUBSET wire
  BY DEF Outstanding
<1>2. IsFiniteSet(Outstanding(c))
  BY <1>1, FS_Subset
<1>3. QED
  BY <1>2, FS_CardinalityType, FS_EmptySet

\* One request leaves the wire.
LEMMA OneServed ==
    ASSUME NEW c, NEW m \in wire, m[1] = c, IsFiniteSet(wire), wire' = wire \ {m}
    PROVE  /\ IsFiniteSet(wire')
           /\ Cardinality(Outstanding(c)') = Cardinality(Outstanding(c)) - 1
           /\ Cardinality(Outstanding(c)') \in Nat
           /\ Cardinality(Outstanding(c)') = 0 => Outstanding(c)' = {}
           /\ \A d : d # c => Outstanding(d)' = Outstanding(d)
<1>1. Outstanding(c)' = Outstanding(c) \ {m}
  BY DEF Outstanding
<1>2. m \in Outstanding(c)
  BY DEF Outstanding
<1>3. Cardinality(Outstanding(c)') = Cardinality(Outstanding(c)) - 1
  BY <1>1, <1>2, OutstandingFinite, FS_RemoveElement
<1>4. IsFiniteSet(wire')
  BY FS_RemoveElement
<1>5. IsFiniteSet(Outstanding(c)')
  BY <1>1, OutstandingFinite, FS_RemoveElement
<1>6. \A d : d # c => Outstanding(d)' = Outstanding(d)
  BY DEF Outstanding
<1>7. QED
  BY <1>3, <1>4, <1>5, <1>6, FS_CardinalityType, FS_EmptySet

\* One request is put on the wire.
LEMMA OneSent ==
    ASSUME NEW c, NEW a, IsFiniteSet(wire), wire' = wire \cup {<<c, a>>}
    PROVE  /\ IsFiniteSet(wire')
           /\ Cardinality(Outstanding(c)') <= Cardinality(Outstanding(c)) + 1
           /\ Cardinality(Outstanding(c)') \in Nat
           /\ \A d : d # c => Outstanding(d)' = Outstanding(d)
<1>1. Outstanding(c)' = Outstanding(c) \cup {<<c, a>>}
  BY DEF Outstanding
<1>2. /\ Cardinality(Outstanding(c)') <= Cardinality(Outstanding(c)) + 1
      /\ Cardinality(Outstanding(c)') \in Nat
  <2>1. IsFiniteSet(Outstanding(c)) /\ Cardinality(Outstanding(c)) \in Nat
    BY OutstandingFinite
  <2>2. Cardinality(Outstanding(c) \cup {<<c, a>>}) \in
            {Cardinality(Outstanding(c)), Cardinality(Outstanding(c)) + 1}
    BY <2>1, FS_AddElement
  <2>3. QED
    BY <1>1, <2>1, <2>2
<1>3. IsFiniteSet(wire')
  BY FS_AddElement
<1>4. \A d : d # c => Outstanding(d)' = Outstanding(d)
  BY DEF Outstanding
<1>5. QED
  BY <1>2, <1>3, <1>4

\* A call that a step leaves alone.
LEMMA Bystander ==
    ASSUME NEW d, CallOk(d), helper' = helper, pc'[d] = pc[d],
           attempt'[d] = attempt[d], effects'[d] = effects[d],
           outcome'[d] = outcome[d], result'[d] = result[d],
           Outstanding(d)' = Outstanding(d)
    PROVE  CallOk(d)'
BY DEF CallOk, WithinPolicy, Paid, ResponseTruthful, ReturnTruthful, NotDone,
       Refusal, Budget, HasRetryLayer, Transmitted, IsSuccess

\* The delays of decide_retry are numbers, and there are some only while the
\* stack and the policy allow a retry.
LEMMA DelaysOf ==
    ASSUME NEW c \in Calls, NEW res \in AttemptResults, NEW d \in Delays(c, res),
           attempt[c] \in Nat
    PROVE  d \in Int /\ HasRetryLayer(c) /\ attempt[c] < MaxRetries
<1>1. HasRetryLayer(c) /\ d \in RetryDelays(res, attempt[c])
  BY DEF Delays
<1>2. attempt[c] < MaxRetries
  BY <1>1, RetryAssumption DEF RetryDelays, Exhausted
<1>3. d = res.retryAfter \/ d \in BackoffFor(attempt[c])
  BY <1>1 DEF RetryDelays
<1>4. CASE d = res.retryAfter
  BY <1>1, <1>2, <1>4, ClientAssumption
     DEF AttemptResults, NoResult, TransportError, Response, NoHint
<1>5. CASE d \in BackoffFor(attempt[c])
  BY <1>1, <1>2, <1>5, ScheduleBounded
<1>6. QED
  BY <1>3, <1>4, <1>5

\* The end of an attempt, given that it was paid for and that a response tells
\* the truth.
LEMMA AttemptEndsInv ==
    ASSUME CallTypes, NEW c \in Calls, CallOk(c), NEW res \in AttemptResults,
           pc[c] \in {"send", "inflight"}, res.cause # "none" \/ res.kind = "response",
           AttemptEnds(c, res), IsFiniteSet(wire'), effects'[c] \in Nat,
           effects'[c] + Cardinality(Outstanding(c)') <= attempt[c] + 1,
           res.kind = "response" =>
               /\ IsSuccess(res.status) => effects'[c] >= 1
               /\ Refusal(c, res.status) => effects'[c] = 0 /\ Outstanding(c)' = {}
    PROVE  /\ CallOk(c)'
           /\ pc' \in [Calls -> PC] /\ deadline' \in [Calls -> Nat]
           /\ result' \in [Calls -> AttemptResults] /\ delay' \in [Calls -> Int]
           /\ outcome' \in [Calls -> Outcomes]
<1>1. /\ result'[c] = res
      /\ helper' = helper /\ attempt' = attempt
      /\ result' \in [Calls -> AttemptResults] /\ deadline' \in [Calls -> Nat]
  BY DEF AttemptEnds, CallTypes
<1>2. outcome[c] = Pending
  BY DEF CallOk, ReturnTruthful
<1>3. Refusal(c, res.status)' <=> Refusal(c, res.status)
  BY <1>1 DEF Refusal, Budget, IsSuccess, AttemptEnds
<1>4. ASSUME pc' = [pc EXCEPT ![c] = "drain"], outcome' = outcome,
             NEW d \in Delays(c, res), delay' = [delay EXCEPT ![c] = d]
      PROVE  CallOk(c)' /\ delay' \in [Calls -> Int]
  <2>1. d \in Int /\ HasRetryLayer(c) /\ attempt[c] < MaxRetries
    BY DelaysOf DEF CallTypes
  <2>2. pc'[c] = "drain"
    BY <1>4 DEF CallTypes
  <2>3. WithinPolicy(c)'
    BY <1>1, <2>1, <2>2 DEF WithinPolicy, HasRetryLayer
  <2>4. Paid(c)'
    BY <1>1, <2>2 DEF Paid, Transmitted
  <2>5. ResponseTruthful(c)' /\ ReturnTruthful(c)'
    BY <1>2, <1>4, <2>2 DEF ResponseTruthful, ReturnTruthful, Pending, Ok, InvalidUrl
  <2>6. delay' \in [Calls -> Int]
    BY <1>4, <2>1 DEF CallTypes
  <2>7. QED
    BY <2>3, <2>4, <2>5, <2>6 DEF CallOk
<1>5. ASSUME pc' = [pc EXCEPT ![c] = "body"], outcome' = outcome,
             res.kind = "response"
      PROVE  CallOk(c)'
  <2>1. pc'[c] = "body"
    BY <1>5 DEF CallTypes
  <2>2. WithinPolicy(c)'
    BY <1>1, <2>1 DEF CallOk, WithinPolicy, HasRetryLayer, AttemptEnds
  <2>3. Paid(c)'
    BY <1>1, <2>1 DEF Paid, Transmitted
  <2>4. ResponseTruthful(c)'
    BY <1>1, <1>3, <1>5 DEF ResponseTruthful, NotDone
  <2>5. ReturnTruthful(c)'
    BY <1>2, <1>5, <2>1 DEF ReturnTruthful, Pending, Ok, InvalidUrl
  <2>6. QED
    BY <2>2, <2>3, <2>4, <2>5 DEF CallOk
<1>6. ASSUME pc' = [pc EXCEPT ![c] = "done"], res.kind = "error",
             outcome' = [outcome EXCEPT ![c] = Http(res.cause)]
      PROVE  CallOk(c)' /\ outcome' \in [Calls -> Outcomes]
  <2>1. pc'[c] = "done" /\ outcome'[c] = Http(res.cause)
    BY <1>6 DEF CallTypes
  <2>2. WithinPolicy(c)'
    BY <1>1, <2>1 DEF CallOk, WithinPolicy, HasRetryLayer, AttemptEnds
  <2>3. Paid(c)'
    BY <1>1, <2>1 DEF Paid, Transmitted
  <2>4. ResponseTruthful(c)' /\ ReturnTruthful(c)'
    BY <2>1 DEF ResponseTruthful, ReturnTruthful, Http, Ok, InvalidUrl
  <2>5. res.cause \in Causes
    BY <1>6 DEF AttemptResults, NoResult, TransportError, Response
  <2>6. Http(res.cause) \in Outcomes
    BY <2>5 DEF Outcomes
  <2>7. QED
    BY <1>6, <2>2, <2>3, <2>4, <2>6 DEF CallOk, CallTypes
<1>7. QED
  BY <1>1, <1>4, <1>5, <1>6 DEF AttemptEnds, CallTypes, PC

-----------------------------------------------------------------------------
LEMMA InitIInv == Init => IInv
<1> SUFFICES ASSUME Init PROVE IInv
  OBVIOUS
<1>1. IsFiniteSet(wire)
  BY FS_EmptySet DEF Init
<1>2. CallTypes
  BY <1>1, RetryAssumption DEF CallTypes, Init, PC, AttemptResults, Outcomes
<1>3. ASSUME NEW c \in Calls PROVE CallOk(c)
  <2>1. Outstanding(c) = {} /\ Cardinality(Outstanding(c)) = 0
    BY FS_EmptySet DEF Outstanding, Init
  <2>2. QED
    BY <2>1 DEF CallOk, WithinPolicy, Paid, ResponseTruthful, ReturnTruthful,
                Transmitted, Init, Pending, Ok, InvalidUrl
<1>4. QED
  BY <1>2, <1>3 DEF IInv

\* The steps of one call.
LEMMA EnterInv ==
    ASSUME IInv, NEW c \in Calls, pc[c] \in {"start", "backoff"}, EnterInnerStack(c),
           wake' \in [Calls -> Int],
           UNCHANGED <<helper, attempt, deadline, result, delay, outcome, serverVars>>
    PROVE  IInv'
<1>1. pc'[c] \in {"limiter", "send"} /\ pc' \in [Calls -> PC]
  BY DEF EnterInnerStack, IInv, CallTypes, PC
<1>2. CallTypes'
  BY <1>1 DEF IInv, CallTypes, serverVars, AttemptResults, Outcomes
<1>3. \A d : Outstanding(d)' = Outstanding(d)
  BY DEF Outstanding, serverVars
<1>4. CallOk(c)'
  BY <1>1, <1>3 DEF IInv, CallOk, WithinPolicy, Paid, ResponseTruthful, ReturnTruthful,
     NotDone, Refusal, Budget, HasRetryLayer, Transmitted, IsSuccess, serverVars, Pending, Ok, InvalidUrl
<1>5. ASSUME NEW d \in Calls, d # c PROVE CallOk(d)'
  <2>1. pc'[d] = pc[d]
    BY <1>5 DEF EnterInnerStack, IInv, CallTypes
  <2>2. QED
    BY <1>3, <2>1, Bystander DEF IInv, serverVars
<1>6. QED
  BY <1>2, <1>4, <1>5 DEF IInv

LEMMA PermitInv ==
    ASSUME IInv, NEW c \in Calls, Permit(c)
    PROVE  IInv'
<1>1. pc[c] = "limiter" /\ pc'[c] = "send" /\ pc' \in [Calls -> PC]
  BY DEF Permit, IInv, CallTypes, PC
<1>2. CallTypes'
  BY <1>1 DEF Permit, IInv, CallTypes, callVars, serverVars, AttemptResults, Outcomes
<1>3. \A d : Outstanding(d)' = Outstanding(d)
  BY DEF Permit, Outstanding, serverVars
<1>4. CallOk(c)'
  BY <1>1, <1>3 DEF Permit, IInv, CallOk, WithinPolicy, Paid, ResponseTruthful,
     ReturnTruthful, NotDone, Refusal, Budget, HasRetryLayer, Transmitted, IsSuccess,
     callVars, serverVars, Pending, Ok, InvalidUrl
<1>5. ASSUME NEW d \in Calls, d # c PROVE CallOk(d)'
  <2>1. pc'[d] = pc[d]
    BY <1>5 DEF Permit, IInv, CallTypes
  <2>2. QED
    BY <1>3, <2>1, Bystander DEF Permit, IInv, callVars, serverVars
<1>6. QED
  BY <1>2, <1>4, <1>5 DEF IInv

LEMMA TransmitInv ==
    ASSUME IInv, NEW c \in Calls, Transmit(c), now \in Nat
    PROVE  IInv'
<1>1. /\ pc[c] = "send" /\ pc'[c] = "inflight" /\ pc' \in [Calls -> PC]
      /\ attempt'[c] = attempt[c] /\ effects'[c] = effects[c]
      /\ attempt[c] \in Nat /\ effects[c] \in Nat
  BY DEF Transmit, IInv, CallTypes, PC
<1>2. /\ IsFiniteSet(wire')
      /\ Cardinality(Outstanding(c)') <= Cardinality(Outstanding(c)) + 1
      /\ Cardinality(Outstanding(c)') \in Nat
      /\ \A d : d # c => Outstanding(d)' = Outstanding(d)
  BY OneSent DEF Transmit, IInv, CallTypes
<1>3. CallTypes'
  <2>1. wire' \subseteq Calls \X (0..MaxRetries)
    BY DEF Transmit, IInv, CallTypes
  <2>2. deadline' \in [Calls -> Nat] /\ notBefore' \in [Calls -> Nat]
    BY ClientAssumption DEF Transmit, IInv, CallTypes
  <2>3. QED
    BY <1>1, <1>2, <2>1, <2>2 DEF Transmit, IInv, CallTypes, AttemptResults, Outcomes
<1>4. CallOk(c)'
  <2>1. Cardinality(Outstanding(c)) \in Nat
    BY OutstandingFinite DEF IInv, CallTypes
  <2>2. Paid(c)'
    BY <1>1, <1>2, <2>1 DEF IInv, CallOk, Paid, Transmitted
  <2>3. WithinPolicy(c)' /\ ResponseTruthful(c)'
    BY <1>1 DEF Transmit, IInv, CallOk, WithinPolicy, ResponseTruthful, HasRetryLayer
  <2>4. ReturnTruthful(c)'
    BY <1>1 DEF Transmit, IInv, CallOk, ReturnTruthful, Pending, Ok, InvalidUrl
  <2>5. QED
    BY <2>2, <2>3, <2>4 DEF CallOk
<1>5. ASSUME NEW d \in Calls, d # c PROVE CallOk(d)'
  <2>1. pc'[d] = pc[d]
    BY <1>5 DEF Transmit, IInv, CallTypes
  <2>2. QED
    BY <1>2, <1>5, <2>1, Bystander DEF Transmit, IInv
<1>6. QED
  BY <1>3, <1>4, <1>5 DEF IInv

\* The transport fails while the request is sent or answered.
LEMMA TransportFailsInv ==
    ASSUME IInv, NEW c \in Calls, NEW cause \in Causes,
           pc[c] \in {"send", "inflight"}, AttemptEnds(c, TransportError(cause)),
           UNCHANGED <<wire, effects>>, notBefore' \in [Calls -> Nat]
    PROVE  IInv'
<1> DEFINE res == TransportError(cause)
<1>1. /\ res \in AttemptResults /\ res.kind = "error" /\ res.cause # "none"
      /\ \A d : Outstanding(d)' = Outstanding(d)
      /\ effects' \in [Calls -> Nat] /\ effects[c] \in Nat /\ attempt[c] \in Nat
      /\ effects[c] + Cardinality(Outstanding(c)) <= attempt[c] + 1
      /\ CallTypes /\ CallOk(c) /\ IsFiniteSet(wire')
  <2>1. Cardinality(Outstanding(c)) \in Nat
    BY OutstandingFinite DEF IInv, CallTypes
  <2>2. effects[c] + Cardinality(Outstanding(c)) <= attempt[c] + 1
    BY <2>1 DEF IInv, CallOk, Paid, Transmitted, CallTypes
  <2>3. res \in AttemptResults /\ res.kind = "error" /\ res.cause # "none"
    BY DEF AttemptResults, TransportError, Causes
  <2>4. QED
    BY <2>2, <2>3 DEF IInv, CallTypes, Outstanding
<1>2. /\ CallOk(c)'
      /\ pc' \in [Calls -> PC] /\ deadline' \in [Calls -> Nat]
      /\ result' \in [Calls -> AttemptResults] /\ delay' \in [Calls -> Int]
      /\ outcome' \in [Calls -> Outcomes]
  <2>1. effects'[c] \in Nat /\ effects'[c] + Cardinality(Outstanding(c)') <= attempt[c] + 1
    BY <1>1
  <2> HIDE DEF res
  <2>2. QED
    BY <1>1, <2>1, AttemptEndsInv DEF res
<1>3. CallTypes'
  BY <1>1, <1>2 DEF AttemptEnds, CallTypes
<1>4. ASSUME NEW d \in Calls, d # c PROVE CallOk(d)'
  <2>1. /\ pc'[d] = pc[d] /\ outcome'[d] = outcome[d] /\ result'[d] = result[d]
    BY <1>4 DEF AttemptEnds, IInv, CallTypes
  <2>2. QED
    BY <1>1, <2>1, Bystander DEF AttemptEnds, IInv
<1>5. QED
  BY <1>2, <1>3, <1>4 DEF IInv

\* The server answers the current attempt.
LEMMA AnswerInv ==
    ASSUME IInv, NEW c \in Calls, Answer(c), now \in Nat
    PROVE  IInv'
<1> DEFINE m == <<c, attempt[c]>>
<1>0. PICK status \in Statuses :
          \E hint \in Hints(status), n \in CarriedOut(status) :
              /\ effects' = [effects EXCEPT ![c] = @ + n]
              /\ notBefore' =
                     [notBefore EXCEPT ![c] = IF hint = NoHint THEN 0 ELSE now + hint]
              /\ AttemptEnds(c, Response(status, hint))
  BY Zenon DEF Answer
<1>1. PICK hint \in Hints(status), n \in CarriedOut(status) :
          /\ effects' = [effects EXCEPT ![c] = @ + n]
          /\ notBefore' = [notBefore EXCEPT ![c] = IF hint = NoHint THEN 0 ELSE now + hint]
          /\ AttemptEnds(c, Response(status, hint))
  BY <1>0, Zenon
<1> DEFINE res == Response(status, hint)
<1>2. /\ res \in AttemptResults /\ res.kind = "response" /\ res.status = status
      /\ hint \in RetryAfters \cup {NoHint}
  BY DEF AttemptResults, Response, Hints
<1>3. /\ n \in {0, 1}
      /\ IsSuccess(status) => n = 1
      /\ ~ IsSuccess(status) /\ status < 500 => n = 0
  BY DEF CarriedOut, IsSuccess, IsServerError
<1>4. /\ m \in wire /\ wire' = wire \ {m} /\ pc[c] = "inflight"
      /\ CallTypes /\ CallOk(c)
      /\ effects[c] \in Nat /\ attempt[c] \in Nat /\ IsFiniteSet(wire)
      /\ effects'[c] = effects[c] + n /\ effects' \in [Calls -> Nat]
  BY <1>1, <1>3 DEF Answer, IInv, CallTypes
<1>5. /\ IsFiniteSet(wire')
      /\ Cardinality(Outstanding(c)') = Cardinality(Outstanding(c)) - 1
      /\ Cardinality(Outstanding(c)') \in Nat
      /\ Cardinality(Outstanding(c)') = 0 => Outstanding(c)' = {}
      /\ \A d : d # c => Outstanding(d)' = Outstanding(d)
  BY <1>4, OneServed
<1>6. Cardinality(Outstanding(c)) \in Nat
  BY <1>4, OutstandingFinite
<1>7. effects'[c] + Cardinality(Outstanding(c)') <= attempt[c] + 1
  BY <1>3, <1>4, <1>5, <1>6 DEF CallOk, Paid, Transmitted
<1>8. IsSuccess(res.status) => effects'[c] >= 1
  BY <1>2, <1>3, <1>4
<1>9. ASSUME Refusal(c, res.status)
      PROVE  effects'[c] = 0 /\ Outstanding(c)' = {}
  <2>1. n = 0 /\ attempt[c] = 0
    BY <1>2, <1>3, <1>4, <1>9, RetryAssumption
       DEF Refusal, Budget, CallOk, WithinPolicy, CallTypes, HasRetryLayer
  <2>2. QED
    BY <1>4, <1>5, <1>6, <1>7, <2>1 DEF CallOk, Paid, Transmitted
<1>10. /\ CallOk(c)'
       /\ pc' \in [Calls -> PC] /\ deadline' \in [Calls -> Nat]
       /\ result' \in [Calls -> AttemptResults] /\ delay' \in [Calls -> Int]
       /\ outcome' \in [Calls -> Outcomes]
  <2>1. AttemptEnds(c, res)
    BY <1>1
  <2>2. effects'[c] \in Nat
    BY <1>4
  <2> HIDE DEF res, m
  <2>3. QED
    BY <1>2, <1>4, <1>5, <1>7, <1>8, <1>9, <2>1, <2>2, AttemptEndsInv
<1>11. CallTypes'
  <2>1. notBefore' \in [Calls -> Nat]
    BY <1>1, <1>2, ClientAssumption DEF IInv, CallTypes, NoHint
  <2>2. wire' \subseteq Calls \X (0..MaxRetries)
    BY <1>4 DEF CallTypes
  <2>3. QED
    BY <1>1, <1>4, <1>5, <1>10, <2>1, <2>2 DEF AttemptEnds, CallTypes
<1>12. ASSUME NEW d \in Calls, d # c PROVE CallOk(d)'
  <2>1. /\ pc'[d] = pc[d] /\ outcome'[d] = outcome[d] /\ result'[d] = result[d]
        /\ effects'[d] = effects[d]
    BY <1>1, <1>12 DEF AttemptEnds, IInv, CallTypes
  <2>2. QED
    BY <1>1, <1>5, <1>12, <2>1, Bystander DEF AttemptEnds, IInv
<1>13. QED
  BY <1>10, <1>11, <1>12 DEF IInv

\* The server carries out a request whose response does not arrive.
LEMMA ServeUnheardInv ==
    ASSUME IInv, NEW c \in Calls, ServeUnheard(c)
    PROVE  IInv'
<1>1. PICK m \in wire :
          /\ m[1] = c
          /\ wire' = wire \ {m}
          /\ effects' = [effects EXCEPT ![c] = @ + 1]
          /\ UNCHANGED <<helper, pc, callVars, outcome, notBefore, now, limiterVars>>
  BY DEF ServeUnheard
<1>2. /\ IsFiniteSet(wire')
      /\ Cardinality(Outstanding(c)') = Cardinality(Outstanding(c)) - 1
      /\ Outstanding(c) # {}
      /\ \A d : d # c => Outstanding(d)' = Outstanding(d)
  <2>1. IsFiniteSet(wire) /\ Outstanding(c) # {}
    BY <1>1 DEF IInv, CallTypes, Outstanding
  <2>2. QED
    BY <1>1, <2>1, OneServed
<1>3. Cardinality(Outstanding(c)) \in Nat
  BY OutstandingFinite DEF IInv, CallTypes
<1>4. effects' \in [Calls -> Nat] /\ effects'[c] = effects[c] + 1 /\ effects[c] \in Nat
  BY <1>1 DEF IInv, CallTypes
<1>5. CallTypes'
  <2>1. wire' \subseteq Calls \X (0..MaxRetries)
    BY <1>1 DEF IInv, CallTypes
  <2>2. QED
    BY <1>1, <1>2, <1>4, <2>1 DEF IInv, CallTypes, callVars, AttemptResults, Outcomes
<1>6. CallOk(c)'
  <2>1. Paid(c)' /\ WithinPolicy(c)'
    BY <1>1, <1>2, <1>3, <1>4 DEF IInv, CallTypes, CallOk, Paid, Transmitted, WithinPolicy,
       HasRetryLayer, callVars
  <2>2. ResponseTruthful(c)' /\ ReturnTruthful(c)'
    BY <1>1, <1>2, <1>4 DEF IInv, CallOk, ResponseTruthful, ReturnTruthful, NotDone,
       Refusal, Budget, IsSuccess, callVars
  <2>3. QED
    BY <2>1, <2>2 DEF CallOk
<1>7. ASSUME NEW d \in Calls, d # c PROVE CallOk(d)'
  BY <1>1, <1>2, <1>7, Bystander DEF IInv, CallTypes, callVars
<1>8. QED
  BY <1>5, <1>6, <1>7 DEF IInv

LEMMA StartSleepInv ==
    ASSUME IInv, NEW c \in Calls, StartSleep(c), now \in Nat
    PROVE  IInv'
<1>1. /\ pc[c] = "drain" /\ pc'[c] = "backoff" /\ pc' \in [Calls -> PC]
      /\ attempt[c] < MaxRetries /\ attempt[c] \in Nat
      /\ attempt'[c] = attempt[c] + 1 /\ attempt' \in [Calls -> 0..MaxRetries]
      /\ HasRetryLayer(c)
  <2>1. pc[c] = "drain" /\ pc'[c] = "backoff" /\ pc' \in [Calls -> PC]
    BY DEF StartSleep, IInv, CallTypes, PC
  <2>2. attempt[c] < MaxRetries /\ attempt[c] \in Nat /\ HasRetryLayer(c)
    BY <2>1 DEF IInv, CallTypes, CallOk, WithinPolicy
  <2>3. QED
    BY <2>1, <2>2, RetryAssumption DEF StartSleep, IInv, CallTypes
<1>2. CallTypes'
  <2>1. wake' \in [Calls -> Int] /\ delay' \in [Calls -> Int] /\ deadline' \in [Calls -> Nat]
    BY DEF StartSleep, IInv, CallTypes
  <2>2. QED
    BY <1>1, <2>1 DEF StartSleep, serverVars, IInv, CallTypes, AttemptResults, Outcomes
<1>3. \A d : Outstanding(d)' = Outstanding(d)
  BY DEF StartSleep, Outstanding, serverVars
<1>4. CallOk(c)'
  <2>1. Paid(c)' /\ WithinPolicy(c)'
    BY <1>1, <1>3 DEF StartSleep, serverVars, IInv, CallOk, Paid, Transmitted,
       WithinPolicy, HasRetryLayer
  <2>2. ResponseTruthful(c)' /\ ReturnTruthful(c)'
    BY <1>1, <1>3 DEF StartSleep, serverVars, IInv, CallOk, ResponseTruthful,
       ReturnTruthful, Pending, Ok, InvalidUrl
  <2>3. QED
    BY <2>1, <2>2 DEF CallOk
<1>5. ASSUME NEW d \in Calls, d # c PROVE CallOk(d)'
  BY <1>3, <1>5, Bystander DEF StartSleep, serverVars, IInv, CallTypes
<1>6. QED
  BY <1>2, <1>4, <1>5 DEF IInv

\* The method returns what it made of a response's body, or that it could not
\* begin.
LEMMA FinishInv ==
    ASSUME IInv, NEW c \in Calls, NEW res \in Outcomes, Finish(c, res),
           \/ pc[c] = "start" /\ res = InvalidUrl
           \/ /\ pc[c] = "body" /\ res # InvalidUrl
              /\ res = Ok => IsSuccess(result[c].status)
              /\ res.variant = "Api" => /\ res.status = result[c].status
                                        /\ ~ IsSuccess(res.status)
    PROVE  IInv'
<1>1. /\ pc'[c] = "done" /\ pc' \in [Calls -> PC]
      /\ outcome'[c] = res /\ outcome' \in [Calls -> Outcomes]
  BY DEF Finish, IInv, CallTypes, PC
<1>2. CallTypes'
  BY <1>1 DEF Finish, serverVars, IInv, CallTypes, AttemptResults
<1>3. \A d : Outstanding(d)' = Outstanding(d)
  BY DEF Finish, Outstanding, serverVars
<1>4. CallOk(c)'
  <2>1. WithinPolicy(c)' /\ ResponseTruthful(c)'
    BY <1>1 DEF Finish, IInv, CallOk, WithinPolicy, HasRetryLayer, ResponseTruthful
  <2>2. Paid(c)' /\ (pc[c] = "start" => NotDone(c))
    <3>1. /\ Cardinality(Outstanding(c)) \in Nat /\ effects[c] \in Nat
          /\ attempt[c] \in Nat
          /\ Cardinality(Outstanding(c)) = 0 <=> Outstanding(c) = {}
      BY OutstandingFinite, RetryAssumption DEF IInv, CallTypes
    <3>2. effects[c] + Cardinality(Outstanding(c)) <= Transmitted(c)
      BY DEF IInv, CallOk, Paid
    <3>3. pc[c] = "start" => Transmitted(c) = 0
      BY DEF IInv, CallOk, WithinPolicy, Transmitted
    <3>4. Transmitted(c)' >= Transmitted(c) /\ Transmitted(c) \in Nat /\ Transmitted(c)' \in Nat
      BY <1>1, <3>1 DEF Finish, Transmitted
    <3>5. effects' = effects /\ Outstanding(c)' = Outstanding(c)
      BY <1>3 DEF Finish, serverVars
    <3>6. QED
      BY <3>1, <3>2, <3>3, <3>4, <3>5 DEF Paid, NotDone
  <2>3. ReturnTruthful(c)'
    <3>1. CASE pc[c] = "start" /\ res = InvalidUrl
      BY <1>1, <1>3, <2>2, <3>1 DEF Finish, serverVars, ReturnTruthful, NotDone, InvalidUrl, Ok
    <3>2. CASE pc[c] # "start"
      BY <1>1, <1>3, <3>2 DEF Finish, serverVars, IInv, CallOk, ResponseTruthful,
         ReturnTruthful, NotDone, Refusal, Budget, IsSuccess
    <3>3. QED
      BY <3>1, <3>2
  <2>4. QED
    BY <2>1, <2>2, <2>3 DEF CallOk
<1>5. ASSUME NEW d \in Calls, d # c PROVE CallOk(d)'
  BY <1>3, <1>5, Bystander DEF Finish, serverVars, IInv, CallTypes
<1>6. QED
  BY <1>2, <1>4, <1>5 DEF IInv

-----------------------------------------------------------------------------
LEMMA LimiterTyped == Spec => []Limiter!TypeOK
<1>1. LP!Spec => []LP!TypeOK
  BY LP!TypeCorrect, LimiterConstants, PTL
<1>2. LP!TypeOK <=> Limiter!TypeOK
  BY DEF LP!TypeOK, Limiter!TypeOK, LP!PC, Limiter!PC
<1>3. LimiterSpec => LP!Spec
  BY SameLimiter, PTL DEF LimiterSpec, Limiter!Spec, LP!Spec
<1>4. QED
  BY <1>1, <1>2, <1>3, LimiterRefined, PTL

LEMMA NextIInv == IInv /\ Limiter!TypeOK /\ [Next]_vars => IInv'
<1> SUFFICES ASSUME IInv, Limiter!TypeOK, [Next]_vars
             PROVE  IInv'
  OBVIOUS
<1>1. now \in Nat
  BY DEF Limiter!TypeOK
<1>2. ASSUME UNCHANGED <<helper, pc, callVars, outcome, serverVars>>
      PROVE  IInv'
  <2>1. CallTypes'
    BY <1>2 DEF IInv, CallTypes, callVars, serverVars, AttemptResults, Outcomes
  <2>2. ASSUME NEW d \in Calls PROVE CallOk(d)'
    BY <1>2, Bystander DEF IInv, callVars, serverVars, Outstanding
  <2>3. QED
    BY <2>1, <2>2 DEF IInv
<1>3. CASE Tick \/ UNCHANGED vars
  BY <1>2, <1>3 DEF Tick, vars
<1>4. ASSUME NEW c \in Calls, Issue(c) PROVE IInv'
  <2>1. wake' \in [Calls -> Int]
    BY <1>4 DEF Issue, callVars, IInv, CallTypes
  <2>2. QED
    BY <1>4, <2>1, EnterInv DEF Issue, callVars
<1>4a. ASSUME NEW c \in Calls, RejectUrl(c) PROVE IInv'
  BY <1>4a, FinishInv DEF RejectUrl, Outcomes
<1>5. ASSUME NEW c \in Calls, Advance(c) PROVE IInv'
  <2>1. CASE WaitForPermit(c)
    BY <1>2, <2>1 DEF WaitForPermit
  <2>2. CASE Permit(c)
    BY <2>2, PermitInv
  <2>3. CASE Transmit(c)
    BY <1>1, <2>3, TransmitInv
  <2>4. CASE TimesOut(c)
    BY <2>4, TransportFailsInv DEF TimesOut, serverVars, Causes, IInv, CallTypes
  <2>5. CASE StartSleep(c)
    BY <1>1, <2>5, StartSleepInv
  <2>6. CASE Retry(c)
    <3>1. wake' \in [Calls -> Int]
      BY <2>6 DEF Retry, IInv, CallTypes
    <3>2. QED
      BY <2>6, <3>1, EnterInv DEF Retry
  <2>7. CASE SkipBody(c)
    BY <2>7, FinishInv DEF SkipBody, NoContent, Outcomes, Ok, InvalidUrl
  <2>8. CASE BodyTimesOut(c)
    BY <2>8, FinishInv DEF BodyTimesOut, Outcomes, Http, Ok, InvalidUrl, Causes
  <2>9. QED
    BY <1>5, <2>1, <2>2, <2>3, <2>4, <2>5, <2>6, <2>7, <2>8 DEF Advance
<1>6. ASSUME NEW c \in Calls, Environment(c) PROVE IInv'
  <2>1. CASE ConnectFails(c)
    BY <2>1, TransportFailsInv DEF ConnectFails, Causes, IInv, CallTypes
  <2>2. CASE ConnectionLost(c)
    BY <2>2, TransportFailsInv DEF ConnectionLost, serverVars, Causes, IInv, CallTypes
  <2>3. CASE Answer(c)
    BY <1>1, <2>3, AnswerInv
  <2>4. CASE ServeUnheard(c)
    BY <2>4, ServeUnheardInv
  <2>5. CASE StartSleep(c)
    BY <1>1, <2>5, StartSleepInv
  <2>6. CASE ReadBody(c)
    <3>1. CASE IsSuccess(result[c].status) /\ Finish(c, Ok)
      BY <2>6, <3>1, FinishInv DEF ReadBody, Outcomes, Ok, InvalidUrl
    <3>2. CASE Finish(c, Http("decode"))
      BY <2>6, <3>2, FinishInv DEF ReadBody, Outcomes, Ok, InvalidUrl, Http
    <3>3. CASE ~ IsSuccess(result[c].status) /\ Finish(c, Api(result[c].status))
      <4>1. result[c].status \in Statuses
        BY <2>6 DEF ReadBody, IInv, CallTypes, CallOk, ResponseTruthful, AttemptResults,
           NoResult, TransportError, Response
      <4>2. Api(result[c].status) \in Outcomes
        BY <4>1 DEF Outcomes
      <4>3. QED
        BY <2>6, <3>3, <4>2, FinishInv DEF ReadBody, Ok, InvalidUrl, Api
    <3>4. QED
      BY <2>6, <3>1, <3>2, <3>3 DEF ReadBody
  <2>7. CASE BodyLost(c)
    BY <2>7, FinishInv DEF BodyLost, Outcomes, Http, Ok, InvalidUrl, Causes
  <2>8. QED
    BY <1>6, <2>1, <2>2, <2>3, <2>4, <2>5, <2>6, <2>7 DEF Environment
<1>7. QED
  BY <1>3, <1>4, <1>4a, <1>5, <1>6 DEF Next

\* IInv is inductive, and an invariant.
THEOREM Inductive == Spec => []IInv
<1>1. QED
  BY InitIInv, NextIInv, LimiterTyped, PTL DEF Spec

\* Every variable keeps its type, whatever the policy and the server.
THEOREM TypeCorrect == Spec => []TypeOK
<1>1. IInv /\ Limiter!TypeOK => TypeOK
  BY DEF IInv, CallTypes, TypeOK
<1>2. QED
  BY <1>1, Inductive, LimiterTyped, PTL

\* What was carried out and what may yet be stays within the budget.
LEMMA WithinBudget ==
    ASSUME IInv, NEW c \in Calls
    PROVE  /\ effects[c] \in Nat /\ Cardinality(Outstanding(c)) \in Nat
           /\ Budget(c) \in 1..(MaxRetries + 1)
           /\ effects[c] + Cardinality(Outstanding(c)) <= Budget(c)
           /\ effects[c] <= Budget(c)
<1>1. Cardinality(Outstanding(c)) \in Nat
  BY OutstandingFinite DEF IInv, CallTypes
<1>2. /\ effects[c] \in Nat /\ Transmitted(c) \in Nat
      /\ effects[c] + Cardinality(Outstanding(c)) <= Transmitted(c)
  BY <1>1, RetryAssumption DEF IInv, CallTypes, CallOk, Paid, Transmitted
<1>3. Transmitted(c) <= Budget(c) /\ Budget(c) \in 1..(MaxRetries + 1)
  BY RetryAssumption DEF IInv, CallTypes, CallOk, WithinPolicy, Transmitted, Budget,
     HasRetryLayer
<1>4. QED
  BY <1>1, <1>2, <1>3

\* No mutation is carried out twice unless the user asked for retries, and
\* nothing more often than max_retries + 1, however answers are lost or late.
THEOREM EffectsBoundedHolds == Spec => []EffectsBounded
<1>1. IInv => EffectsBounded
  BY WithinBudget DEF EffectsBounded
<1>2. QED
  BY <1>1, Inductive, PTL

\* What a method returns is what the server did, for every helper.
THEOREM OutcomeTruthfulHolds == Spec => []OutcomeTruthful
<1>1. IInv => OutcomeTruthful
  BY DEF IInv, CallOk, ReturnTruthful, OutcomeTruthful, Refusal, NotDone, Outstanding
<1>2. QED
  BY <1>1, Inductive, PTL

-----------------------------------------------------------------------------
\* Part 4: the client implements CallContract.

LEMMA AbstractOutcomeOf ==
    ASSUME NEW c \in Calls, outcome[c] \in Outcomes
    PROVE  /\ AbstractOutcome(c) = "pending" <=> outcome[c] = Pending
           /\ AbstractOutcome(c) = "ok" <=> outcome[c] = Ok
           /\ AbstractOutcome(c) = "refused"
                  <=> \/ outcome[c].variant = "Api" /\ outcome[c].status < 500
                      \/ outcome[c] = InvalidUrl
           /\ AbstractOutcome(c) \in {"pending", "ok", "refused", "unknown"}
BY DEF AbstractOutcome, Outcomes, Pending, Ok, InvalidUrl, Http, Api

\* The abstract variables only depend on helper, effects and outcome.
LEMMA AbstractSame ==
    ASSUME helper' = helper
    PROVE  [c \in Calls |-> Budget(c)]' = [c \in Calls |-> Budget(c)]
BY DEF Budget

LEMMA ApplyMaps ==
    ASSUME IInv, NEW c \in Calls, Outstanding(c) # {},
           effects' = [effects EXCEPT ![c] = @ + 1], helper' = helper, outcome' = outcome
    PROVE  Contract!Apply(c)
<1>1. Cardinality(Outstanding(c)) >= 1
  <2>1. Cardinality(Outstanding(c)) # 0
    BY OutstandingFinite DEF IInv, CallTypes
  <2>2. QED
    BY <2>1, WithinBudget
<1>2. effects[c] < Budget(c)
  BY <1>1, WithinBudget
<1>3. Budget(c) = 1 => AbstractOutcome(c) \in {"pending", "unknown"}
  <2>1. outcome[c] \in Outcomes
    BY DEF IInv, CallTypes
  <2>2. Budget(c) = 1 => outcome[c] # Ok
    BY <1>1, WithinBudget DEF IInv, CallOk, ReturnTruthful
  <2>3. Budget(c) = 1 => ~ (outcome[c].variant = "Api" /\ outcome[c].status < 500)
    BY DEF IInv, CallOk, ReturnTruthful, Refusal, NotDone
  <2>4. outcome[c] # InvalidUrl
    BY DEF IInv, CallOk, ReturnTruthful, NotDone
  <2>5. QED
    BY <2>1, <2>2, <2>3, <2>4, AbstractOutcomeOf
<1>4. UNCHANGED [d \in Calls |-> AbstractOutcome(d)]
  BY DEF AbstractOutcome
<1>5. QED
  BY <1>2, <1>3, <1>4, AbstractSame DEF Contract!Apply

LEMMA ReturnMaps ==
    ASSUME IInv, IInv', NEW c \in Calls, NEW res \in Outcomes, outcome[c] = Pending,
           outcome' = [outcome EXCEPT ![c] = res], res # Pending,
           effects' = effects, helper' = helper
    PROVE  \E r \in Contract!Results : Contract!Return(c, r)
<1> DEFINE r == AbstractOutcome(c)'
<1>1. outcome[c] \in Outcomes /\ outcome'[c] = res /\ outcome'[c] \in Outcomes
  BY DEF IInv, CallTypes
<1>2. /\ r = "ok" <=> outcome'[c] = Ok
      /\ r = "refused" <=> \/ outcome'[c].variant = "Api" /\ outcome'[c].status < 500
                           \/ outcome'[c] = InvalidUrl
      /\ r \in {"ok", "refused", "unknown"}
  BY <1>1 DEF AbstractOutcome, Outcomes, Pending, Ok, InvalidUrl, Http, Api
<1>3. AbstractOutcome(c) = "pending"
  BY <1>1, AbstractOutcomeOf
<1>4. r = "ok" => effects[c] >= 1
  BY <1>2 DEF IInv, CallOk, ReturnTruthful
<1>5. r = "refused" /\ Budget(c) = 1 => effects[c] = 0
  BY <1>2 DEF IInv, CallOk, ReturnTruthful, Refusal, NotDone, Budget
<1>6. [d \in Calls |-> AbstractOutcome(d)]' =
          [[d \in Calls |-> AbstractOutcome(d)] EXCEPT ![c] = r]
  <2>1. ASSUME NEW d \in Calls, d # c PROVE AbstractOutcome(d)' = AbstractOutcome(d)
    <3>1. outcome'[d] = outcome[d]
      BY <2>1 DEF IInv, CallTypes
    <3>2. QED
      BY <3>1 DEF AbstractOutcome
  <2> HIDE DEF r
  <2>2. [d \in Calls |-> AbstractOutcome(d)'] =
            [[d \in Calls |-> AbstractOutcome(d)] EXCEPT ![c] = AbstractOutcome(c)']
    BY <2>1
  <2>3. QED
    BY <2>2 DEF r
<1>7. r \in Contract!Results
  BY <1>2 DEF Contract!Results
<1> HIDE DEF r
<1>8. Contract!Return(c, r)
  BY <1>3, <1>4, <1>5, <1>6, AbstractSame DEF Contract!Return
<1>9. QED
  BY <1>7, <1>8

\* A step that the caller cannot tell from none.
LEMMA StutterMaps ==
    ASSUME helper' = helper, effects' = effects, outcome' = outcome
    PROVE  UNCHANGED Contract!vars
<1>1. [d \in Calls |-> AbstractOutcome(d)]' = [d \in Calls |-> AbstractOutcome(d)]
  BY DEF AbstractOutcome
<1>2. QED
  BY <1>1, AbstractSame DEF Contract!vars

\* The end of an attempt is the method's return if it failed in transport.
LEMMA AttemptEndsMaps ==
    ASSUME IInv, IInv', NEW c \in Calls, NEW res \in AttemptResults,
           pc[c] # "done", AttemptEnds(c, res), effects' = effects
    PROVE  [Contract!Next]_(Contract!vars)
<1>1. CASE outcome' = outcome
  BY <1>1, StutterMaps DEF AttemptEnds
<1>2. CASE res.kind = "error" /\ outcome' = [outcome EXCEPT ![c] = Http(res.cause)]
  <2>1. outcome[c] = Pending /\ Http(res.cause) # Pending
    BY DEF IInv, CallOk, ReturnTruthful, Http, Pending
  <2>2. outcome'[c] \in Outcomes /\ outcome'[c] = Http(res.cause)
    BY <1>2 DEF IInv, CallTypes
  <2>3. \E r \in Contract!Results : Contract!Return(c, r)
    BY <1>2, <2>1, <2>2, ReturnMaps DEF AttemptEnds
  <2>4. QED
    BY <2>3 DEF Contract!Next
<1>3. QED
  BY <1>1, <1>2 DEF AttemptEnds

LEMMA FinishMaps ==
    ASSUME IInv, IInv', NEW c \in Calls, NEW res, res # Pending, pc[c] # "done",
           Finish(c, res)
    PROVE  [Contract!Next]_(Contract!vars)
<1>1. outcome[c] = Pending
  BY DEF IInv, CallOk, ReturnTruthful
<1>2. outcome'[c] \in Outcomes /\ outcome'[c] = res
  BY DEF Finish, IInv, CallTypes
<1>3. \E r \in Contract!Results : Contract!Return(c, r)
  BY <1>1, <1>2, ReturnMaps DEF Finish, serverVars
<1>4. QED
  BY <1>3 DEF Contract!Next

\* A request that is answered is carried out at most once by it.
LEMMA AnswerMaps ==
    ASSUME IInv, NEW c \in Calls, Answer(c)
    PROVE  [Contract!Next]_(Contract!vars)
<1>1. PICK status \in Statuses :
          \E hint \in Hints(status), n \in CarriedOut(status) :
              /\ effects' = [effects EXCEPT ![c] = @ + n]
              /\ notBefore' =
                     [notBefore EXCEPT ![c] = IF hint = NoHint THEN 0 ELSE now + hint]
              /\ AttemptEnds(c, Response(status, hint))
  BY Zenon DEF Answer
<1>2. PICK hint \in Hints(status), n \in CarriedOut(status) :
          /\ effects' = [effects EXCEPT ![c] = @ + n]
          /\ AttemptEnds(c, Response(status, hint))
  BY <1>1, Zenon
<1>3. n \in {0, 1}
  BY DEF CarriedOut
<1>4. outcome' = outcome /\ helper' = helper
  BY <1>2 DEF AttemptEnds, Response
<1>5. CASE n = 0
  <2>1. effects' = effects
    BY <1>2, <1>5 DEF IInv, CallTypes
  <2>2. QED
    BY <1>4, <2>1, StutterMaps
<1>6. CASE n = 1
  <2>1. Outstanding(c) # {}
    BY DEF Answer, Outstanding
  <2>2. Contract!Apply(c)
    BY <1>2, <1>4, <1>6, <2>1, ApplyMaps
  <2>3. QED
    BY <2>2 DEF Contract!Next
<1>7. QED
  BY <1>3, <1>5, <1>6

LEMMA ContractStep == IInv /\ IInv' /\ [Next]_vars => [Contract!Next]_(Contract!vars)
<1> SUFFICES ASSUME IInv, IInv', [Next]_vars
             PROVE  [Contract!Next]_(Contract!vars)
  OBVIOUS
<1>1. CASE Tick \/ UNCHANGED vars
  BY <1>1, StutterMaps DEF Tick, vars, serverVars
<1>2. ASSUME NEW c \in Calls, Issue(c) \/ Retry(c) \/ StartSleep(c)
      PROVE  [Contract!Next]_(Contract!vars)
  BY <1>2, StutterMaps DEF Issue, Retry, StartSleep, serverVars
<1>3. ASSUME NEW c \in Calls, WaitForPermit(c) \/ Permit(c) \/ Transmit(c)
      PROVE  [Contract!Next]_(Contract!vars)
  BY <1>3, StutterMaps DEF WaitForPermit, Permit, Transmit, serverVars
<1>4. ASSUME NEW c \in Calls, TimesOut(c) \/ ConnectFails(c) \/ ConnectionLost(c)
      PROVE  [Contract!Next]_(Contract!vars)
  <2>1. PICK cause \in Causes : AttemptEnds(c, TransportError(cause))
    BY <1>4 DEF TimesOut, ConnectFails, ConnectionLost, Causes
  <2>2. TransportError(cause) \in AttemptResults
    BY DEF AttemptResults
  <2>3. pc[c] # "done" /\ effects' = effects
    BY <1>4 DEF TimesOut, ConnectFails, ConnectionLost, serverVars
  <2>4. QED
    BY <2>1, <2>2, <2>3, AttemptEndsMaps
<1>5. ASSUME NEW c \in Calls,
             RejectUrl(c) \/ SkipBody(c) \/ ReadBody(c) \/ BodyLost(c) \/ BodyTimesOut(c)
      PROVE  [Contract!Next]_(Contract!vars)
  <2>1. pc[c] # "done"
    BY <1>5 DEF RejectUrl, SkipBody, ReadBody, BodyLost, BodyTimesOut
  <2>2. PICK res : res # Pending /\ Finish(c, res)
    BY <1>5, Zenon DEF RejectUrl, SkipBody, ReadBody, BodyLost, BodyTimesOut, Ok, Http, Api,
                       InvalidUrl, Pending
  <2>3. QED
    BY <2>1, <2>2, FinishMaps
<1>6. ASSUME NEW c \in Calls, ServeUnheard(c)
      PROVE  [Contract!Next]_(Contract!vars)
  <2>1. Outstanding(c) # {}
    BY <1>6 DEF ServeUnheard, Outstanding
  <2>2. Contract!Apply(c)
    BY <1>6, <2>1, ApplyMaps DEF ServeUnheard
  <2>3. QED
    BY <2>2 DEF Contract!Next
<1>7. QED
  BY <1>1, <1>2, <1>3, <1>4, <1>5, <1>6, AnswerMaps DEF Next, Advance, Environment

\* Behind retries, timeouts, lost and late answers and the limiter, every
\* method keeps the contract of CallContract with its caller.
THEOREM ContractRefined == Spec => ContractSpec
<1>1. Init => Contract!Init
  <2> SUFFICES ASSUME Init PROVE Contract!Init
    OBVIOUS
  <2>1. \A c \in Calls : Budget(c) \in 1..(MaxRetries + 1)
    BY InitIInv, WithinBudget
  <2>2. [c \in Calls |-> AbstractOutcome(c)] = [c \in Calls |-> "pending"]
    <3>1. \A c \in Calls : outcome[c] = Pending
      BY DEF Init
    <3>2. \A c \in Calls : AbstractOutcome(c) = "pending"
      BY <3>1 DEF AbstractOutcome, Pending, InvalidUrl
    <3> QED BY <3>2
  <2>3. effects = [c \in Calls |-> 0]
    BY DEF Init
  <2>4. QED
    BY <2>1, <2>2, <2>3 DEF Contract!Init
<1>2. QED
  BY <1>1, ContractStep, Inductive, PTL DEF Spec, ContractSpec, Contract!Spec

\* The promise a caller of an unretried mutation relies on: carried out at
\* most once, once after Ok, and never after a refusal.
THEOREM ClientAtMostOnce == Spec => []Contract!AtMostOnce
<1>1. IInv => Contract!AtMostOnce
  <2> SUFFICES ASSUME IInv, NEW c \in Calls, Budget(c) = 1
               PROVE  /\ effects[c] <= 1
                      /\ AbstractOutcome(c) = "ok" => effects[c] = 1
                      /\ AbstractOutcome(c) = "refused" => effects[c] = 0
    BY DEF Contract!AtMostOnce
  <2>1. effects[c] \in Nat /\ effects[c] <= 1
    BY WithinBudget
  <2>2. outcome[c] \in Outcomes
    BY DEF IInv, CallTypes
  <2>3. outcome[c] = Ok => effects[c] >= 1
    BY DEF IInv, CallOk, ReturnTruthful
  <2>4. /\ outcome[c].variant = "Api" /\ outcome[c].status < 500 => effects[c] = 0
        /\ outcome[c] = InvalidUrl => effects[c] = 0
    BY DEF IInv, CallOk, ReturnTruthful, Refusal, NotDone
  <2>5. QED
    BY <2>1, <2>2, <2>3, <2>4, AbstractOutcomeOf
<1>2. QED
  BY <1>1, Inductive, PTL

-----------------------------------------------------------------------------
\* Part 5: what the retry loop does with a failure, for every policy, every
\* server and every number of calls: how long it sleeps at least, when it gives
\* up, and that every attempt it makes has paid for a permit of its own.

\* A delay that the server did not name is the schedule's.
Sleep(c) ==
    /\ pc[c] # "backoff" => wake[c] = 0
    /\ pc[c] = "drain" /\ ~ Hinted(result[c]) => delay[c] >= CappedBackoff(attempt[c])

\* An outcome that the policy retries as long as it can.
Transient(res) == res.status \in {408, 429} \cup 500..599 \/ res.cause \in {"timeout", "connect"}

\* The result that leaves the stack is one that is not retried, or the last, and
\* an error that leaves the stack is what the method returns.
Settled(c) ==
    /\ pc[c] = "start" => result[c] = NoResult
    /\ pc[c] \in {"body", "done"} =>
           (HasRetryLayer(c) /\ Transient(result[c]) => attempt[c] = MaxRetries)
    /\ pc[c] = "done" =>
           /\ outcome[c].variant = "Api" => outcome[c].status = result[c].status
           /\ outcome[c].variant = "Http" =>
                  result[c].kind = "response" \/ outcome[c].cause = result[c].cause

\* Where the time that a 429 named stands until the next attempt is sent.
Honoured(c) ==
    /\ Hinted(result[c]) =>
           /\ pc[c] = "drain" => notBefore[c] <= now + delay[c]
           /\ pc[c] = "backoff" => notBefore[c] <= wake[c]
           /\ pc[c] \in {"limiter", "send"} => notBefore[c] <= now
    /\ result[c].status = 429 /\ ~ Hinted(result[c]) => notBefore[c] = 0

PolicyOK(c) == Sleep(c) /\ Settled(c) /\ Honoured(c)

\* The schedule always has a delay to offer.
LEMMA NoDelayMeansStop ==
    ASSUME NEW res \in AttemptResults, NEW a \in 0..MaxRetries, RetryDelays(res, a) = {}
    PROVE  Transient(res) => a = MaxRetries
<1>1. CappedBackoff(a) + 0 \in BackoffFor(a)
  BY RetryAssumption DEF BackoffFor
<1>2. Exhausted(a) \/ ~ Retried(res)
  BY <1>1 DEF RetryDelays
<1>3. Exhausted(a) => a = MaxRetries
  BY RetryAssumption DEF Exhausted
<1>4. Transient(res) => Retried(res)
  <2>1. CASE res.kind = "response"
    <3>1. res.cause = "none"
      BY <2>1 DEF AttemptResults, NoResult, TransportError, Response
    <3> QED BY <2>1, <3>1 DEF Transient, Retried, RetriedStatus, IsServerError
  <2>2. CASE res.kind # "response"
    <3>1. res.status = 0
      BY <2>2 DEF AttemptResults, NoResult, TransportError, Response, NoStatus
    <3> QED BY <2>2, <3>1 DEF Transient, Retried, IsTransient
  <2> QED BY <2>1, <2>2
<1> QED BY <1>2, <1>3, <1>4

LEMMA PolicyInit == Init => \A c \in Calls : PolicyOK(c)
BY DEF Init, PolicyOK, Sleep, Settled, Honoured, Hinted, NoResult, TransportError, NoStatus

\* The end of an attempt.
LEMMA AttemptEndsPolicy ==
    ASSUME CallTypes, now \in Nat, NEW c \in Calls, PolicyOK(c), NEW res \in AttemptResults,
           CallOk(c), pc[c] \in {"send", "inflight"}, AttemptEnds(c, res),
           res.status = 429 =>
               notBefore'[c] = IF res.retryAfter = NoHint THEN 0 ELSE now + res.retryAfter
    PROVE  PolicyOK(c)'
<1>1. /\ result'[c] = res /\ attempt' = attempt /\ wake'[c] = 0 /\ now' = now
      /\ helper' = helper /\ attempt[c] \in 0..MaxRetries
  BY DEF AttemptEnds, CallTypes, PolicyOK, Sleep, limiterVars
<1>3. CASE \E d \in Delays(c, res) : /\ delay' = [delay EXCEPT ![c] = d]
                                      /\ pc' = [pc EXCEPT ![c] = "drain"]
  <2>1. PICK d \in Delays(c, res) : /\ delay' = [delay EXCEPT ![c] = d]
                                     /\ pc' = [pc EXCEPT ![c] = "drain"]
    BY <1>3
  <2>2. pc'[c] = "drain" /\ delay'[c] = d
    BY <2>1 DEF CallTypes
  <2>3. d \in RetryDelays(res, attempt[c])
    BY <2>1 DEF Delays
  <2>4. ~ Hinted(res) => d \in BackoffFor(attempt[c])
    BY <2>3 DEF RetryDelays
  <2>5. ~ Hinted(res) => d >= CappedBackoff(attempt[c])
    <3>1. attempt[c] \in Nat
      BY <1>1, RetryAssumption
    <3> QED BY <3>1, <2>4, ScheduleBounded
  <2>6. Hinted(res) => d = res.retryAfter
    BY <2>3 DEF RetryDelays
  <2>7. Hinted(res) => notBefore'[c] = now + d
    BY <2>6 DEF Hinted
  <2>8. d \in Int
    BY <2>1, <1>1, DelaysOf
  <2>9. Honoured(c)'
    BY <1>1, <2>2, <2>7, <2>8 DEF Honoured, Hinted
  <2> QED BY <1>1, <2>2, <2>5, <2>9 DEF PolicyOK, Sleep, Settled
<1>4. CASE Delays(c, res) = {} /\ (\/ pc' = [pc EXCEPT ![c] = "body"] /\ outcome' = outcome
                                   \/ /\ pc' = [pc EXCEPT ![c] = "done"]
                                      /\ outcome' = [outcome EXCEPT ![c] = Http(res.cause)])
  <2>1. /\ pc'[c] \in {"body", "done"}
        /\ pc'[c] = "done" => outcome'[c].variant = "Http" /\ outcome'[c].cause = res.cause
    BY <1>4 DEF CallTypes, Http
  <2>2. HasRetryLayer(c) => RetryDelays(res, attempt[c]) = {}
    BY <1>4 DEF Delays
  <2>3. (HasRetryLayer(c) /\ Transient(res)) => attempt[c] = MaxRetries
    BY <1>1, <2>2, NoDelayMeansStop
  <2>4. Settled(c)'
    BY <1>1, <2>1, <2>3 DEF Settled, HasRetryLayer, Transient
  <2>5. Sleep(c)'
    BY <1>1, <2>1 DEF Sleep
  <2>6. Honoured(c)'
    BY <1>1, <2>1 DEF Honoured, Hinted
  <2> QED BY <2>4, <2>5, <2>6 DEF PolicyOK
<1> QED BY <1>3, <1>4 DEF AttemptEnds

\* A call that a step leaves alone.
LEMMA PolicyBystander ==
    ASSUME NEW d, PolicyOK(d), helper' = helper, pc'[d] = pc[d], now' = now,
           attempt'[d] = attempt[d], outcome'[d] = outcome[d], result'[d] = result[d],
           delay'[d] = delay[d], wake'[d] = wake[d], notBefore'[d] = notBefore[d]
    PROVE  PolicyOK(d)'
BY DEF PolicyOK, Sleep, Settled, Honoured, Hinted, HasRetryLayer, Transient

\* A call enters what is below its retry loop, or moves on there.
LEMMA MovePolicy ==
    ASSUME CallTypes, NEW c \in Calls, PolicyOK(c), helper' = helper, attempt' = attempt,
           outcome' = outcome, result' = result, delay' = delay, wake'[c] = 0,
           now' = now, pc'[c] \in {"limiter", "send", "inflight"},
           pc[c] \in {"start", "limiter", "send"} \/ (pc[c] = "backoff" /\ wake[c] <= now),
           notBefore'[c] = notBefore[c] \/ (notBefore'[c] = 0 /\ pc'[c] = "inflight"),
           now \in Nat
    PROVE  PolicyOK(c)'
BY DEF PolicyOK, Sleep, Settled, Honoured, Hinted, CallTypes, NoResult, TransportError, NoStatus

LEMMA EnterPolicy ==
    ASSUME CallTypes, NEW c \in Calls, EnterInnerStack(c)
    PROVE  /\ pc'[c] \in {"limiter", "send"} /\ now' = now
           /\ \A d \in Calls : d # c => pc'[d] = pc[d]
BY DEF EnterInnerStack, CallTypes, Limiter!Arrive

\* The method returns.
LEMMA FinishPolicy ==
    ASSUME CallTypes, NEW c \in Calls, PolicyOK(c), CallOk(c), NEW res, Finish(c, res),
           \/ pc[c] = "start" /\ res = InvalidUrl
           \/ pc[c] = "body" /\ (res.variant = "Api" => res.status = result[c].status)
    PROVE  PolicyOK(c)'
<1>1. /\ pc'[c] = "done" /\ outcome'[c] = res /\ helper' = helper /\ attempt' = attempt
      /\ result' = result /\ wake' = wake /\ notBefore' = notBefore
  BY DEF Finish, CallTypes, serverVars
<1>2. CASE pc[c] = "start" /\ res = InvalidUrl
  <2>1. ~ Transient(result[c]) /\ ~ Hinted(result[c]) /\ result[c].status # 429
    BY <1>2 DEF PolicyOK, Settled, Transient, Hinted, NoResult, TransportError, NoStatus
  <2>2. res.variant \notin {"Api", "Http"}
    BY <1>2 DEF InvalidUrl
  <2> QED BY <1>1, <1>2, <2>1, <2>2
          DEF PolicyOK, Sleep, Settled, Honoured, HasRetryLayer, Transient
<1>3. CASE pc[c] = "body" /\ (res.variant = "Api" => res.status = result[c].status)
  <2>1. result[c].kind = "response"
    BY <1>3 DEF CallOk, ResponseTruthful
  <2> QED BY <1>1, <1>3, <2>1
          DEF PolicyOK, Sleep, Settled, Honoured, HasRetryLayer, Transient
<1> QED BY <1>2, <1>3

LEMMA FinishOthers ==
    ASSUME CallTypes, NEW c \in Calls, NEW res, Finish(c, res), NEW d \in Calls, d # c,
           PolicyOK(d)
    PROVE  PolicyOK(d)'
BY PolicyBystander DEF Finish, CallTypes, limiterVars, serverVars

LEMMA AttemptEndsOthers ==
    ASSUME CallTypes, NEW c \in Calls, NEW res, AttemptEnds(c, res), NEW d \in Calls, d # c,
           PolicyOK(d), notBefore'[d] = notBefore[d]
    PROVE  PolicyOK(d)'
<1>1. pc'[d] = pc[d] /\ outcome'[d] = outcome[d] /\ delay'[d] = delay[d]
  BY DEF AttemptEnds, CallTypes
<1>2. /\ helper' = helper /\ now' = now /\ attempt' = attempt /\ wake' = wake
      /\ result'[d] = result[d]
  BY DEF AttemptEnds, CallTypes
<1> QED BY <1>1, <1>2, PolicyBystander

LEMMA AdvancePolicy ==
    ASSUME IInv, now \in Nat, NEW c \in Calls, NEW d \in Calls, PolicyOK(c), PolicyOK(d),
           Issue(c) \/ WaitForPermit(c) \/ Permit(c) \/ Transmit(c) \/ Retry(c)
               \/ StartSleep(c) \/ ServeUnheard(c)
    PROVE  PolicyOK(d)'
<1>0. CallTypes
  BY DEF IInv
<1>1. CASE Issue(c)
  <2>1. wake[c] = 0 /\ pc[c] = "start"
    BY <1>1 DEF Issue, PolicyOK, Sleep
  <2>2. /\ helper' = helper /\ attempt' = attempt /\ result' = result /\ delay' = delay
        /\ wake' = wake /\ outcome' = outcome /\ notBefore' = notBefore
    BY <1>1 DEF Issue, callVars, serverVars
  <2>3. /\ pc'[c] \in {"limiter", "send"} /\ now' = now
        /\ \A e \in Calls : e # c => pc'[e] = pc[e]
    BY <1>0, <1>1, EnterPolicy DEF Issue
  <2>4. CASE d = c
    BY <1>0, <2>1, <2>2, <2>3, <2>4, MovePolicy
  <2>5. CASE d # c
    BY <2>2, <2>3, <2>5, PolicyBystander
  <2> QED BY <2>4, <2>5
<1>2. CASE WaitForPermit(c)
  <2>1. now' = now
    BY <1>2 DEF WaitForPermit, Limiter!ReadClock, Limiter!Deny, Limiter!Wake
  <2> QED BY <1>2, <2>1, PolicyBystander DEF WaitForPermit, callVars, serverVars
<1>3. CASE Permit(c)
  <2>1. now' = now /\ pc[c] = "limiter" /\ wake[c] = 0
    BY <1>3 DEF Permit, Limiter!Grant, PolicyOK, Sleep
  <2>2. /\ helper' = helper /\ attempt' = attempt /\ result' = result /\ delay' = delay
        /\ wake' = wake /\ outcome' = outcome /\ notBefore' = notBefore
        /\ pc'[c] = "send" /\ (d # c => pc'[d] = pc[d])
    BY <1>0, <1>3 DEF Permit, callVars, serverVars, CallTypes
  <2>3. CASE d = c
    BY <1>0, <2>1, <2>2, <2>3, MovePolicy
  <2>4. CASE d # c
    BY <2>1, <2>2, <2>4, PolicyBystander
  <2> QED BY <2>3, <2>4
<1>4. CASE Transmit(c)
  <2>1. now' = now /\ pc[c] = "send" /\ wake[c] = 0
    BY <1>4 DEF Transmit, PolicyOK, Sleep
  <2>2. /\ helper' = helper /\ attempt' = attempt /\ result' = result /\ delay' = delay
        /\ wake' = wake /\ outcome' = outcome
        /\ pc'[c] = "inflight" /\ notBefore'[c] = 0
        /\ (d # c => pc'[d] = pc[d] /\ notBefore'[d] = notBefore[d])
    BY <1>0, <1>4 DEF Transmit, CallTypes
  <2>3. CASE d = c
    BY <1>0, <2>1, <2>2, <2>3, MovePolicy
  <2>4. CASE d # c
    BY <2>1, <2>2, <2>4, PolicyBystander
  <2> QED BY <2>3, <2>4
<1>5. CASE Retry(c)
  <2>1. /\ helper' = helper /\ attempt' = attempt /\ result' = result /\ delay' = delay
        /\ outcome' = outcome /\ notBefore' = notBefore
        /\ pc[c] = "backoff" /\ wake[c] <= now
        /\ wake'[c] = 0 /\ (d # c => wake'[d] = wake[d])
    BY <1>0, <1>5 DEF Retry, CallTypes, serverVars
  <2>2. /\ pc'[c] \in {"limiter", "send"} /\ now' = now
        /\ \A e \in Calls : e # c => pc'[e] = pc[e]
    BY <1>0, <1>5, EnterPolicy DEF Retry
  <2>3. CASE d = c
    BY <1>0, <2>1, <2>2, <2>3, MovePolicy
  <2>4. CASE d # c
    BY <2>1, <2>2, <2>4, PolicyBystander
  <2> QED BY <2>3, <2>4
<1>6. CASE StartSleep(c)
  <2>1. /\ pc[c] = "drain" /\ pc'[c] = "backoff" /\ delay'[c] = 0
        /\ wake'[c] = now + delay[c] /\ now' = now /\ result' = result
        /\ outcome' = outcome /\ helper' = helper /\ notBefore' = notBefore
        /\ (d # c => /\ pc'[d] = pc[d] /\ delay'[d] = delay[d] /\ wake'[d] = wake[d]
                     /\ attempt'[d] = attempt[d])
    BY <1>0, <1>6 DEF StartSleep, CallTypes, serverVars
  <2>2. CASE d = c
    <3>1. Honoured(c)'
      BY <2>1 DEF PolicyOK, Honoured, Hinted
    <3> QED BY <2>1, <2>2, <3>1 DEF PolicyOK, Sleep, Settled
  <2>3. CASE d # c
    BY <2>1, <2>3, PolicyBystander
  <2> QED BY <2>2, <2>3
<1>7. CASE ServeUnheard(c)
  BY <1>7, PolicyBystander DEF ServeUnheard, callVars
<1> QED BY <1>1, <1>2, <1>3, <1>4, <1>5, <1>6, <1>7

LEMMA EndsPolicy ==
    ASSUME IInv, now \in Nat, NEW c \in Calls, NEW d \in Calls, PolicyOK(c), PolicyOK(d),
           TimesOut(c) \/ ConnectFails(c) \/ ConnectionLost(c) \/ Answer(c)
    PROVE  PolicyOK(d)'
<1>0. CallTypes /\ CallOk(c)
  BY DEF IInv
<1>1. \E res \in AttemptResults :
          /\ AttemptEnds(c, res)
          /\ res.status = 429 =>
                 notBefore'[c] = IF res.retryAfter = NoHint THEN 0 ELSE now + res.retryAfter
          /\ d # c => notBefore'[d] = notBefore[d]
  <2>1. CASE TimesOut(c) \/ ConnectFails(c) \/ ConnectionLost(c)
    <3>1. PICK cause \in Causes : AttemptEnds(c, TransportError(cause))
      BY <2>1 DEF TimesOut, ConnectFails, ConnectionLost, Causes
    <3>2. /\ TransportError(cause) \in AttemptResults
          /\ TransportError(cause).status # 429
      BY DEF AttemptResults, TransportError, NoStatus
    <3>3. d # c => notBefore'[d] = notBefore[d]
      BY <1>0, <2>1 DEF TimesOut, ConnectFails, ConnectionLost, serverVars, CallTypes
    <3> QED BY <3>1, <3>2, <3>3
  <2>2. CASE Answer(c)
    <3>1. PICK status \in Statuses : \E hint \in Hints(status) :
              /\ notBefore' =
                     [notBefore EXCEPT ![c] = IF hint = NoHint THEN 0 ELSE now + hint]
              /\ AttemptEnds(c, Response(status, hint))
      BY <2>2 DEF Answer
    <3>2. PICK hint \in Hints(status) :
              /\ notBefore' =
                     [notBefore EXCEPT ![c] = IF hint = NoHint THEN 0 ELSE now + hint]
              /\ AttemptEnds(c, Response(status, hint))
      BY <3>1
    <3>3. Response(status, hint) \in AttemptResults
      BY <3>2 DEF AttemptResults, Hints
    <3>4. Response(status, hint).retryAfter = hint
      BY DEF Response
    <3>5. /\ notBefore'[c] = IF hint = NoHint THEN 0 ELSE now + hint
          /\ d # c => notBefore'[d] = notBefore[d]
      BY <1>0, <3>2 DEF CallTypes
    <3> QED BY <3>2, <3>3, <3>4, <3>5
  <2> QED BY <2>1, <2>2
<1>2. PICK res \in AttemptResults :
          /\ AttemptEnds(c, res)
          /\ res.status = 429 =>
                 notBefore'[c] = IF res.retryAfter = NoHint THEN 0 ELSE now + res.retryAfter
          /\ d # c => notBefore'[d] = notBefore[d]
  BY <1>1
<1>3. pc[c] \in {"send", "inflight"}
  BY DEF TimesOut, ConnectFails, ConnectionLost, Answer
<1>4. CASE d = c
  BY <1>0, <1>2, <1>3, <1>4, AttemptEndsPolicy
<1>5. CASE d # c
  BY <1>0, <1>2, <1>5, AttemptEndsOthers
<1> QED BY <1>4, <1>5

LEMMA ReturnsPolicy ==
    ASSUME IInv, NEW c \in Calls, NEW d \in Calls, PolicyOK(c), PolicyOK(d),
           RejectUrl(c) \/ SkipBody(c) \/ ReadBody(c) \/ BodyLost(c) \/ BodyTimesOut(c)
    PROVE  PolicyOK(d)'
<1> DEFINE Returns(res) ==
        /\ Finish(c, res)
        /\ \/ pc[c] = "start" /\ res = InvalidUrl
           \/ pc[c] = "body" /\ (res.variant = "Api" => res.status = result[c].status)
<1>1. \E res : Returns(res)
  BY DEF RejectUrl, SkipBody, ReadBody, BodyLost, BodyTimesOut, Ok, Http, Api
<1>2. CallTypes /\ CallOk(c)
  BY DEF IInv
<1>3. PICK res : Returns(res)
  BY <1>1
<1>4. CASE d = c
  BY <1>2, <1>3, <1>4, FinishPolicy
<1>5. CASE d # c
  BY <1>2, <1>3, <1>5, FinishOthers
<1> QED BY <1>4, <1>5

\* PolicyOK is inductive, relative to IInv.
LEMMA PolicyNext ==
    ASSUME IInv, Limiter!TypeOK, \A c \in Calls : PolicyOK(c), [Next]_vars
    PROVE  \A c \in Calls : PolicyOK(c)'
<1>1. now \in Nat
  BY DEF Limiter!TypeOK
<1>2. CASE Tick
  <2>1. now' = now + 1
    BY <1>2 DEF Tick, Limiter!Tick
  <2>2. /\ helper' = helper /\ pc' = pc /\ attempt' = attempt /\ result' = result
        /\ delay' = delay /\ wake' = wake /\ outcome' = outcome /\ notBefore' = notBefore
    BY <1>2 DEF Tick, callVars, serverVars
  <2>3. ASSUME NEW d \in Calls PROVE PolicyOK(d)'
    <3>1. Sleep(d)'
      BY <2>2 DEF PolicyOK, Sleep, Hinted
    <3>2. Settled(d)'
      BY <2>2 DEF PolicyOK, Settled, HasRetryLayer, Transient
    <3>3. Honoured(d)'
      <4>1. notBefore[d] \in Nat /\ delay[d] \in Int
        BY DEF IInv, CallTypes
      <4>2. /\ notBefore[d] <= now => notBefore[d] <= now'
            /\ notBefore[d] <= now + delay[d] => notBefore[d] <= now' + delay[d]
        BY <1>1, <2>1, <4>1
      <4> QED BY <2>2, <4>2 DEF PolicyOK, Honoured, Hinted
    <3> QED BY <3>1, <3>2, <3>3 DEF PolicyOK
  <2> QED BY <2>3
<1>3. CASE UNCHANGED vars
  BY <1>3, PolicyBystander DEF vars, callVars, serverVars
<1>4. ASSUME NEW c \in Calls, RejectUrl(c) \/ Issue(c) \/ Advance(c) \/ Environment(c),
             NEW d \in Calls
      PROVE  PolicyOK(d)'
  <2>1. CASE Issue(c) \/ WaitForPermit(c) \/ Permit(c) \/ Transmit(c) \/ Retry(c)
                 \/ StartSleep(c) \/ ServeUnheard(c)
    BY <1>1, <2>1, AdvancePolicy
  <2>2. CASE TimesOut(c) \/ ConnectFails(c) \/ ConnectionLost(c) \/ Answer(c)
    BY <1>1, <2>2, EndsPolicy
  <2>3. CASE RejectUrl(c) \/ SkipBody(c) \/ ReadBody(c) \/ BodyLost(c) \/ BodyTimesOut(c)
    BY <2>3, ReturnsPolicy
  <2> QED BY <1>4, <2>1, <2>2, <2>3 DEF Advance, Environment
<1> QED BY <1>2, <1>3, <1>4 DEF Next

LEMMA PolicyHolds == Spec => [](\A c \in Calls : PolicyOK(c))
<1>1. /\ IInv /\ Limiter!TypeOK /\ (\A c \in Calls : PolicyOK(c)) /\ [Next]_vars
      => (\A c \in Calls : PolicyOK(c))'
  BY PolicyNext
<1> QED BY <1>1, PolicyInit, Inductive, LimiterTyped, PTL DEF Spec

\* Unless the server says how long, no delay is below what the jitter-free
\* schedule gave any earlier attempt of the call, however many attempts: the
\* factor does not wrap around where it leaves its width.
THEOREM NeverBelowScheduleHolds == Spec => []NeverBelowSchedule
<1>1. IInv /\ (\A c \in Calls : PolicyOK(c)) => NeverBelowSchedule
  <2> SUFFICES ASSUME IInv, NEW c \in Calls, PolicyOK(c), pc[c] = "drain",
                      ~ Hinted(result[c]),
                      NEW earlier \in 0..attempt[c]
               PROVE  delay[c] >= CappedBackoff(earlier)
    BY DEF NeverBelowSchedule
  <2>1. attempt[c] \in Nat /\ delay[c] \in Int
    BY RetryAssumption DEF IInv, CallTypes
  <2>2. earlier \in Nat /\ earlier <= attempt[c]
    BY <2>1
  <2>3. /\ CappedBackoff(earlier) \in Nat /\ CappedBackoff(attempt[c]) \in Nat
        /\ CappedBackoff(earlier) <= CappedBackoff(attempt[c])
    BY <2>1, <2>2, ScheduleGrows
  <2> QED BY <2>1, <2>3 DEF PolicyOK, Sleep
<1> QED BY <1>1, PolicyHolds, Inductive, PTL

\* What a retried call returns with retries left is nothing that is retried,
\* judged by what reached the caller, except a timeout within a body.
THEOREM GivesUpOnlyExhaustedHolds == Spec => []GivesUpOnlyExhausted
<1>1. IInv /\ (\A c \in Calls : PolicyOK(c)) => GivesUpOnlyExhausted
  <2> SUFFICES ASSUME IInv, NEW c \in Calls, PolicyOK(c), pc[c] = "done"
               PROVE  /\ outcome[c].variant = "Api" => outcome[c].status = result[c].status
                      /\ (HasRetryLayer(c) /\ attempt[c] < MaxRetries) =>
                             /\ result[c].status \notin {408, 429} \cup 500..599
                             /\ outcome[c].cause \in {"timeout", "connect"} => FailedInBody(c)
    BY DEF GivesUpOnlyExhausted
  <2>1. /\ outcome[c].variant = "Api" => outcome[c].status = result[c].status
        /\ outcome[c].variant = "Http" =>
               result[c].kind = "response" \/ outcome[c].cause = result[c].cause
        /\ (HasRetryLayer(c) /\ Transient(result[c])) => attempt[c] = MaxRetries
    BY DEF PolicyOK, Settled
  <2>2. outcome[c].cause \in {"timeout", "connect"} => outcome[c].variant = "Http"
    <3>1. outcome[c] \in Outcomes
      BY DEF IInv, CallTypes
    <3> QED BY <3>1 DEF Outcomes, Pending, Ok, InvalidUrl, Http, Api
  <2>3. attempt[c] < MaxRetries => attempt[c] # MaxRetries
    BY RetryAssumption DEF IInv, CallTypes
  <2> QED BY <2>1, <2>2, <2>3 DEF Transient, FailedInBody
<1> QED BY <1>1, PolicyHolds, Inductive, PTL

\* A call that was answered 429 with a Retry-After does not send again before
\* that time, whatever the limiter adds and whatever max_backoff is.
THEOREM RetryAfterHonouredHolds == Spec => RetryAfterHonoured
<1>1. IInv /\ Limiter!TypeOK /\ (\A c \in Calls : PolicyOK(c))
      => \A c \in Calls : (pc[c] = "send" /\ result[c].status = 429) => now >= notBefore[c]
  <2> SUFFICES ASSUME Limiter!TypeOK, NEW c \in Calls, PolicyOK(c),
                      pc[c] = "send", result[c].status = 429
               PROVE  now >= notBefore[c]
    OBVIOUS
  <2>1. now \in Nat
    BY DEF Limiter!TypeOK
  <2> QED BY <2>1 DEF PolicyOK, Honoured
<1>2. IInv /\ Limiter!TypeOK /\ (\A c \in Calls : PolicyOK(c))
      => \A c \in Calls :
             (pc[c] = "send" /\ pc'[c] # "send" /\ attempt[c] > 0 /\ result[c].status = 429)
                 => now >= notBefore[c]
  BY <1>1
<1> QED BY <1>2, PolicyHolds, Inductive, LimiterTyped, PTL DEF RetryAfterHonoured

-----------------------------------------------------------------------------
\* Permits.  They are dealt out to the calls as they are taken; the witness
\* grows with the log.

\* How many attempts each call has made, and the permits dealt out to them.
Made == [c \in Calls |-> AttemptsOf(c)]

Dealt(owner, n, made) ==
    \A c \in Calls : Cardinality({k \in 1..n : owner[k] = c}) = made[c]

LEMMA PermitsDealt ==
    PermitPerAttempt <=>
        (RateLimited => \E owner \in [1..Len(log) -> Calls] : Dealt(owner, Len(log), Made))
BY DEF PermitPerAttempt, Dealt, Made

\* A permit more for c, and an attempt more of c, keep the deal.
LEMMA DealOne ==
    ASSUME NEW n \in Nat, NEW owner \in [1..n -> Calls], NEW c \in Calls,
           NEW made, Dealt(owner, n, made), NEW next,
           next[c] = made[c] + 1, \A d \in Calls : d # c => next[d] = made[d]
    PROVE  \E more \in [1..(n + 1) -> Calls] : Dealt(more, n + 1, next)
<1> DEFINE more == [k \in 1..(n + 1) |-> IF k = n + 1 THEN c ELSE owner[k]]
           Old(d) == {k \in 1..n : owner[k] = d}
           New(d) == {k \in 1..(n + 1) : more[k] = d}
<1>1. more \in [1..(n + 1) -> Calls]
  OBVIOUS
<1>2. ASSUME NEW d \in Calls PROVE Cardinality(New(d)) = next[d]
  <2>1. CASE d = c
    <3>1. New(d) = Old(d) \cup {n + 1} /\ n + 1 \notin Old(d)
      BY <2>1
    <3>2. IsFiniteSet(Old(d))
      <4>1. IsFiniteSet(1..n) /\ Old(d) \subseteq 1..n
        BY FS_Interval
      <4> QED BY <4>1, FS_Subset
    <3>3. Cardinality(New(d)) = Cardinality(Old(d)) + 1
      <4> HIDE DEF New, Old
      <4> QED BY <3>1, <3>2, FS_AddElement
    <3> QED BY <2>1, <3>3 DEF Dealt
  <2>2. CASE d # c
    <3>1. New(d) = Old(d)
      BY <2>2
    <3> QED BY <2>2, <3>1 DEF Dealt
  <2> QED BY <2>1, <2>2
<1>3. Dealt(more, n + 1, next)
  BY <1>2 DEF Dealt
<1> HIDE DEF more
<1> QED BY <1>1, <1>3

\* A step takes a permit and begins an attempt with it, or does neither.
LEMMA PermitStep ==
    ASSUME IInv, RateLimited, Limiter!TypeOK, [Next]_vars
    PROVE  \/ log' = log /\ \A c \in Calls : AttemptsOf(c)' = AttemptsOf(c)
           \/ \E c \in Calls :
                  /\ log' = Append(log, reading[c])
                  /\ AttemptsOf(c)' = AttemptsOf(c) + 1
                  /\ \A d \in Calls : d # c => AttemptsOf(d)' = AttemptsOf(d)
<1> DEFINE Neither == log' = log /\ \A c \in Calls : AttemptsOf(c)' = AttemptsOf(c)
<1>0. CallTypes /\ \A c \in Calls : pc[c] # "done" => outcome[c] # InvalidUrl
  BY DEF IInv, CallOk, ReturnTruthful, Pending, InvalidUrl
<1>1. CASE Tick \/ UNCHANGED vars
  BY <1>1 DEF Tick, Limiter!Tick, vars, callVars, limiterVars, AttemptsOf, AttemptStarted
<1>2. ASSUME NEW c \in Calls, Issue(c) \/ Retry(c)
      PROVE  Neither
  <2>1. /\ pc' = [pc EXCEPT ![c] = "limiter"] /\ log' = log /\ attempt' = attempt
        /\ pc[c] \in {"start", "backoff"} /\ outcome' = outcome
    BY <1>2 DEF Issue, Retry, EnterInnerStack, Limiter!Arrive, callVars
  <2> QED BY <2>1 DEF CallTypes, AttemptsOf, AttemptStarted
<1>3. ASSUME NEW c \in Calls, WaitForPermit(c) \/ ServeUnheard(c)
      PROVE  Neither
  BY <1>3 DEF WaitForPermit, ServeUnheard, Limiter!ReadClock, Limiter!Deny, Limiter!Wake,
              callVars, limiterVars, AttemptsOf, AttemptStarted
<1>4. ASSUME NEW c \in Calls, Permit(c)
      PROVE  /\ log' = Append(log, reading[c])
             /\ AttemptsOf(c)' = AttemptsOf(c) + 1
             /\ \A d \in Calls : d # c => AttemptsOf(d)' = AttemptsOf(d)
  <2>1. /\ pc' = [pc EXCEPT ![c] = "send"] /\ pc[c] = "limiter" /\ attempt' = attempt
        /\ log' = Append(log, reading[c]) /\ attempt[c] \in Nat /\ outcome' = outcome
    BY <1>0, <1>4, RetryAssumption DEF Permit, Limiter!Grant, callVars, CallTypes
  <2> QED BY <1>0, <2>1 DEF CallTypes, AttemptsOf, AttemptStarted
<1>5. ASSUME NEW c \in Calls,
             \/ Transmit(c)
             \/ \E res : AttemptEnds(c, res)
             \/ \E res : res # InvalidUrl /\ Finish(c, res),
             pc[c] \in {"send", "inflight", "body"}
      PROVE  Neither
  <2>1. /\ \E p \in {"inflight", "drain", "body", "done"} : pc' = [pc EXCEPT ![c] = p]
        /\ log' = log /\ attempt' = attempt
    BY <1>5 DEF Transmit, AttemptEnds, Finish, limiterVars
  <2>2. \/ outcome' = outcome
        \/ \E res : res # InvalidUrl /\ outcome' = [outcome EXCEPT ![c] = res]
    BY <1>5 DEF Transmit, AttemptEnds, Finish, Http, InvalidUrl
  <2>3. /\ outcome[c] # InvalidUrl /\ outcome'[c] # InvalidUrl
        /\ \A d \in Calls : d # c => outcome'[d] = outcome[d]
    BY <1>0, <1>5, <2>2 DEF CallTypes
  <2> QED BY <1>0, <1>5, <2>1, <2>3 DEF CallTypes, AttemptsOf, AttemptStarted
<1>6. ASSUME NEW c \in Calls, StartSleep(c)
      PROVE  Neither
  <2>1. /\ pc' = [pc EXCEPT ![c] = "backoff"] /\ pc[c] = "drain" /\ attempt[c] \in Nat
        /\ log' = log /\ attempt' = [attempt EXCEPT ![c] = @ + 1] /\ outcome' = outcome
    BY <1>0, <1>6, RetryAssumption DEF StartSleep, limiterVars, CallTypes
  <2> QED BY <1>0, <2>1 DEF CallTypes, AttemptsOf, AttemptStarted
<1>7. ASSUME NEW c \in Calls, TimesOut(c) \/ ConnectFails(c) \/ ConnectionLost(c) \/ Answer(c)
                 \/ SkipBody(c) \/ ReadBody(c) \/ BodyLost(c) \/ BodyTimesOut(c)
      PROVE  Neither
  <2>1. /\ \/ \E res : AttemptEnds(c, res)
           \/ \E res : res # InvalidUrl /\ Finish(c, res)
        /\ pc[c] \in {"send", "inflight", "body"}
    BY <1>7 DEF TimesOut, ConnectFails, ConnectionLost, Answer, SkipBody, ReadBody, BodyLost,
                BodyTimesOut, Ok, Http, Api, InvalidUrl
  <2> QED BY <1>5, <2>1
<1>8. ASSUME NEW c \in Calls, Transmit(c) PROVE Neither
  BY <1>5, <1>8 DEF Transmit
<1>9. ASSUME NEW c \in Calls, RejectUrl(c) PROVE Neither
  <2>1. /\ pc' = [pc EXCEPT ![c] = "done"] /\ outcome' = [outcome EXCEPT ![c] = InvalidUrl]
        /\ pc[c] = "start" /\ log' = log /\ attempt' = attempt
    BY <1>9 DEF RejectUrl, Finish, limiterVars
  <2> QED BY <1>0, <2>1 DEF CallTypes, AttemptsOf, AttemptStarted
<1> HIDE DEF Neither
<1> QED BY <1>1, <1>2, <1>3, <1>4, <1>6, <1>7, <1>8, <1>9 DEF Next, Advance, Environment, Neither

LEMMA PermitInit == Init => PermitPerAttempt
<1> SUFFICES ASSUME Init
             PROVE  \E owner \in [1..Len(log) -> Calls] : Dealt(owner, Len(log), Made)
  BY PermitsDealt
<1> DEFINE none == [k \in 1..0 |-> k]
<1>1. log = <<>> /\ Len(log) = 0
  BY DEF Init, Limiter!Init
<1>2. none \in [1..0 -> Calls]
  OBVIOUS
<1>3. ASSUME NEW c \in Calls PROVE Cardinality({k \in 1..0 : none[k] = c}) = AttemptsOf(c)
  <2>1. {k \in 1..0 : none[k] = c} = {}
    OBVIOUS
  <2>2. AttemptsOf(c) = 0
    BY DEF Init, AttemptsOf, AttemptStarted
  <2> QED BY <2>1, <2>2, FS_EmptySet
<1>4. Dealt(none, 0, Made)
  BY <1>3 DEF Dealt, Made
<1> HIDE DEF none
<1> QED BY <1>1, <1>2, <1>4

LEMMA PermitNext ==
    ASSUME PermitPerAttempt, IInv, Limiter!TypeOK, [Next]_vars
    PROVE  PermitPerAttempt'
<1> SUFFICES ASSUME RateLimited
             PROVE  \E owner \in [1..Len(log') -> Calls] : Dealt(owner, Len(log'), Made')
  BY DEF PermitPerAttempt, Dealt, Made
<1>1. PICK owner \in [1..Len(log) -> Calls] : Dealt(owner, Len(log), Made)
  BY PermitsDealt
<1>2. log \in Seq(Nat) /\ Len(log) \in Nat
  BY DEF Limiter!TypeOK
<1>3. CASE log' = log /\ \A c \in Calls : AttemptsOf(c)' = AttemptsOf(c)
  <2>1. Made' = Made
    BY <1>3 DEF Made
  <2> QED BY <1>1, <1>3, <2>1
<1>4. ASSUME NEW c \in Calls, log' = Append(log, reading[c]),
             AttemptsOf(c)' = AttemptsOf(c) + 1,
             \A d \in Calls : d # c => AttemptsOf(d)' = AttemptsOf(d)
      PROVE  \E more \in [1..Len(log') -> Calls] : Dealt(more, Len(log'), Made')
  <2>1. Len(log') = Len(log) + 1
    BY <1>2, <1>4
  <2>2. Made'[c] = Made[c] + 1 /\ \A d \in Calls : d # c => Made'[d] = Made[d]
    BY <1>4 DEF Made
  <2>3. ASSUME NEW n \in Nat, n = Len(log), NEW made, made = Made, NEW next, next = Made'
        PROVE  \E more \in [1..(n + 1) -> Calls] : Dealt(more, n + 1, next)
    <3>1. Dealt(owner, n, made) /\ owner \in [1..n -> Calls]
      BY <1>1, <2>3
    <3>2. next[c] = made[c] + 1 /\ \A d \in Calls : d # c => next[d] = made[d]
      BY <2>2, <2>3
    <3> QED BY <3>1, <3>2, DealOne
  <2> QED BY <1>2, <2>1, <2>3
<1> QED BY <1>3, <1>4, PermitStep

\* Reads and mutations, first attempts and retries: each attempt has taken a
\* permit of its own from the one limiter, and no permit is left over.
THEOREM PermitPerAttemptHolds == Spec => []PermitPerAttempt
<1>1. IInv /\ Limiter!TypeOK /\ PermitPerAttempt /\ [Next]_vars => PermitPerAttempt'
  BY PermitNext
<1> QED BY <1>1, PermitInit, Inductive, LimiterTyped, PTL DEF Spec
=============================================================================
