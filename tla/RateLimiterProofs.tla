------------------------- MODULE RateLimiterProofs -------------------------
(***************************************************************************)
(* The limiter keeps its promises for every number of callers, every rate  *)
(* and every period, however the callers and the clock interleave.         *)
(*                                                                         *)
(* None of the three properties is inductive: they speak of the log or of  *)
(* sleeping callers, while a grant is decided from the cell alone.  The    *)
(* inductive invariant IInv says what the cell knows of the log: it is the *)
(* upper envelope of the lines that start one period above each granted    *)
(* reading and rise by a period with every later grant.                    *)
(***************************************************************************)
EXTENDS RateLimiter, TLAPS

\* Nobody has read a time that is yet to come.
ReadingsPast ==
    /\ \A c \in Callers : reading[c] <= now
    /\ \A i \in 1..Len(log) : log[i] <= now

\* The cell is above every line of the envelope ...
TatCovers ==
    \A i \in 1..Len(log) : tat >= log[i] + (Len(log) - i + 1) * CellPeriod

\* ... and on one of them, once a permit has been granted.
TatTight ==
    \/ tat = 0
    \/ \E i \in 1..Len(log) : tat = log[i] + (Len(log) - i + 1) * CellPeriod

IInv ==
    /\ TypeOK
    /\ ReadingsPast
    /\ TatCovers
    /\ TatTight
    /\ Conformance
    /\ DebtBounded

-----------------------------------------------------------------------------
\* The constants: a bucket holds at least one permit, which takes at least a
\* tick to refill.
LEMMA QuotaFacts ==
    /\ CellPeriod \in Nat
    /\ CellPeriod >= 1
    /\ Burst \in Nat
    /\ Burst >= 1
    /\ Tolerance = Burst * CellPeriod - CellPeriod
    /\ Tolerance \in Nat
<1>1. Rate \in Nat /\ Rate >= 1 /\ Per \in Nat
  BY RateAssumption, PerAssumption
<1>2. CellPeriod \in Nat /\ CellPeriod >= 1
  BY <1>1, QuotaAssumption DEF QuotaAccepted, CellPeriod
<1>3. Burst \in Nat /\ Burst >= 1
  BY <1>1 DEF Burst
<1>4. Tolerance = Burst * CellPeriod - CellPeriod
  BY <1>2, <1>3 DEF Tolerance
<1>5. Tolerance \in Nat
  BY <1>2, <1>3 DEF Tolerance
<1>6. QED
  BY <1>2, <1>3, <1>4, <1>5

\* One more permit costs one more period.
LEMMA OneMorePeriod ==
    ASSUME NEW k \in Int, NEW p \in Int
    PROVE  (k + 1) * p = k * p + p
OBVIOUS

\* The log after a grant.
LEMMA AppendFacts ==
    ASSUME NEW s \in Seq(Nat), NEW r \in Nat
    PROVE  /\ Append(s, r) \in Seq(Nat)
           /\ Len(Append(s, r)) = Len(s) + 1
           /\ Len(s) \in Nat
           /\ \A i \in 1..Len(s) : Append(s, r)[i] = s[i] /\ s[i] \in Nat
           /\ Append(s, r)[Len(s) + 1] = r
OBVIOUS

-----------------------------------------------------------------------------
\* Every state holds values of the types the code gives them.
THEOREM TypeCorrect == Spec => []TypeOK
<1> USE DEF TypeOK
<1>1. Init => TypeOK
  BY DEF Init, PC
<1>2. TypeOK /\ [Next]_vars => TypeOK'
  <2> SUFFICES ASSUME TypeOK, [Next]_vars
               PROVE  TypeOK'
    OBVIOUS
  <2>1. CASE Tick
    BY <2>1 DEF Tick
  <2>2. ASSUME NEW c \in Callers, Arrive(c)
        PROVE  TypeOK'
    BY <2>2 DEF Arrive, PC
  <2>3. ASSUME NEW c \in Callers, ReadClock(c)
        PROVE  TypeOK'
    BY <2>3 DEF ReadClock, PC
  <2>4. ASSUME NEW c \in Callers, Grant(c)
        PROVE  TypeOK'
    BY <2>4, QuotaFacts, AppendFacts DEF Grant, TatAfter, PC
  <2>5. ASSUME NEW c \in Callers, Deny(c)
        PROVE  TypeOK'
    <3>1. tat - Tolerance \in Nat
      BY <2>5, QuotaFacts DEF Deny, Conforms
    <3>2. QED
      BY <2>5, <3>1 DEF Deny, PC
  <2>6. ASSUME NEW c \in Callers, Wake(c)
        PROVE  TypeOK'
    BY <2>6 DEF Wake, PC
  <2>7. CASE UNCHANGED vars
    BY <2>7 DEF vars
  <2>8. QED
    BY <2>1, <2>2, <2>3, <2>4, <2>5, <2>6, <2>7 DEF Next, Proceed
<1>3. QED
  BY <1>1, <1>2, PTL DEF Spec

-----------------------------------------------------------------------------
LEMMA InitIInv == Init => IInv
<1> SUFFICES ASSUME Init
             PROVE  IInv
  OBVIOUS
<1>1. TypeOK
  BY DEF Init, TypeOK, PC
<1>2. Len(log) = 0
  BY DEF Init
<1>3. ReadingsPast /\ TatCovers /\ TatTight /\ Conformance
  BY <1>2 DEF Init, ReadingsPast, TatCovers, TatTight, Conformance
<1>4. DebtBounded
  <2>1. Burst * CellPeriod \in Nat
    BY QuotaFacts
  <2>2. QED
    BY <2>1, QuotaFacts DEF Init, DebtBounded
<1>5. QED
  BY <1>1, <1>3, <1>4 DEF IInv

\* Only a grant moves the cell and the log: a step that leaves both alone
\* and does not turn the clock back keeps what the cell knows of the log.
LEMMA CellUntouched ==
    ASSUME IInv, TypeOK', now <= now', UNCHANGED <<tat, log>>,
           \A c \in Callers : reading'[c] <= now',
           \A c \in Callers : pc'[c] = "sleeping" => wake'[c] <= now' + CellPeriod
    PROVE  IInv'
<1>1. ReadingsPast'
  <2>1. \A i \in 1..Len(log) : log[i] \in Nat /\ log[i] <= now
    BY DEF IInv, ReadingsPast, TypeOK
  <2>2. now \in Nat /\ now' \in Nat
    BY DEF IInv, TypeOK
  <2>3. QED
    BY <2>1, <2>2 DEF ReadingsPast
<1>2. TatCovers' /\ TatTight' /\ Conformance'
  BY DEF IInv, TatCovers, TatTight, Conformance
<1>3. DebtBounded'
  <2>1. tat <= now + Burst * CellPeriod
    BY DEF IInv, DebtBounded
  <2>2. now \in Nat /\ now' \in Nat /\ tat \in Nat /\ Burst * CellPeriod \in Nat
    BY QuotaFacts DEF IInv, TypeOK
  <2>3. tat' <= now' + Burst * CellPeriod
    BY <2>1, <2>2
  <2>4. QED
    BY <2>3 DEF DebtBounded
<1>4. QED
  BY <1>1, <1>2, <1>3 DEF IInv

\* A grant extends the log by a reading that the cell was asked about.
LEMMA GrantStep ==
    ASSUME IInv, TypeOK', NEW c \in Callers, Grant(c)
    PROVE  IInv'
<1> DEFINE n == Len(log)
           r == reading[c]
           P == CellPeriod
<1>1. /\ r \in Nat /\ r <= now /\ now \in Nat /\ tat \in Nat /\ n \in Nat
      /\ P \in Nat /\ P >= 1 /\ Burst \in Nat /\ Burst >= 1
      /\ Burst * P \in Nat
  BY QuotaFacts DEF IInv, TypeOK, ReadingsPast
<1>2. tat - (Burst * P - P) <= r
  BY QuotaFacts DEF Grant, Conforms
<1>3. /\ tat' \in Nat
      /\ tat' >= tat + P
      /\ tat' >= r + P
      /\ (tat' = tat + P /\ tat >= r) \/ tat' = r + P
  BY <1>1 DEF Grant, TatAfter
<1>4. /\ Len(log') = n + 1
      /\ \A i \in 1..n : log'[i] = log[i] /\ log[i] \in Nat
      /\ log'[n + 1] = r
      /\ now' = now
  BY AppendFacts, <1>1 DEF Grant, IInv, TypeOK
<1>5. \A i \in 1..n : log[i] + (n - i + 1) * P <= tat
  BY DEF IInv, TatCovers
<1>6. \A i \in 1..n : (n - i + 1) * P \in Int /\ (n - i + 2) * P = (n - i + 1) * P + P
  <2> TAKE i \in 1..n
  <2>1. n - i + 1 \in Int /\ n - i + 2 = (n - i + 1) + 1
    BY <1>1
  <2>2. QED
    BY <2>1, <1>1, OneMorePeriod
<1> HIDE DEF n, r, P
<1>7. ReadingsPast'
  <2>1. \A i \in 1..n : log[i] <= now
    BY DEF IInv, ReadingsPast, n
  <2>2. \A i \in 1..(n + 1) : log'[i] <= now'
    BY <1>1, <1>4, <2>1
  <2>3. \A d \in Callers : reading'[d] <= now'
    BY <1>1 DEF Grant, IInv, ReadingsPast, TypeOK
  <2>4. QED
    BY <1>4, <2>2, <2>3 DEF ReadingsPast
<1>8. TatCovers'
  <2> SUFFICES ASSUME NEW i \in 1..(n + 1)
               PROVE  tat' >= log'[i] + (n + 1 - i + 1) * P
    BY <1>1, <1>4 DEF TatCovers, P
  <2>1. CASE i = n + 1
    <3>1. (n + 1 - i + 1) * P = P
      BY <2>1, <1>1
    <3>2. QED
      BY <2>1, <3>1, <1>1, <1>3, <1>4
  <2>2. CASE i \in 1..n
    <3>1. n + 1 - i + 1 = n - i + 2
      BY <1>1
    <3>2. (n - i + 2) * P = (n - i + 1) * P + P /\ (n - i + 1) * P \in Int
      BY <2>2, <1>6
    <3>3. log'[i] = log[i] /\ log[i] \in Nat /\ log[i] + (n - i + 1) * P <= tat
      BY <2>2, <1>4, <1>5
    <3>4. QED
      BY <3>1, <3>2, <3>3, <1>1, <1>3
  <2>3. QED
    BY <2>1, <2>2, <1>1
<1>9. TatTight'
  <2>1. CASE tat' = r + P
    <3>1. (n + 1 - (n + 1) + 1) * P = P
      BY <1>1
    <3>2. n + 1 \in 1..Len(log') /\ tat' = log'[n + 1] + (Len(log') - (n + 1) + 1) * P
      BY <2>1, <3>1, <1>1, <1>4
    <3>3. QED
      BY <3>2 DEF TatTight, P
  <2>2. CASE tat' = tat + P /\ tat >= r /\ tat # 0
    <3>1. PICK i \in 1..n : tat = log[i] + (n - i + 1) * P
      BY <2>2 DEF IInv, TatTight, n, P
    <3>2. n + 1 - i + 1 = n - i + 2
      BY <1>1
    <3>3. (n - i + 2) * P = (n - i + 1) * P + P /\ (n - i + 1) * P \in Int
      BY <1>6
    <3>4. log'[i] = log[i] /\ log[i] \in Nat
      BY <1>4
    <3>5. i \in 1..Len(log') /\ tat' = log'[i] + (Len(log') - i + 1) * P
      BY <2>2, <3>1, <3>2, <3>3, <3>4, <1>1, <1>4
    <3>6. QED
      BY <3>5 DEF TatTight, P
  <2>3. CASE tat' = tat + P /\ tat >= r /\ tat = 0
    BY <2>1, <2>3, <1>1
  <2>4. QED
    BY <2>1, <2>2, <2>3, <1>3
<1>10. Conformance'
  <2> SUFFICES ASSUME NEW i \in 1..(n + 1), NEW j \in 1..(n + 1), i <= j
               PROVE  log'[j] - log'[i] >= (j - i + 1 - Burst) * P
    BY <1>4 DEF Conformance, P
  <2>1. CASE j \in 1..n
    <3>1. i \in 1..n
      BY <2>1, <1>1
    <3>2. log[j] - log[i] >= (j - i + 1 - Burst) * P
      BY <2>1, <3>1 DEF IInv, Conformance, n, P
    <3>3. QED
      BY <2>1, <3>1, <3>2, <1>4
  <2>2. CASE j = n + 1 /\ i \in 1..n
    <3>1. (j - i + 1 - Burst) * P = (n - i + 2) * P - Burst * P
      BY <2>2, <1>1
    <3>2. (n - i + 2) * P = (n - i + 1) * P + P /\ (n - i + 1) * P \in Int
      BY <2>2, <1>6
    <3>3. /\ log'[i] = log[i] /\ log[i] \in Nat
          /\ log[i] + (n - i + 1) * P <= tat
          /\ log'[j] = r
      BY <2>2, <1>4, <1>5
    <3>4. QED
      BY <3>1, <3>2, <3>3, <1>1, <1>2
  <2>3. CASE j = n + 1 /\ i = n + 1
    <3>1. (j - i + 1 - Burst) * P = P - Burst * P
      BY <2>3, <1>1
    <3>2. P <= Burst * P
      BY <1>1, QuotaFacts DEF P
    <3>3. log'[j] - log'[i] = 0
      BY <2>3, <1>1, <1>4
    <3>4. QED
      BY <3>1, <3>2, <3>3, <1>1
  <2>4. QED
    BY <2>1, <2>2, <2>3, <1>1
<1>11. DebtBounded'
  <2>1. tat' <= now' + Burst * P
    BY <1>1, <1>2, <1>3, <1>4
  <2>2. \A d \in Callers : pc'[d] = "sleeping" => wake'[d] <= now' + P
    BY <1>4 DEF Grant, IInv, TypeOK, DebtBounded, P
  <2>3. QED
    BY <2>1, <2>2 DEF DebtBounded, P
<1>12. QED
  BY <1>7, <1>8, <1>9, <1>10, <1>11 DEF IInv

LEMMA NextIInv ==
    ASSUME IInv, TypeOK', [Next]_vars
    PROVE  IInv'
<1> USE DEF IInv
<1>1. /\ now \in Nat
      /\ \A c \in Callers : reading[c] \in Nat /\ wake[c] \in Nat
      /\ CellPeriod \in Nat
  BY QuotaFacts DEF TypeOK
<1>2. CASE Tick
  <2>1. now' \in Nat /\ now <= now'
    BY <1>1, <1>2 DEF Tick
  <2>2. \A c \in Callers : reading'[c] <= now'
    BY <1>1, <1>2 DEF Tick, ReadingsPast
  <2>3. \A c \in Callers : pc'[c] = "sleeping" => wake'[c] <= now' + CellPeriod
    BY <1>1, <1>2 DEF Tick, DebtBounded
  <2>4. QED
    BY <1>2, <2>1, <2>2, <2>3, CellUntouched DEF Tick
<1>3. ASSUME NEW c \in Callers, Arrive(c)
      PROVE  IInv'
  BY <1>1, <1>3, CellUntouched DEF Arrive, TypeOK, ReadingsPast, DebtBounded
<1>4. ASSUME NEW c \in Callers, ReadClock(c)
      PROVE  IInv'
  BY <1>1, <1>4, CellUntouched DEF ReadClock, TypeOK, ReadingsPast, DebtBounded
<1>5. ASSUME NEW c \in Callers, Grant(c)
      PROVE  IInv'
  BY <1>5, GrantStep
<1>6. ASSUME NEW c \in Callers, Deny(c)
      PROVE  IInv'
  <2>1. tat - Tolerance <= now + CellPeriod
    <3>1. tat <= now + Burst * CellPeriod
      BY DEF DebtBounded
    <3>2. tat \in Nat /\ Burst * CellPeriod \in Nat
      BY QuotaFacts DEF TypeOK
    <3>3. QED
      BY <3>1, <3>2, <1>1, QuotaFacts
  <2>2. \A d \in Callers : pc'[d] = "sleeping" => wake'[d] <= now' + CellPeriod
    BY <1>6, <2>1 DEF Deny, TypeOK, DebtBounded
  <2>3. now <= now' /\ UNCHANGED <<tat, log>>
    BY <1>1, <1>6 DEF Deny
  <2>4. \A d \in Callers : reading'[d] <= now'
    BY <1>1, <1>6 DEF Deny, ReadingsPast, TypeOK
  <2>5. QED
    BY <2>2, <2>3, <2>4, CellUntouched
<1>7. ASSUME NEW c \in Callers, Wake(c)
      PROVE  IInv'
  BY <1>1, <1>7, CellUntouched DEF Wake, TypeOK, ReadingsPast, DebtBounded
<1>8. CASE UNCHANGED vars
  BY <1>1, <1>8, CellUntouched DEF vars, ReadingsPast, DebtBounded
<1>9. QED
  BY <1>2, <1>3, <1>4, <1>5, <1>6, <1>7, <1>8 DEF Next, Proceed

\* What the cell knows of the log holds in every reachable state.
THEOREM Inductive == Spec => []IInv
<1>1. Init => IInv
  BY InitIInv
<1>2. IInv /\ TypeOK' /\ [Next]_vars => IInv'
  BY NextIInv
<1>3. QED
  BY <1>1, <1>2, TypeCorrect, PTL DEF Spec

-----------------------------------------------------------------------------
\* rate_limit.rs promises a steady-state rate and a burst: any run of grants
\* beyond a burst is paid for in refill periods.
THEOREM ConformanceHolds == Spec => []Conformance
<1>1. IInv => Conformance
  BY DEF IInv
<1>2. QED
  BY <1>1, Inductive, PTL

\* What passes within one rolling window of Burst refill periods, which is `per`
\* where `rate` divides it.
WindowBounded ==
    \A i, j \in 1..Len(log) :
        (i <= j /\ log[j] - log[i] < Burst * CellPeriod) => j - i + 1 <= 2 * Rate - 1

\* ARCHITECTURE.md's quota of `rate` requests in any rolling window does not
\* hold of the limiter (RollingWindowQuota); this is by how much at most it is
\* exceeded: a full bucket and the refills of the window, less one.
THEOREM WindowBoundedHolds == Spec => []WindowBounded
<1>1. TypeOK /\ Conformance => WindowBounded
  <2> SUFFICES ASSUME TypeOK, Conformance, NEW i \in 1..Len(log), NEW j \in 1..Len(log),
                      i <= j, log[j] - log[i] < Burst * CellPeriod, j - i + 1 > 2 * Rate - 1
               PROVE  FALSE
    BY RateAssumption DEF WindowBounded
  <2> DEFINE paid == j - i + 1 - Burst
  <2>1. /\ log[j] \in Int /\ log[i] \in Int /\ i \in Int /\ j \in Int
        /\ CellPeriod \in Nat /\ Burst \in Nat /\ Rate \in Nat /\ Burst = Rate
    BY QuotaFacts DEF TypeOK, Burst
  <2>2. paid \in Nat /\ paid - Burst \in Nat
    BY <2>1
  <2>3. log[j] - log[i] >= paid * CellPeriod
    BY DEF Conformance
  <2>4. /\ paid * CellPeriod = Burst * CellPeriod + (paid - Burst) * CellPeriod
        /\ (paid - Burst) * CellPeriod \in Nat /\ Burst * CellPeriod \in Nat
    <3> HIDE DEF paid
    <3> QED BY <2>1, <2>2
  <2>5. paid * CellPeriod \in Int
    BY <2>1, <2>2
  <2> HIDE DEF paid
  <2> QED BY <2>1, <2>3, <2>4, <2>5
<1>2. QED
  BY <1>1, TypeCorrect, ConformanceHolds, PTL

\* However many requests wait in `until_ready`, none sleeps longer than a
\* refill period before it is decided again.
THEOREM DebtBoundedHolds == Spec => []DebtBounded
<1>1. IInv => DebtBounded
  BY DEF IInv
<1>2. QED
  BY <1>1, Inductive, PTL

\* A request is only held back when Burst permits are out whose refills are
\* not over.
THEOREM HeldBackHolds == Spec => []HeldBackOnlyWhenSpent
<1>1. IInv => HeldBackOnlyWhenSpent
  <2> SUFFICES ASSUME IInv, tat - Tolerance > now
               PROVE  \E i \in 1..Len(log) :
                         /\ Len(log) - i + 1 >= Burst
                         /\ log[i] + (Len(log) - i + 2 - Burst) * CellPeriod > now
    BY DEF HeldBackOnlyWhenSpent
  <2>1. /\ now \in Nat /\ tat \in Nat /\ Len(log) \in Nat
        /\ \A i \in 1..Len(log) : log[i] \in Nat
    BY DEF IInv, TypeOK
  <2>2. tat # 0
    BY <2>1, QuotaFacts
  <2>3. PICK i \in 1..Len(log) : tat = log[i] + (Len(log) - i + 1) * CellPeriod
    BY <2>2 DEF IInv, TatTight
  <2> DEFINE k == Len(log) - i + 1
             excess == (k + 1 - Burst) * CellPeriod
  <2>4. k \in Nat /\ Len(log) - i + 2 - Burst = k + 1 - Burst
    BY <2>1, QuotaFacts
  <2>5. excess = k * CellPeriod + CellPeriod - Burst * CellPeriod
    BY <2>4, QuotaFacts
  <2>6. log[i] + excess > now
    <3>1. k * CellPeriod \in Int /\ Burst * CellPeriod \in Int
      BY <2>4, QuotaFacts
    <3>2. tat = log[i] + k * CellPeriod
      BY <2>3
    <3>3. QED
      BY <2>1, <2>5, <3>1, <3>2, QuotaFacts
  <2>7. log[i] <= now
    BY DEF IInv, ReadingsPast
  <2>8. excess > 0
    BY <2>1, <2>4, <2>6, <2>7, QuotaFacts
  <2>9. k >= Burst
    BY <2>4, <2>8, QuotaFacts
  <2>10. QED
    BY <2>4, <2>6, <2>9
<1>2. QED
  BY <1>1, Inductive, PTL
=============================================================================
