--------------------------- MODULE RegistryProofs ---------------------------
(***************************************************************************)
(* Proofs about the two jobs that write the pools of the registry: the     *)
(* price pipeline (Oracle) and interest (Accrual).                         *)
(***************************************************************************)
EXTENDS Oracle, Accrual, Sums

-----------------------------------------------------------------------------
(* The interest of every pool is accounted for, for any number of pools and
   without a bound on time.  The induction needs that no time of an object or of
   the job lies ahead of the clock: only then does a handler that accrues at the
   present time charge exactly the seconds that were missing. *)

LEMMA AccrualInitially == AccrualInit => AccrualInv
BY AccrualAssumption DEF AccrualInit, AccrualInv, AccrualTypeOK, InterestAccountedFor, NothingChargedAhead, Loaded, NoRun

\* What one accrual does to an object, at a time before, at or after its own.
LEMMA AccruedObject ==
  ASSUME NEW a \in [borrowIndex : Nat, lastAccrualTs : Nat], NEW now \in Nat
  PROVE  /\ Accrued(a, now) \in [borrowIndex : Nat, lastAccrualTs : Nat]
         /\ Accrued(a, now).lastAccrualTs = now
         /\ now >= a.lastAccrualTs =>
              Accrued(a, now).borrowIndex = a.borrowIndex + (now - a.lastAccrualTs)
         /\ now <= a.lastAccrualTs => Accrued(a, now).borrowIndex = a.borrowIndex
BY DEF Accrued

\* A pool of the job, first or later: its time is not ahead of the clock.
LEMMA JobStep ==
  ASSUME AccrualInv, NEW p \in Pools, NEW now \in Nat, now <= clock,
         NEW rest \in SUBSET Pools, JobAccrues(p, now, rest)
  PROVE  AccrualInv'
<1> DEFINE b == Accrued(accrual[p], now)
<1>1. accrual[p] \in [borrowIndex : Nat, lastAccrualTs : Nat]
  BY DEF AccrualInv, AccrualTypeOK
<1>2. /\ b \in [borrowIndex : Nat, lastAccrualTs : Nat]
      /\ b.lastAccrualTs = now
      /\ now >= accrual[p].lastAccrualTs =>
           b.borrowIndex = accrual[p].borrowIndex + (now - accrual[p].lastAccrualTs)
      /\ now <= accrual[p].lastAccrualTs => b.borrowIndex = accrual[p].borrowIndex
  BY <1>1, AccruedObject
<1>3. /\ accrual' = [accrual EXCEPT ![p] = b]
      /\ rolledBack'[p] = rolledBack[p] +
           (IF accrual[p].lastAccrualTs > now THEN accrual[p].lastAccrualTs - now ELSE 0)
      /\ \A q \in Pools \ {p} : rolledBack'[q] = rolledBack[q]
      /\ UNCHANGED <<clock, since>>
  BY DEF JobAccrues, AccrualInv, AccrualTypeOK
<1> HIDE DEF b
<1>4. AccrualTypeOK'
  BY <1>1, <1>2, <1>3 DEF JobAccrues, AccrualInv, AccrualTypeOK, NoRun
<1>5. InterestAccountedFor'
  <2> SUFFICES ASSUME NEW q \in Pools
               PROVE  accrual'[q].borrowIndex =
                        (accrual'[q].lastAccrualTs - since'[q]) + rolledBack'[q]
    BY DEF InterestAccountedFor
  <2>1. /\ accrual[q].borrowIndex = (accrual[q].lastAccrualTs - since[q]) + rolledBack[q]
        /\ since[q] \in Nat /\ rolledBack[q] \in Nat /\ since'[q] = since[q]
    BY <1>3 DEF AccrualInv, AccrualTypeOK, InterestAccountedFor
  <2>2. CASE q # p
    <3>1. accrual'[q] = accrual[q] /\ rolledBack'[q] = rolledBack[q]
      BY <1>3, <2>2 DEF AccrualInv, AccrualTypeOK
    <3> QED
      BY <2>1, <3>1
  <2>3. CASE q = p
    <3>1. accrual'[q] = b
      BY <1>3, <2>3 DEF AccrualInv, AccrualTypeOK
    <3>2. accrual[q].borrowIndex \in Nat /\ accrual[q].lastAccrualTs \in Nat
      BY DEF AccrualInv, AccrualTypeOK
    <3> QED
      BY <1>2, <1>3, <2>1, <2>3, <3>1, <3>2
  <2> QED
    BY <2>2, <2>3
<1>6. NothingChargedAhead'
  <2>1. \A q \in Pools : accrual'[q].lastAccrualTs <= clock'
    BY <1>2, <1>3 DEF AccrualInv, AccrualTypeOK, NothingChargedAhead
  <2>2. job'.now <= clock'
    BY <1>3 DEF JobAccrues
  <2> QED
    BY <2>1, <2>2 DEF NothingChargedAhead
<1> QED
  BY <1>4, <1>5, <1>6 DEF AccrualInv

LEMMA HandlerStep ==
  ASSUME AccrualInv, NEW p \in Pools, AccruePoolInterest(p)
  PROVE  AccrualInv'
<1> DEFINE b == Accrued(accrual[p], clock)
<1>1. accrual[p] \in [borrowIndex : Nat, lastAccrualTs : Nat] /\ clock \in Nat
  BY DEF AccrualInv, AccrualTypeOK
<1>2. /\ b \in [borrowIndex : Nat, lastAccrualTs : Nat]
      /\ b.lastAccrualTs = clock
      /\ b.borrowIndex = accrual[p].borrowIndex + (clock - accrual[p].lastAccrualTs)
  BY <1>1, AccruedObject DEF AccrualInv, NothingChargedAhead
<1>3. accrual' = [accrual EXCEPT ![p] = b] /\ UNCHANGED <<clock, job, since, rolledBack>>
  BY DEF AccruePoolInterest
<1> HIDE DEF b
<1>4. AccrualTypeOK'
  BY <1>2, <1>3 DEF AccrualInv, AccrualTypeOK
<1>5. InterestAccountedFor'
  BY <1>1, <1>2, <1>3 DEF AccrualInv, AccrualTypeOK, InterestAccountedFor
<1>6. NothingChargedAhead'
  BY <1>2, <1>3 DEF AccrualInv, AccrualTypeOK, NothingChargedAhead
<1> QED
  BY <1>4, <1>5, <1>6 DEF AccrualInv

\* A refresh loads a new object: nothing was charged and no second has passed.
LEMMA RefreshStep ==
  ASSUME AccrualInv, NEW p \in Pools, RefreshPool(p)
  PROVE  AccrualInv'
<1>1. AccrualTypeOK'
  <2>1. clock' \in Nat /\ since' \in [Pools -> Nat] /\ rolledBack' \in [Pools -> Nat]
    BY DEF AccrualInv, AccrualTypeOK, RefreshPool
  <2>2. accrual' \in [Pools -> [borrowIndex : Nat, lastAccrualTs : Nat]]
    BY DEF AccrualInv, AccrualTypeOK, RefreshPool, Loaded
  <2>3. job' \in {NoRun} \cup [step : {"insert"}, now : Nat, todo : SUBSET Pools]
    BY DEF AccrualInv, AccrualTypeOK, RefreshPool
  <2> QED
    BY <2>1, <2>2, <2>3 DEF AccrualTypeOK
<1>2. InterestAccountedFor'
  BY DEF AccrualInv, AccrualTypeOK, InterestAccountedFor, RefreshPool, Loaded
<1>3. NothingChargedAhead'
  BY DEF AccrualInv, AccrualTypeOK, NothingChargedAhead, RefreshPool, Loaded, NoRun
<1> QED
  BY <1>1, <1>2, <1>3 DEF AccrualInv

LEMMA AccrualPreserved == AccrualInv /\ [AccrualNext]_accrualVars => AccrualInv'
<1> SUFFICES ASSUME AccrualInv, [AccrualNext]_accrualVars PROVE AccrualInv'
  OBVIOUS
<1>1. ASSUME NEW p \in Pools, AccruePoolInterest(p) PROVE AccrualInv'
  BY <1>1, HandlerStep
<1>2. ASSUME NEW p \in Pools, RefreshPool(p) PROVE AccrualInv'
  BY <1>2, RefreshStep
<1>3. CASE StartJob
  <2>1. PICK p \in Pools : JobAccrues(p, clock, Pools \ {p})
    BY <1>3 DEF StartJob
  <2> QED
    BY <2>1, JobStep DEF AccrualInv, AccrualTypeOK
<1>4. CASE NextPool
  <2>1. /\ job \in [step : {"insert"}, now : Nat, todo : SUBSET Pools]
        /\ job.now <= clock
    BY <1>4 DEF NextPool, AccrualInv, AccrualTypeOK, NothingChargedAhead, NoRun
  <2>2. PICK p \in job.todo : JobAccrues(p, job.now, job.todo \ {p})
    BY <1>4 DEF NextPool
  <2> QED
    BY <2>1, <2>2, JobStep
<1>5. CASE EndJob
  BY <1>5 DEF EndJob, AccrualInv, AccrualTypeOK, InterestAccountedFor, NothingChargedAhead
<1>6. CASE ClockTick
  BY <1>6 DEF ClockTick, AccrualInv, AccrualTypeOK, InterestAccountedFor, NothingChargedAhead, NoRun
<1>7. CASE UNCHANGED accrualVars
  BY <1>7 DEF accrualVars, AccrualInv, AccrualTypeOK, InterestAccountedFor, NothingChargedAhead
<1> QED
  BY <1>1, <1>2, <1>3, <1>4, <1>5, <1>6, <1>7 DEF AccrualNext

\* The invariant of the accrual handlers, the job and the refresh.
THEOREM Accounted == AccrualSpec => []AccrualInv
BY AccrualInitially, AccrualPreserved, PTL DEF AccrualSpec

\* Indices, times and the job's list keep their types: no index and no time of
\* accrueInterest ever falls below zero.
THEOREM AccrualTypeCorrect == AccrualSpec => []AccrualTypeOK
<1>1. AccrualInv => AccrualTypeOK
  BY DEF AccrualInv
<1> QED
  BY <1>1, Accounted, PTL

\* For any pools and without a bound on time, handlers and the job charge each
\* second since an object was loaded, and again only those a run set back.
THEOREM InterestIsAccountedFor == AccrualSpec => []InterestAccountedFor
<1>1. AccrualInv => InterestAccountedFor
  BY DEF AccrualInv
<1> QED
  BY <1>1, Accounted, PTL

\* No handler and no run of the job charges for time that has not passed.
THEOREM NeverAhead == AccrualSpec => []NothingChargedAhead
<1>1. AccrualInv => NothingChargedAhead
  BY DEF AccrualInv
<1> QED
  BY <1>1, Accounted, PTL

-----------------------------------------------------------------------------
(* What the pipeline holds, for any number of sources and assets.  The median
   is looked into here: a price of rank k is one of the prices, so what is
   published is positive. *)

\* What the updates of a breaker's record are.
LEMMA Untripped ==
  ASSUME NEW b, NEW t, NEW u, NEW v,
         b = [isTripped |-> t, recoversIn |-> u, lastValidPrice |-> v]
  PROVE  [b EXCEPT !.isTripped = FALSE]
           = [isTripped |-> FALSE, recoversIn |-> u, lastValidPrice |-> v]
<1>1. PICK d : d = [b EXCEPT !.isTripped = FALSE]
  OBVIOUS
<1>2. d = [isTripped |-> FALSE, recoversIn |-> u, lastValidPrice |-> v]
  BY <1>1
<1> QED BY <1>1, <1>2

LEMMA Accepted ==
  ASSUME NEW b, NEW t, NEW u, NEW v,
         b = [isTripped |-> t, recoversIn |-> u, lastValidPrice |-> v], NEW p
  PROVE  [b EXCEPT !.lastValidPrice = p]
           = [isTripped |-> t, recoversIn |-> u, lastValidPrice |-> p]
<1>1. PICK d : d = [b EXCEPT !.lastValidPrice = p]
  OBVIOUS
<1>2. d = [isTripped |-> t, recoversIn |-> u, lastValidPrice |-> p]
  BY <1>1
<1> QED BY <1>1, <1>2

USE OracleAssumption

\* Only an answer that was given is fresh.
Quoted == \A s \in Sources, a \in Assets : quotes[s][a].age < TooOld => quotes[s][a].price # 0

LEMMA Highest ==
  ASSUME NEW B, IsFiniteSet(B), B # {}, NEW f, \A x \in B : f[x] \in Int
  PROVE  \E t \in B : \A s \in B : f[s] <= f[t]
<1> DEFINE Above(t) == {s \in B : f[s] > f[t]}
           C == {Above(t) : t \in B}
<1>1. PICK T \in C : \A U \in C : U \subseteq T => U = T
  <2>1. C \subseteq SUBSET B
    OBVIOUS
  <2>2. PICK x \in B : TRUE
    OBVIOUS
  <2>3. Above(x) \in C
    BY <2>2
  <2> HIDE DEF C
  <2> QED BY <2>1, <2>3, SmallestSubset
<1>2. PICK t \in B : T = Above(t)
  OBVIOUS
<1>3. ASSUME NEW s \in B, ~(f[s] <= f[t]) PROVE FALSE
  <2>1. f[s] \in Int /\ f[t] \in Int /\ s \in T /\ s \notin Above(s)
    BY <1>2, <1>3
  <2>2. Above(s) \subseteq T
    BY <1>2, <2>1
  <2>3. Above(s) \in C
    BY <1>3
  <2> HIDE DEF C
  <2>4. Above(s) = T
    BY <1>1, <2>2, <2>3
  <2> HIDE DEF Above
  <2> QED BY <2>1, <2>4
<1> QED BY <1>3

\* The k-th price in ascending order is a price.
LEMMA RankedPrice ==
  ASSUME NEW a, NEW S, IsFiniteSet(S), \A s \in S : quotes[s][a].price \in Nat,
         NEW k \in 1 .. Cardinality(S)
  PROVE  Ranked(a, S, k) \in {quotes[s][a].price : s \in S}
<1> DEFINE f == [s \in S |-> quotes[s][a].price]
           Upto(p) == {s \in S : f[s] <= p}
           Below(p) == {s \in S : f[s] < p}
           C == {T \in {Upto(f[t]) : t \in S} : k <= Cardinality(T)}
<1>1. \A s \in S : f[s] \in Int
  OBVIOUS
<1>2. \A T \in SUBSET S : IsFiniteSet(T) /\ Cardinality(T) \in Nat
  BY FS_Subset, FS_CardinalityType
<1>3. Cardinality({}) = 0 /\ Cardinality(S) \in Nat
  BY <1>2, FS_EmptySet
<1>4. C # {}
  <2>1. S # {}
    BY <1>3
  <2> HIDE DEF f
  <2>2. PICK t \in S : \A s \in S : f[s] <= f[t]
    BY <1>1, <2>1, Highest
  <2>3. Upto(f[t]) = S
    BY <2>2
  <2> QED BY <1>3, <2>3
<1>5. PICK T \in C : \A U \in C : U \subseteq T => U = T
  <2>1. C \subseteq SUBSET S
    OBVIOUS
  <2> HIDE DEF C
  <2> QED BY <1>4, <2>1, SmallestSubset
<1>6. PICK t \in S : T = Upto(f[t]) /\ k <= Cardinality(T)
  BY <1>5
<1>7. Cardinality(Below(f[t])) < k
  <2> SUFFICES ASSUME ~(Cardinality(Below(f[t])) < k) PROVE FALSE
    OBVIOUS
  <2> DEFINE B == Below(f[t])
  <2>1. B \in SUBSET S
    OBVIOUS
  <2>2. k <= Cardinality(B) /\ B # {}
    <3>1. ~(Cardinality(B) < k)
      OBVIOUS
    <3>2. Cardinality(B) \in Nat
      BY <1>2, <2>1
    <3>3. k \in Nat /\ 0 < k
      BY <1>3
    <3> DEFINE c == Cardinality(B)
    <3> HIDE DEF c
    <3>4. k <= c /\ c # 0
      BY <3>1, <3>2, <3>3 DEF c
    <3> HIDE DEF B, f
    <3> QED BY <1>3, <3>4 DEF c
  <2>3. PICK u \in B : \A s \in B : f[s] <= f[u]
    <3>1. IsFiniteSet(B) /\ \A s \in B : f[s] \in Int
      BY <1>1, <1>2, <2>1
    <3> HIDE DEF B, f
    <3> QED BY <2>2, <3>1, Highest
  <2>4. B = Upto(f[u])
    <3>1. u \in S /\ f[u] < f[t]
      OBVIOUS
    <3> HIDE DEF f
    <3> QED BY <1>1, <2>3, <3>1
  <2>5. B \in C
    BY <2>2, <2>4
  <2>6. t \in T /\ t \notin B /\ B \subseteq T
    <3> HIDE DEF f
    <3> QED BY <1>1, <1>6
  <2> HIDE DEF B, C
  <2> QED BY <1>5, <2>5, <2>6
<1>8. f[t] = quotes[t][a].price
  OBVIOUS
<1>9. \E p \in {quotes[s][a].price : s \in S} :
         /\ Cardinality({s \in S : quotes[s][a].price < p}) < k
         /\ k <= Cardinality({s \in S : quotes[s][a].price <= p})
  <2>1. Below(f[t]) = {s \in S : quotes[s][a].price < f[t]}
    OBVIOUS
  <2>2. T = {s \in S : quotes[s][a].price <= f[t]}
    BY <1>6
  <2>3. f[t] \in {quotes[s][a].price : s \in S}
    BY <1>8
  <2> HIDE DEF f
  <2> QED BY <1>6, <1>7, <2>1, <2>2, <2>3
<1> QED BY <1>9 DEF Ranked

\* So is the median, or else the mean of two.
LEMMA MedianPositive ==
  ASSUME NEW a, NEW S, IsFiniteSet(S), S # {}, \A s \in S : quotes[s][a].price \in Nat \ {0}
  PROVE  Median(a, S) \in Nat \ {0}
<1> DEFINE n == Cardinality(S)
           mid == n \div 2
<1>1. n \in Nat \ {0}
  BY FS_CardinalityType, FS_EmptySet
<1>2. \A k \in 1 .. n : Ranked(a, S, k) \in Nat \ {0}
  BY RankedPrice
<1> HIDE DEF n
<1>3. CASE n % 2 = 1
  <2>1. mid + 1 \in 1 .. n
    BY <1>1, <1>3
  <2>2. Median(a, S) = Ranked(a, S, mid + 1)
    BY <1>3 DEF Median, n
  <2> QED BY <1>2, <2>1, <2>2
<1>4. CASE n % 2 # 1
  <2>1. mid \in 1 .. n /\ mid + 1 \in 1 .. n
    BY <1>1, <1>4
  <2>2. Median(a, S) = (Ranked(a, S, mid) + Ranked(a, S, mid + 1)) \div 2
    BY <1>4 DEF Median, n
  <2>3. Ranked(a, S, mid) \in Nat \ {0} /\ Ranked(a, S, mid + 1) \in Nat \ {0}
    BY <1>2, <2>1
  <2>4. \A i, j \in Nat \ {0} : (i + j) \div 2 \in Nat \ {0}
    OBVIOUS
  <2> QED BY <2>2, <2>3, <2>4
<1> QED BY <1>3, <1>4

Breaker == [isTripped : BOOLEAN, recoversIn : 0 .. RecoveryWindow, lastValidPrice : Nat]

\* A breaker after a check: a breaker whose recovery only runs while it is tripped.
LEMMA CheckedBreaker ==
  ASSUME NEW b \in Breaker, b.recoversIn > 0 => b.isTripped, NEW price \in Nat, NEW n
  PROVE  LET c == CheckCircuitBreaker(b, price, n)
         IN  c \in Breaker /\ (c.recoversIn > 0 => c.isTripped)
<1>1. PICK t \in BOOLEAN, u \in 0 .. RecoveryWindow, v \in Nat :
           b = [isTripped |-> t, recoversIn |-> u, lastValidPrice |-> v]
  BY DEF Breaker
<1>2. u > 0 => t
  BY <1>1
<1>3. PICK s \in BOOLEAN :
           /\ Recovered(b) = [isTripped |-> s, recoversIn |-> u, lastValidPrice |-> v]
           /\ u > 0 => s
  <2>1. CASE b.isTripped /\ b.recoversIn = 0
    <3>1. Recovered(b) = [b EXCEPT !.isTripped = FALSE]
      BY <2>1 DEF Recovered
    <3>2. Recovered(b) = [isTripped |-> FALSE, recoversIn |-> u, lastValidPrice |-> v]
      BY <1>1, <3>1, Untripped
    <3>3. ~(u > 0)
      BY <1>1, <2>1
    <3> QED BY <3>2, <3>3
  <2>2. CASE ~(b.isTripped /\ b.recoversIn = 0)
    <3>1. Recovered(b) = [isTripped |-> t, recoversIn |-> u, lastValidPrice |-> v]
      BY <1>1, <2>2 DEF Recovered
    <3> QED BY <1>2, <3>1
  <2> QED BY <2>1, <2>2
<1>0. PICK r : r = Recovered(b)
  OBVIOUS
<1>4. CheckCircuitBreaker(b, price, n) \in {r, Trip(r), [r EXCEPT !.lastValidPrice = price]}
  <2>1. \/ CheckCircuitBreaker(b, price, n) = r
        \/ CheckCircuitBreaker(b, price, n) = Trip(r)
        \/ CheckCircuitBreaker(b, price, n) = [r EXCEPT !.lastValidPrice = price]
    <3>1. CASE r.isTripped
      BY <1>0, <3>1 DEF CheckCircuitBreaker
    <3>2. CASE ~r.isTripped /\ (n < MinSources \/ Deviates(price, r.lastValidPrice))
      BY <1>0, <3>2 DEF CheckCircuitBreaker
    <3>3. CASE ~r.isTripped /\ ~(n < MinSources \/ Deviates(price, r.lastValidPrice))
      BY <1>0, <3>3 DEF CheckCircuitBreaker
    <3> QED BY <3>1, <3>2, <3>3
  <2> QED BY <2>1
<1>5. r = [isTripped |-> s, recoversIn |-> u, lastValidPrice |-> v]
  BY <1>0, <1>3
<1>6. Trip(r) = [isTripped |-> TRUE, recoversIn |-> RecoveryWindow, lastValidPrice |-> v]
  <2>1. PICK d : d = [r EXCEPT !.isTripped = TRUE]
    OBVIOUS
  <2>2. d = [isTripped |-> TRUE, recoversIn |-> u, lastValidPrice |-> v]
    BY <1>5, <2>1
  <2>3. PICK c : c = [d EXCEPT !.recoversIn = RecoveryWindow]
    OBVIOUS
  <2>4. c = [isTripped |-> TRUE, recoversIn |-> RecoveryWindow, lastValidPrice |-> v]
    BY <2>2, <2>3
  <2>5. Trip(r) = c
    BY <2>1, <2>3 DEF Trip
  <2> QED BY <2>4, <2>5
<1>7. [r EXCEPT !.lastValidPrice = price]
        = [isTripped |-> s, recoversIn |-> u, lastValidPrice |-> price]
  BY <1>5, Accepted
<1>8. RecoveryWindow \in 0 .. RecoveryWindow
  OBVIOUS
<1>9. \A x \in BOOLEAN, y \in 0 .. RecoveryWindow, z \in Nat : (y > 0 => x) =>
         LET c == [isTripped |-> x, recoversIn |-> y, lastValidPrice |-> z]
         IN  c \in Breaker /\ (c.recoversIn > 0 => c.isTripped)
  BY DEF Breaker
<1>10. r \in Breaker /\ (r.recoversIn > 0 => r.isTripped)
  BY <1>3, <1>5, <1>9
<1>11. Trip(r) \in Breaker /\ (Trip(r).recoversIn > 0 => Trip(r).isTripped)
  BY <1>6, <1>8, <1>9
<1>12. LET c == [r EXCEPT !.lastValidPrice = price]
       IN  c \in Breaker /\ (c.recoversIn > 0 => c.isTripped)
  BY <1>3, <1>7, <1>9
<1> QED BY <1>4, <1>10, <1>11, <1>12

LEMMA StartedQuotes ==
  /\ Started \in [Sources -> [Assets -> [price : Nat, age : 0 .. TooOld]]]
  /\ \A s \in Sources, a \in Assets : Started[s][a].age < TooOld => Started[s][a].price # 0
<1>1. \A c \in DOMAIN NavPrices : NavPrices[c] \in Nat \ {0}
  OBVIOUS
<1>2. ASSUME NEW s \in Sources, NEW a \in Assets
      PROVE  /\ Started[s][a] \in [price : Nat, age : 0 .. TooOld]
             /\ Started[s][a].age < TooOld => Started[s][a].price # 0
  <2>1. Started[s][a] = IF <<s, a>> \in DOMAIN NavPrices
                        THEN [price |-> NavPrices[<<s, a>>], age |-> 0] ELSE Nothing
    BY DEF Started
  <2> QED BY <1>1, <2>1 DEF Nothing, NoPrice, TooOld
<1> QED BY <1>2 DEF Started

\* A run publishes positive prices.
LEMMA AggregateTypes ==
  ASSUME TypeOK, Quoted, Aggregate
  PROVE  TypeOK' /\ Quoted'
<1> DEFINE assets == {a \in Assets : Fresh(a) # {}}
<1>1. /\ breakers' = [a \in Assets |->
             IF a \in assets
             THEN CheckCircuitBreaker(breakers[a], Median(a, Fresh(a)), Cardinality(Fresh(a)))
             ELSE breakers[a]]
      /\ latest' = [a \in Assets |-> IF a \in assets THEN Judged(a, breakers'[a]) ELSE latest[a]]
      /\ cycle' = [step |-> "store", aggregated |-> [a \in assets |-> latest'[a]]]
      /\ quotes' = AnswersGone /\ pools' = pools
  BY DEF Aggregate
<1>2. ASSUME NEW a \in assets PROVE Median(a, Fresh(a)) \in Nat \ {0}
  <2>1. IsFiniteSet(Fresh(a)) /\ Fresh(a) # {} /\ a \in Assets
    BY FS_Subset DEF Fresh
  <2>2. \A s \in Fresh(a) : quotes[s][a].price \in Nat \ {0}
    BY <2>1 DEF Fresh, TypeOK, Quoted, TooOld
  <2> QED BY <2>1, <2>2, MedianPositive
<1>3. ASSUME NEW a \in Assets
      PROVE  breakers'[a] \in Breaker /\ (breakers'[a].recoversIn > 0 => breakers'[a].isTripped)
  <2>1. breakers[a] \in Breaker /\ (breakers[a].recoversIn > 0 => breakers[a].isTripped)
    BY DEF TypeOK, Breaker
  <2>2. CASE a \in assets
    <3>1. breakers'[a] = CheckCircuitBreaker(breakers[a], Median(a, Fresh(a)), Cardinality(Fresh(a)))
      BY <1>1, <2>2
    <3> HIDE DEF assets
    <3> QED BY <1>2, <2>1, <2>2, <3>1, CheckedBreaker
  <2>3. CASE a \notin assets
    BY <1>1, <2>1, <2>3
  <2> QED BY <2>2, <2>3
<1>4. ASSUME NEW a \in Assets
      PROVE  latest'[a] \in Nat /\ (a \in assets => latest'[a] # 0)
  <2>1. latest[a] \in Nat
    BY DEF TypeOK
  <2>2. CASE a \in assets
    <3>1. latest'[a] = Judged(a, breakers'[a])
      BY <1>1, <2>2
    <3> HIDE DEF assets
    <3> QED BY <1>2, <2>1, <2>2, <3>1 DEF Judged, NoPrice
  <2>3. CASE a \notin assets
    BY <1>1, <2>1, <2>3
  <2> QED BY <2>2, <2>3
<1>5. /\ breakers' \in [Assets -> Breaker] /\ latest' \in [Assets -> Nat]
      /\ \A a \in Assets : breakers'[a].recoversIn > 0 => breakers'[a].isTripped
  <2>1. breakers' = [a \in Assets |-> breakers'[a]] /\ latest' = [a \in Assets |-> latest'[a]]
    BY <1>1
  <2> QED BY <1>3, <1>4, <2>1
<1>6. /\ cycle'.step = "store" /\ DOMAIN cycle'.aggregated = assets /\ assets \subseteq Assets
      /\ cycle'.aggregated \in [assets -> Nat \ {0}]
  BY <1>1, <1>4
<1>7. /\ quotes' \in [Sources -> [Assets -> [price : Nat, age : 0 .. TooOld]]]
      /\ Quoted'
  <2>1. \A s \in Sources : quotes'[s] = IF s \in Polled THEN [a \in Assets |-> Nothing] ELSE quotes[s]
    BY <1>1 DEF AnswersGone
  <2>2. Nothing \in [price : Nat, age : 0 .. TooOld] /\ ~(Nothing.age < TooOld)
    BY DEF Nothing, NoPrice, TooOld
  <2>3. quotes' \in [Sources -> [Assets -> [price : Nat, age : 0 .. TooOld]]]
    BY <1>1, <2>2 DEF AnswersGone, TypeOK
  <2>4. Quoted'
    BY <2>1, <2>2 DEF Quoted
  <2> QED BY <2>3, <2>4
<1> HIDE DEF assets
<1> QED BY <1>1, <1>5, <1>6, <1>7 DEF TypeOK, Breaker

LEMMA TypesPreserved == TypeOK /\ Quoted /\ [Next]_vars => TypeOK' /\ Quoted'
<1> SUFFICES ASSUME TypeOK, Quoted, [Next]_vars PROVE TypeOK' /\ Quoted'
  OBVIOUS
<1>1. ASSUME NEW c \in Covers, NEW p \in Prices, Quote(c[1], c[2], p)
      PROVE  TypeOK' /\ Quoted'
  <2>1. c[1] \in Sources /\ c[2] \in Assets /\ p \in Nat \ {0}
    OBVIOUS
  <2>2. /\ quotes' = [quotes EXCEPT ![c[1]][c[2]] = [price |-> p, age |-> 0]]
        /\ UNCHANGED <<breakers, latest, pools, cycle>>
    BY <1>1 DEF Quote
  <2>3. [price |-> p, age |-> 0] \in [price : Nat, age : 0 .. TooOld]
    BY <2>1 DEF TooOld
  <2>4. quotes' \in [Sources -> [Assets -> [price : Nat, age : 0 .. TooOld]]]
    BY <2>1, <2>2, <2>3 DEF TypeOK
  <2>5. \A s \in Sources, a \in Assets :
          quotes'[s][a] = quotes[s][a] \/ quotes'[s][a] = [price |-> p, age |-> 0]
    BY <2>1, <2>2 DEF TypeOK
  <2>6. Quoted'
    BY <2>1, <2>5 DEF Quoted
  <2> QED BY <2>2, <2>4, <2>6 DEF TypeOK
<1>2. CASE Restart
  <2>1. TypeOK'
    BY <1>2, StartedQuotes DEF Restart, TypeOK, Closed, Idle, NoPrice
  <2> QED BY <1>2, <2>1, StartedQuotes DEF Restart, Quoted
<1>3. CASE Tick
  <2>1. UNCHANGED <<latest, pools, cycle>>
    BY <1>3 DEF Tick
  <2>2. ASSUME NEW x \in [price : Nat, age : 0 .. TooOld], x.age < TooOld => x.price # 0
        PROVE  /\ Aged(x) \in [price : Nat, age : 0 .. TooOld]
               /\ Aged(x).age < TooOld => Aged(x).price # 0
    BY <2>2 DEF Aged, TooOld
  <2>3. ASSUME NEW s \in Sources, NEW a \in Assets
        PROVE  /\ quotes'[s][a] \in [price : Nat, age : 0 .. TooOld]
               /\ quotes'[s][a].age < TooOld => quotes'[s][a].price # 0
    <3>1. /\ quotes[s][a] \in [price : Nat, age : 0 .. TooOld]
          /\ quotes[s][a].age < TooOld => quotes[s][a].price # 0
      BY DEF TypeOK, Quoted
    <3>2. quotes'[s][a] = quotes[s][a] \/ quotes'[s][a] = Aged(quotes[s][a])
      BY <1>3 DEF Tick
    <3> QED BY <2>2, <3>1, <3>2
  <2>4. quotes' \in [Sources -> [Assets -> [price : Nat, age : 0 .. TooOld]]] /\ Quoted'
    <3>1. quotes' = [s \in Sources |-> [a \in Assets |-> quotes'[s][a]]]
      <4>1. \A s \in Sources : quotes[s] = [a \in Assets |-> quotes[s][a]]
        BY DEF TypeOK
      <4> QED BY <1>3, <4>1 DEF Tick
    <3>2. \A s \in Sources : [a \in Assets |-> quotes'[s][a]]
            \in [Assets -> [price : Nat, age : 0 .. TooOld]]
      BY <2>3
    <3> QED BY <2>3, <3>1, <3>2 DEF Quoted
  <2>5. ASSUME NEW a \in Assets
        PROVE  breakers'[a] \in Breaker /\ (breakers'[a].recoversIn > 0 => breakers'[a].isTripped)
    <3>1. breakers[a] \in Breaker /\ (breakers[a].recoversIn > 0 => breakers[a].isTripped)
      BY DEF TypeOK, Breaker
    <3>2. breakers'[a] = [breakers[a] EXCEPT !.recoversIn =
                            IF breakers[a].recoversIn > 0 THEN breakers[a].recoversIn - 1 ELSE 0]
      BY <1>3 DEF Tick
    <3> QED BY <3>1, <3>2 DEF Breaker
  <2>6. breakers' \in [Assets -> Breaker]
    <3>1. breakers' = [a \in Assets |-> breakers'[a]]
      BY <1>3 DEF Tick
    <3> QED BY <2>5, <3>1
  <2> QED BY <2>1, <2>4, <2>5, <2>6 DEF TypeOK, Breaker
<1>4. CASE StartCycle
  BY <1>4 DEF StartCycle, TypeOK, Quoted, Idle
<1>5. CASE Aggregate
  BY <1>5, AggregateTypes
<1>6. CASE UpdatePools
  <2>1. \A a \in Assets : (IF a \in DOMAIN cycle.aggregated THEN cycle.aggregated[a] ELSE pools[a])
          \in Nat \ {0}
    BY <1>6 DEF UpdatePools, TypeOK, Idle
  <2> QED BY <1>6, <2>1 DEF UpdatePools, TypeOK, Quoted
<1>7. ASSUME NEW a \in Assets, ResetCircuitBreaker(a)
      PROVE  TypeOK' /\ Quoted'
  <2>1. /\ breakers' = [breakers EXCEPT ![a].isTripped = FALSE, ![a].recoversIn = 0]
        /\ UNCHANGED <<quotes, latest, pools, cycle>>
    BY <1>7 DEF ResetCircuitBreaker
  <2>2. breakers \in [Assets -> Breaker]
    BY DEF TypeOK, Breaker
  <2>3. /\ \A q \in Assets \ {a} : breakers'[q] = breakers[q]
        /\ breakers'[a] = [[breakers[a] EXCEPT !.isTripped = FALSE] EXCEPT !.recoversIn = 0]
        /\ breakers' = [q \in Assets |-> breakers'[q]]
    BY <2>1, <2>2
  <2>4. breakers'[a] \in Breaker /\ breakers'[a].recoversIn = 0
    <3>1. 0 \in 0 .. RecoveryWindow /\ breakers[a] \in Breaker
      BY <2>2
    <3> QED BY <2>3, <3>1 DEF Breaker
  <2>5. breakers' \in [Assets -> Breaker]
    BY <2>2, <2>3, <2>4
  <2> QED BY <2>1, <2>3, <2>4, <2>5 DEF TypeOK, Quoted, Breaker
<1>8. CASE UNCHANGED vars
  BY <1>8 DEF vars, TypeOK, Quoted
<1> QED BY <1>1, <1>2, <1>3, <1>4, <1>5, <1>6, <1>7, <1>8 DEF Next

\* Whatever sources answer and however breakers trip, prices are positive once
\* published, and only a tripped breaker waits for its recovery.
THEOREM OracleTypeCorrect == Spec => []TypeOK
<1>1. Init => TypeOK /\ Quoted
  <2>1. Init => TypeOK
    BY StartedQuotes DEF Init, TypeOK, Closed, Idle, NoPrice
  <2> QED BY <2>1, StartedQuotes DEF Init, Quoted
<1> QED BY <1>1, TypesPreserved, PTL DEF Spec
-----------------------------------------------------------------------------
(* With one source enough, as configured, a price only reaches the pools
   through the breaker, for any assets, sources, prices, thresholds and times.

   The median is not looked into: whatever calculateMedian returns, the breaker
   judges it.  The argument needs that a breaker that is tripped has accepted a
   price before (Trippable): as an asset is only judged when it has a source, a
   deviation from that price is all that can trip it, and then there is a
   published price to keep. *)

\* The variables are functions on the assets, breakers are records.
Shape ==
  /\ breakers = [a \in Assets |->
       [isTripped |-> breakers[a].isTripped, recoversIn |-> breakers[a].recoversIn,
        lastValidPrice |-> breakers[a].lastValidPrice]]
  /\ latest = [a \in Assets |-> latest[a]]
  /\ pools = [a \in Assets |-> pools[a]]

Trippable == \A a \in Assets : breakers[a].isTripped => breakers[a].lastValidPrice # NoPrice

\* The price a pool holds, and the one on its way to it.
OnItsWay ==
  \A a \in Assets :
    IF cycle.step = "store" /\ a \in DOMAIN cycle.aggregated
    THEN /\ cycle.aggregated[a] = latest[a]
         /\ \/ pools[a] \in {latest[a], BootstrapPrice}
            \/ ~Deviates(latest[a], pools[a])
    ELSE \/ pools[a] = latest[a]
         \/ latest[a] = NoPrice /\ pools[a] = BootstrapPrice

IInv == Shape /\ PublishedIsValid /\ Trippable /\ OnItsWay

\* No price is published yet, and the pools hold their bootstrap value.
LEMMA Initially == Init => IInv
BY DEF Init, IInv, Shape, PublishedIsValid, Trippable, OnItsWay, Closed, Idle

\* An asset that is judged has a source.
LEMMA Sourced ==
  ASSUME NEW a \in Assets, Fresh(a) # {}
  PROVE  Cardinality(Fresh(a)) \in Nat \ {0}
<1>1. IsFiniteSet(Fresh(a))
  BY FS_Subset DEF Fresh
<1> QED
  BY <1>1, FS_CardinalityType, FS_EmptySet

\* The breaker accepts the price, which then does not deviate, or is tripped and
\* keeps a price it has accepted before.
LEMMA Check ==
  ASSUME NEW b, b = [isTripped |-> b.isTripped, recoversIn |-> b.recoversIn,
                     lastValidPrice |-> b.lastValidPrice],
         b.isTripped => b.lastValidPrice # NoPrice,
         NEW price, NEW n \in Nat \ {0}, MinSources <= 1,
         NEW c, c = CheckCircuitBreaker(b, price, n)
  PROVE  /\ c = [isTripped |-> c.isTripped, recoversIn |-> c.recoversIn,
                 lastValidPrice |-> c.lastValidPrice]
         /\ \/ /\ c.isTripped
               /\ c.lastValidPrice = b.lastValidPrice
               /\ c.lastValidPrice # NoPrice
            \/ /\ ~c.isTripped
               /\ c.lastValidPrice = price
               /\ ~Deviates(price, b.lastValidPrice)
<1> DEFINE r == Recovered(b)
<1>1. /\ r = [isTripped |-> r.isTripped, recoversIn |-> b.recoversIn,
              lastValidPrice |-> b.lastValidPrice]
      /\ r.isTripped => b.isTripped
  BY DEF Recovered
<1>2. ~(n < MinSources)
  OBVIOUS
<1> HIDE DEF r
<1>3. CASE r.isTripped
  <2>1. c = r
    BY <1>3 DEF CheckCircuitBreaker, r
  <2> QED
    BY <1>1, <1>3, <2>1
<1>4. CASE ~r.isTripped /\ Deviates(price, r.lastValidPrice)
  <2>1. c = Trip(r)
    BY <1>4 DEF CheckCircuitBreaker, r
  <2>2. r.lastValidPrice # NoPrice
    BY <1>4 DEF Deviates
  <2>3. c = [isTripped |-> TRUE, recoversIn |-> RecoveryWindow,
             lastValidPrice |-> b.lastValidPrice]
    <3> DEFINE t == r.isTripped
               u == b.recoversIn
               v == b.lastValidPrice
    <3>1. r = [isTripped |-> t, recoversIn |-> u, lastValidPrice |-> v]
      BY <1>1
    <3> HIDE DEF t, u, v
    <3>2. c = [isTripped |-> TRUE, recoversIn |-> RecoveryWindow, lastValidPrice |-> v]
      BY <2>1, <3>1 DEF Trip
    <3> QED
      BY <3>2 DEF v
  <2> QED
    BY <1>1, <2>2, <2>3
<1>5. CASE ~r.isTripped /\ ~Deviates(price, r.lastValidPrice)
  <2>1. c = [r EXCEPT !.lastValidPrice = price]
    BY <1>2, <1>5 DEF CheckCircuitBreaker, r
  <2>2. c = [isTripped |-> FALSE, recoversIn |-> b.recoversIn, lastValidPrice |-> price]
        \/ c = [isTripped |-> r.isTripped, recoversIn |-> b.recoversIn, lastValidPrice |-> price]
    BY <1>1, <2>1
  <2> QED
    BY <1>1, <1>5, <2>2
<1> QED
  BY <1>3, <1>4, <1>5

\* A run publishes for every asset what its breaker accepted last, and what it
\* publishes does not deviate from what the pools hold.
LEMMA AggregateStep ==
  ASSUME IInv, Aggregate, MinSources <= 1
  PROVE  IInv'
<1> DEFINE assets == {a \in Assets : Fresh(a) # {}}
<1>1. /\ breakers' = [a \in Assets |->
             IF a \in assets
             THEN CheckCircuitBreaker(breakers[a], Median(a, Fresh(a)), Cardinality(Fresh(a)))
             ELSE breakers[a]]
      /\ latest' = [a \in Assets |-> IF a \in assets THEN Judged(a, breakers'[a]) ELSE latest[a]]
      /\ cycle' = [step |-> "store", aggregated |-> [a \in assets |-> latest'[a]]]
      /\ pools' = pools
      /\ cycle.step # "store"
  BY DEF Aggregate
<1>2. /\ cycle'.step = "store"
      /\ DOMAIN cycle'.aggregated = assets
      /\ \A a \in assets : cycle'.aggregated[a] = latest'[a]
  BY <1>1
<1>3. ASSUME NEW a \in Assets
      PROVE  /\ breakers'[a] =
                  [isTripped |-> breakers'[a].isTripped, recoversIn |-> breakers'[a].recoversIn,
                   lastValidPrice |-> breakers'[a].lastValidPrice]
             /\ latest'[a] = breakers'[a].lastValidPrice
             /\ breakers'[a].isTripped => breakers'[a].lastValidPrice # NoPrice
             /\ IF a \in assets
                THEN \/ pools[a] \in {latest'[a], BootstrapPrice}
                     \/ ~Deviates(latest'[a], pools[a])
                ELSE latest'[a] = latest[a]
  <2>1. /\ breakers[a] =
             [isTripped |-> breakers[a].isTripped, recoversIn |-> breakers[a].recoversIn,
              lastValidPrice |-> breakers[a].lastValidPrice]
        /\ latest[a] = breakers[a].lastValidPrice
        /\ breakers[a].isTripped => breakers[a].lastValidPrice # NoPrice
        /\ \/ pools[a] = latest[a]
           \/ latest[a] = NoPrice /\ pools[a] = BootstrapPrice
    BY <1>1 DEF IInv, Shape, PublishedIsValid, Trippable, OnItsWay
  <2>2. CASE a \notin assets
    <3>1. breakers'[a] = breakers[a] /\ latest'[a] = latest[a]
      BY <1>1, <2>2
    <3> QED
      BY <2>1, <2>2, <3>1
  <2>3. CASE a \in assets
    <3> DEFINE price == Median(a, Fresh(a))
               c == CheckCircuitBreaker(breakers[a], price, Cardinality(Fresh(a)))
    <3>1. breakers'[a] = c /\ latest'[a] = Judged(a, c)
      BY <1>1, <2>3
    <3>2. Cardinality(Fresh(a)) \in Nat \ {0}
      BY <2>3, Sourced
    <3> HIDE DEF c, price
    <3>3. /\ c = [isTripped |-> c.isTripped, recoversIn |-> c.recoversIn,
                  lastValidPrice |-> c.lastValidPrice]
          /\ \/ /\ c.isTripped
                /\ c.lastValidPrice = breakers[a].lastValidPrice
                /\ c.lastValidPrice # NoPrice
             \/ /\ ~c.isTripped
                /\ c.lastValidPrice = price
                /\ ~Deviates(price, breakers[a].lastValidPrice)
      BY <2>1, <3>2, Check DEF c
    <3>4. CASE c.isTripped
      <4>1. latest'[a] = latest[a] /\ c.lastValidPrice = latest[a] /\ latest[a] # NoPrice
        BY <2>1, <3>1, <3>3, <3>4 DEF Judged
      <4> QED
        BY <2>1, <2>3, <3>1, <3>3, <4>1
    <3>5. CASE ~c.isTripped
      <4>1. latest'[a] = price /\ c.lastValidPrice = price /\ ~Deviates(price, latest[a])
        BY <2>1, <3>1, <3>3, <3>5 DEF Judged, price
      <4> QED
        BY <2>1, <2>3, <3>1, <3>3, <3>5, <4>1
    <3> QED
      BY <3>4, <3>5
  <2> QED
    BY <2>2, <2>3
<1>4. Shape'
  <2>1. breakers' = [a \in Assets |-> breakers'[a]] /\ latest' = [a \in Assets |-> latest'[a]]
    BY <1>1
  <2> QED
    BY <1>1, <1>3, <2>1 DEF IInv, Shape
<1>5. PublishedIsValid' /\ Trippable'
  BY <1>3 DEF PublishedIsValid, Trippable
<1>6. OnItsWay'
  <2> SUFFICES ASSUME NEW a \in Assets
      PROVE  IF cycle'.step = "store" /\ a \in DOMAIN cycle'.aggregated
             THEN /\ cycle'.aggregated[a] = latest'[a]
                  /\ \/ pools'[a] \in {latest'[a], BootstrapPrice}
                     \/ ~Deviates(latest'[a], pools'[a])
             ELSE \/ pools'[a] = latest'[a]
                  \/ latest'[a] = NoPrice /\ pools'[a] = BootstrapPrice
    BY DEF OnItsWay
  <2>1. CASE a \in assets
    BY <1>1, <1>2, <1>3, <2>1
  <2>2. CASE a \notin assets
    <3>1. \/ pools[a] = latest[a]
          \/ latest[a] = NoPrice /\ pools[a] = BootstrapPrice
      BY <1>1 DEF IInv, OnItsWay
    <3> QED
      BY <1>1, <1>2, <1>3, <2>2, <3>1
  <2> QED
    BY <2>1, <2>2
<1> QED
  BY <1>4, <1>5, <1>6 DEF IInv

\* The prices of the run reach the pools.
LEMMA UpdateStep ==
  ASSUME IInv, UpdatePools
  PROVE  /\ IInv'
         /\ \A a \in Assets : pools'[a] # pools[a] =>
              ~Deviates(pools'[a], pools[a]) \/ BootstrapPrice \in {pools[a], pools'[a]}
<1>1. /\ pools' = [a \in Assets |->
             IF a \in DOMAIN cycle.aggregated THEN cycle.aggregated[a] ELSE pools[a]]
      /\ cycle.step = "store" /\ cycle'.step = "idle"
      /\ UNCHANGED <<breakers, latest>>
  BY DEF UpdatePools, Idle
<1>2. ASSUME NEW a \in Assets
      PROVE  /\ \/ pools'[a] = latest[a]
                \/ latest[a] = NoPrice /\ pools'[a] = BootstrapPrice
             /\ pools'[a] # pools[a] =>
                  ~Deviates(pools'[a], pools[a]) \/ BootstrapPrice \in {pools[a], pools'[a]}
  <2>1. pools'[a] = IF a \in DOMAIN cycle.aggregated THEN cycle.aggregated[a] ELSE pools[a]
    BY <1>1
  <2>2. IF a \in DOMAIN cycle.aggregated
        THEN /\ cycle.aggregated[a] = latest[a]
             /\ \/ pools[a] \in {latest[a], BootstrapPrice}
                \/ ~Deviates(latest[a], pools[a])
        ELSE \/ pools[a] = latest[a]
             \/ latest[a] = NoPrice /\ pools[a] = BootstrapPrice
    BY <1>1 DEF IInv, OnItsWay
  <2> QED
    BY <2>1, <2>2
<1>3. Shape'
  BY <1>1 DEF IInv, Shape
<1>4. PublishedIsValid' /\ Trippable'
  BY <1>1 DEF IInv, PublishedIsValid, Trippable
<1>5. OnItsWay'
  BY <1>1, <1>2 DEF OnItsWay
<1> QED
  BY <1>2, <1>3, <1>4, <1>5 DEF IInv

\* What a reset makes of a breaker.
LEMMA ResetRecord ==
  ASSUME NEW b, NEW t, NEW u, NEW v,
         b = [isTripped |-> t, recoversIn |-> u, lastValidPrice |-> v],
         NEW c, c = [[b EXCEPT !.isTripped = FALSE] EXCEPT !.recoversIn = 0]
  PROVE  c = [isTripped |-> FALSE, recoversIn |-> 0, lastValidPrice |-> v]
<1>1. PICK d : d = [b EXCEPT !.isTripped = FALSE]
  OBVIOUS
<1>2. d = [isTripped |-> FALSE, recoversIn |-> u, lastValidPrice |-> v]
  BY <1>1
<1>3. c = [d EXCEPT !.recoversIn = 0]
  BY <1>1
<1> QED
  BY <1>2, <1>3

\* No step breaks the invariant, and only the end of a run changes what pools
\* hold, but for a restart.
LEMMA Preserved ==
  ASSUME MinSources <= 1, IInv, [Next]_vars
  PROVE  IInv' /\ (\A a \in Assets : pools'[a] # pools[a] =>
                     ~Deviates(pools'[a], pools[a]) \/ BootstrapPrice \in {pools[a], pools'[a]})
<1>1. CASE UNCHANGED <<breakers, latest, pools, cycle>>
  BY <1>1 DEF IInv, Shape, PublishedIsValid, Trippable, OnItsWay
<1>2. CASE Tick
  <2>1. /\ breakers' = [a \in Assets |->
               [breakers[a] EXCEPT !.recoversIn = IF @ > 0 THEN @ - 1 ELSE 0]]
        /\ UNCHANGED <<latest, pools, cycle>>
    BY <1>2 DEF Tick
  <2>2. \A a \in Assets : breakers'[a] =
          [isTripped |-> breakers[a].isTripped,
           recoversIn |-> IF breakers[a].recoversIn > 0 THEN breakers[a].recoversIn - 1 ELSE 0,
           lastValidPrice |-> breakers[a].lastValidPrice]
    BY <2>1 DEF IInv, Shape
  <2>3. Shape'
    BY <2>1, <2>2 DEF IInv, Shape
  <2>4. ASSUME NEW a \in Assets
        PROVE  /\ breakers'[a].isTripped = breakers[a].isTripped
               /\ breakers'[a].lastValidPrice = breakers[a].lastValidPrice
    <3> DEFINE left == IF breakers[a].recoversIn > 0 THEN breakers[a].recoversIn - 1 ELSE 0
    <3>1. breakers'[a] = [isTripped |-> breakers[a].isTripped, recoversIn |-> left,
                          lastValidPrice |-> breakers[a].lastValidPrice]
      BY <2>2
    <3> HIDE DEF left
    <3> QED
      BY <3>1
  <2>5. PublishedIsValid' /\ Trippable'
    BY <2>1, <2>4 DEF IInv, PublishedIsValid, Trippable
  <2>6. OnItsWay'
    BY <2>1 DEF IInv, OnItsWay
  <2> QED
    BY <2>1, <2>3, <2>5, <2>6 DEF IInv
<1>3. CASE StartCycle
  <2>1. cycle.step # "store" /\ cycle'.step # "store" /\ UNCHANGED <<breakers, latest, pools>>
    BY <1>3 DEF StartCycle, Idle
  <2> QED
    BY <2>1 DEF IInv, Shape, PublishedIsValid, Trippable, OnItsWay
<1>4. CASE Aggregate
  BY <1>4, AggregateStep DEF Aggregate
<1>5. CASE UpdatePools
  BY <1>5, UpdateStep
<1>6. CASE Restart
  <2>1. IInv'
    BY <1>6 DEF Restart, IInv, Shape, PublishedIsValid, Trippable, OnItsWay, Closed, Idle
  <2>2. \A a \in Assets : pools'[a] = BootstrapPrice
    BY <1>6 DEF Restart
  <2> QED
    BY <2>1, <2>2
<1>7. ASSUME NEW a \in Assets, ResetCircuitBreaker(a)
      PROVE  IInv' /\ UNCHANGED pools
  <2>1. /\ breakers' = [breakers EXCEPT ![a].isTripped = FALSE, ![a].recoversIn = 0]
        /\ UNCHANGED <<latest, pools, cycle>>
    BY <1>7 DEF ResetCircuitBreaker
  <2>2. \A q \in Assets : breakers'[q] =
          IF q = a
          THEN [isTripped |-> FALSE, recoversIn |-> 0, lastValidPrice |-> breakers[q].lastValidPrice]
          ELSE breakers[q]
    <3>1. DOMAIN breakers = Assets
      BY DEF IInv, Shape
    <3>2. \A q \in Assets : q # a => breakers'[q] = breakers[q]
      BY <2>1, <3>1
    <3>3. breakers'[a] = [[breakers[a] EXCEPT !.isTripped = FALSE] EXCEPT !.recoversIn = 0]
      BY <2>1, <3>1
    <3>4. breakers'[a] = [isTripped |-> FALSE, recoversIn |-> 0,
                          lastValidPrice |-> breakers[a].lastValidPrice]
      <4> DEFINE t == breakers[a].isTripped
                 u == breakers[a].recoversIn
                 v == breakers[a].lastValidPrice
      <4>1. breakers[a] = [isTripped |-> t, recoversIn |-> u, lastValidPrice |-> v]
        BY DEF IInv, Shape
      <4> HIDE DEF t, u, v
      <4>2. \A b, c : /\ b = [isTripped |-> t, recoversIn |-> u, lastValidPrice |-> v]
                      /\ c = [[b EXCEPT !.isTripped = FALSE] EXCEPT !.recoversIn = 0]
                     => c = [isTripped |-> FALSE, recoversIn |-> 0, lastValidPrice |-> v]
        BY ResetRecord
      <4>3. breakers'[a] = [isTripped |-> FALSE, recoversIn |-> 0, lastValidPrice |-> v]
        BY <3>3, <4>1, <4>2, Zenon
      <4> QED
        BY <4>3 DEF v
    <3> QED
      BY <3>2, <3>4
  <2>3. Shape'
    BY <2>1, <2>2 DEF IInv, Shape
  <2>4. ASSUME NEW q \in Assets
        PROVE  /\ breakers'[q].isTripped => breakers[q].isTripped
               /\ breakers'[q].lastValidPrice = breakers[q].lastValidPrice
    <3>1. CASE q # a
      BY <2>2, <3>1
    <3>2. CASE q = a
      <4>1. breakers'[a] = [isTripped |-> FALSE, recoversIn |-> 0,
                            lastValidPrice |-> breakers[a].lastValidPrice]
        BY <2>2
      <4> QED
        BY <3>2, <4>1
    <3> QED
      BY <3>1, <3>2
  <2>5. PublishedIsValid' /\ Trippable'
    BY <2>1, <2>4 DEF IInv, PublishedIsValid, Trippable
  <2>6. OnItsWay'
    BY <2>1 DEF IInv, OnItsWay
  <2> QED
    BY <2>1, <2>3, <2>5, <2>6 DEF IInv
<1>8. CASE \E c \in Covers, p \in Prices : Quote(c[1], c[2], p)
  BY <1>1, <1>8 DEF Quote
<1>9. CASE UNCHANGED vars
  BY <1>1, <1>9 DEF vars
<1> QED
  BY <1>2, <1>3, <1>4, <1>5, <1>6, <1>7, <1>8, <1>9 DEF Next

\* The invariant of the pipeline, from which the theorems follow.
LEMMA Guarded ==
  MinSources <= 1 => (Spec => []IInv)
<1> SUFFICES ASSUME MinSources <= 1
             PROVE  Spec => []IInv
  OBVIOUS
<1>1. IInv /\ [Next]_vars => IInv'
  BY Preserved
<1> QED
  BY Initially, <1>1, PTL DEF Spec

\* What is published is what the breaker accepted last, whatever sources,
\* administrators and restarts do.
THEOREM OnlyValidIsPublished ==
  MinSources <= 1 => (Spec => []PublishedIsValid)
<1>1. IInv => PublishedIsValid
  BY DEF IInv
<1> QED
  BY <1>1, Guarded, PTL

\* Between runs the pools hold the published price, during a run it is on its way.
THEOREM PoolsAreUpdated ==
  MinSources <= 1 => (Spec => []PoolsFollowOracle)
<1>1. IInv => PoolsFollowOracle
  BY DEF IInv, PoolsFollowOracle, OnItsWay
<1> QED
  BY <1>1, Guarded, PTL

\* No step moves the price of a pool by more than the threshold.
THEOREM NoJump ==
  MinSources <= 1 => (Spec => NoJumpReachesPools)
<1> SUFFICES ASSUME MinSources <= 1
             PROVE  Spec => NoJumpReachesPools
  OBVIOUS
<1>1. IInv /\ [Next]_vars =>
        [\A a \in Assets :
           pools'[a] # pools[a] => \/ ~Deviates(pools'[a], pools[a])
                                  \/ BootstrapPrice \in {pools[a], pools'[a]}]_vars
  BY Preserved
<1>2. Spec => []IInv
  BY Guarded
<1> QED
  BY <1>1, <1>2, PTL DEF Spec, NoJumpReachesPools
=============================================================================
