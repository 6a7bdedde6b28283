------------------------------- MODULE Oracle -------------------------------
(***************************************************************************)
(* The price pipeline: a job asks every source for prices, takes the       *)
(* median of the fresh ones per asset, lets a circuit breaker judge it,    *)
(* publishes it in memory and, after its writes to cache, database and     *)
(* ledger, gives it to the pools.  The scheduler never starts a run while  *)
(* the one before is under way.                                            *)
(*                                                                         *)
(* Time is relative: ages count up to a bound that is too old, and the     *)
(* recovery of a breaker counts down.  A price is an integer; the writes   *)
(* between publication and the pools are one step, as their errors are     *)
(* swallowed and their results are not read back.                          *)
(***************************************************************************)
EXTENDS Integers, FiniteSets

CONSTANTS Assets, Sources,
          Covers,          \* which source quotes which asset
          Polled,          \* sources asked by every run; others keep their last price
          NavPrices,       \* DEFAULT_NAV_PRICES, on some of Covers
          Prices,          \* what sources quote
          BootstrapPrice,  \* priceUSD of pools no price has reached yet
          Threshold,       \* ORACLE_CIRCUIT_BREAKER_THRESHOLD, in percent
          MinSources,      \* ORACLE_MIN_SOURCES
          RecoveryWindow,  \* RECOVERY_WINDOW_MS, in ticks
          MaxSourceAge     \* MAX_SOURCE_AGE_MS, in ticks

ASSUME OracleAssumption ==
  /\ Prices \subseteq Nat \ {0}
  /\ BootstrapPrice \in Nat \ {0}
  /\ IsFiniteSet(Sources)
  /\ Covers \subseteq Sources \X Assets /\ Polled \subseteq Sources
  /\ DOMAIN NavPrices \subseteq Covers \ (Polled \X Assets) /\ DOMAIN NavPrices # {}
  /\ NavPrices \in [DOMAIN NavPrices -> Prices]
  /\ Threshold \in Nat
  /\ MinSources \in Nat
  /\ RecoveryWindow \in Nat
  /\ MaxSourceAge \in Nat \ {0}

VARIABLES
  quotes,    \* the last answer of a source for an asset, and its age
  breakers,  \* CircuitBreakerState: tripped, ticks to recovery, lastValidPrice
  latest,    \* latestPrices: the published price of an asset
  pools,     \* priceUSD of the pools of an asset
  cycle      \* runOracleCycle: what it awaits, and its `aggregated` map

vars == <<quotes, breakers, latest, pools, cycle>>

NoPrice == 0
TooOld == MaxSourceAge   \* bound: ages stop here

Aged(x) == [x EXCEPT !.age = IF @ < TooOld THEN @ + 1 ELSE @]

Closed == [isTripped |-> FALSE, recoversIn |-> 0, lastValidPrice |-> NoPrice]
Nothing == [price |-> NoPrice, age |-> TooOld]
Started == [s \in Sources |-> [a \in Assets |->
  IF <<s, a>> \in DOMAIN NavPrices THEN [price |-> NavPrices[s, a], age |-> 0] ELSE Nothing]]
Idle == [step |-> "idle", aggregated |-> <<>>]

Init ==
  /\ quotes = Started
  /\ breakers = [a \in Assets |-> Closed]
  /\ latest = [a \in Assets |-> NoPrice]
  /\ pools = [a \in Assets |-> BootstrapPrice]
  /\ cycle = Idle

-----------------------------------------------------------------------------
(* The sources.  A polled one answers while a run waits for it, or fails to;
   the stream and the manual prices may be set at any time, and are old unless
   they are set again. *)

Quote(s, a, p) ==
  /\ s \in Polled => cycle.step = "fetch"
  /\ quotes' = [quotes EXCEPT ![s][a] = [price |-> p, age |-> 0]]
  /\ UNCHANGED <<breakers, latest, pools, cycle>>

\* A run waits for seconds, a price is old after minutes: answers do not age.
Tick ==
  /\ quotes' = [s \in Sources |-> [a \in Assets |->
       IF s \in Polled THEN quotes[s][a] ELSE Aged(quotes[s][a])]]
  /\ breakers' = [a \in Assets |->
       [breakers[a] EXCEPT !.recoversIn = IF @ > 0 THEN @ - 1 ELSE 0]]
  /\ UNCHANGED <<latest, pools, cycle>>

(* aggregatePrices *)

Fresh(a) == {s \in Sources : quotes[s][a].age < MaxSourceAge}

\* The k-th of the prices of the sources in S, in ascending order.
Ranked(a, S, k) ==
  CHOOSE p \in {quotes[s][a].price : s \in S} :
    /\ Cardinality({s \in S : quotes[s][a].price < p}) < k
    /\ k <= Cardinality({s \in S : quotes[s][a].price <= p})

\* calculateMedian over the quotes of the sources in S.
Median(a, S) ==
  LET mid == Cardinality(S) \div 2
  IN  IF Cardinality(S) % 2 = 1 THEN Ranked(a, S, mid + 1)
      ELSE (Ranked(a, S, mid) + Ranked(a, S, mid + 1)) \div 2

(* checkCircuitBreaker *)

Deviates(price, valid) ==
  /\ valid # NoPrice
  /\ 100 * (IF price > valid THEN price - valid ELSE valid - price) > Threshold * valid

Trip(b) == [b EXCEPT !.isTripped = TRUE, !.recoversIn = RecoveryWindow]

\* Mutant of Recovered: no auto-recovery.
RecoveredNever(b) == b

Recovered(b) == IF b.isTripped /\ b.recoversIn = 0 THEN [b EXCEPT !.isTripped = FALSE] ELSE b

\* Mutant of CheckCircuitBreaker: with the recovery the last valid price goes too.
CheckCircuitBreakerForgets(b, price, sourceCount) ==
  LET r == Recovered(b)
  IN  CASE r.isTripped -> r
        [] ~r.isTripped /\ ~b.isTripped /\ Deviates(price, r.lastValidPrice) -> Trip(r)
        [] OTHER -> [r EXCEPT !.lastValidPrice = price]

CheckCircuitBreaker(b, price, sourceCount) ==
  LET r == Recovered(b)
  IN  CASE r.isTripped -> r
        [] ~r.isTripped /\ (sourceCount < MinSources \/ Deviates(price, r.lastValidPrice))
             -> Trip(r)
        [] OTHER -> [r EXCEPT !.lastValidPrice = price]

(* The job *)

StartCycle ==
  /\ cycle = Idle
  /\ cycle' = [Idle EXCEPT !.step = "fetch"]
  /\ UNCHANGED <<quotes, breakers, latest, pools>>

\* What a run was answered goes with it.
AnswersGone == [s \in Sources |->
  IF s \in Polled THEN [a \in Assets |-> Nothing] ELSE quotes[s]]

\* Mutant of Judged: the new price is published whatever the breaker says.
JudgedRaw(a, b) == Median(a, Fresh(a))

\* The price of an asset when its breaker is b after the check: the one published
\* before, if there is one, when it is tripped.
Judged(a, b) ==
  IF b.isTripped /\ latest[a] # NoPrice THEN latest[a] ELSE Median(a, Fresh(a))

\* Mutant of Aggregate: the map keeps the new price of an asset whose breaker is
\* tripped.
AggregateKeepsRaw ==
  /\ cycle.step = "fetch"
  /\ LET assets == {a \in Assets : Fresh(a) # {}}
     IN  /\ breakers' = [a \in Assets |->
              IF a \in assets
              THEN CheckCircuitBreaker(breakers[a], Median(a, Fresh(a)), Cardinality(Fresh(a)))
              ELSE breakers[a]]
         /\ latest' = [a \in Assets |-> IF a \in assets THEN Judged(a, breakers'[a]) ELSE latest[a]]
         /\ cycle' = [step |-> "store", aggregated |-> [a \in assets |-> Median(a, Fresh(a))]]
  /\ quotes' = AnswersGone
  /\ UNCHANGED pools

\* The sources have answered, or not; no await up to the publication.  There is
\* always some price, as a manual one is never lost.
Aggregate ==
  /\ cycle.step = "fetch"
  /\ LET assets == {a \in Assets : Fresh(a) # {}}
     IN  /\ breakers' = [a \in Assets |->
              IF a \in assets
              THEN CheckCircuitBreaker(breakers[a], Median(a, Fresh(a)), Cardinality(Fresh(a)))
              ELSE breakers[a]]
         /\ latest' = [a \in Assets |-> IF a \in assets THEN Judged(a, breakers'[a]) ELSE latest[a]]
         /\ cycle' = [step |-> "store", aggregated |-> [a \in assets |-> latest'[a]]]
  /\ quotes' = AnswersGone
  /\ UNCHANGED pools

\* Cache, database and ledger have answered, or failed.
UpdatePools ==
  /\ cycle.step = "store"
  /\ pools' = [a \in Assets |->
       IF a \in DOMAIN cycle.aggregated THEN cycle.aggregated[a] ELSE pools[a]]
  /\ cycle' = Idle
  /\ UNCHANGED <<quotes, breakers, latest>>

(* POST /oracle/circuit-breaker/:asset/reset *)

\* Mutant of ResetCircuitBreaker: recoversAt is left alone.
ResetKeepsRecovery(a) ==
  /\ breakers' = [breakers EXCEPT ![a].isTripped = FALSE]
  /\ UNCHANGED <<quotes, latest, pools, cycle>>

ResetCircuitBreaker(a) ==
  /\ breakers' = [breakers EXCEPT ![a].isTripped = FALSE, ![a].recoversIn = 0]
  /\ UNCHANGED <<quotes, latest, pools, cycle>>

\* The process starts again: all of this is kept in memory.
Restart ==
  /\ quotes' = Started
  /\ breakers' = [a \in Assets |-> Closed]
  /\ latest' = [a \in Assets |-> NoPrice]
  /\ pools' = [a \in Assets |-> BootstrapPrice]
  /\ cycle' = Idle

Next ==
  \/ \E c \in Covers, p \in Prices : Quote(c[1], c[2], p)
  \/ Restart
  \/ Tick
  \/ StartCycle \/ Aggregate \/ UpdatePools
  \/ \E a \in Assets : ResetCircuitBreaker(a)

Spec == Init /\ [][Next]_vars

\* The scheduler starts the job again and again, its calls return or fail, and
\* time passes; nothing is assumed of sources and administrators.
Fairness ==
  WF_vars(StartCycle) /\ WF_vars(Aggregate) /\ WF_vars(UpdatePools) /\ WF_vars(Tick)

LiveSpec == Spec /\ Fairness

-----------------------------------------------------------------------------
(* Properties *)

\* What sources, breakers, prices and the run hold; only a tripped breaker waits
\* for its recovery.
TypeOK ==
  /\ quotes \in [Sources -> [Assets -> [price : Nat, age : 0 .. TooOld]]]
  /\ breakers \in [Assets -> [isTripped : BOOLEAN, recoversIn : 0 .. RecoveryWindow,
                              lastValidPrice : Nat]]
  /\ \A a \in Assets : breakers[a].recoversIn > 0 => breakers[a].isTripped
  /\ latest \in [Assets -> Nat]
  /\ pools \in [Assets -> Nat \ {0}]
  /\ \/ cycle = Idle
     \/ cycle = [Idle EXCEPT !.step = "fetch"]
     \/ /\ cycle.step = "store" /\ DOMAIN cycle.aggregated \subseteq Assets
        /\ cycle.aggregated \in [DOMAIN cycle.aggregated -> Nat \ {0}]

\* oracle.service.ts:156 "Use last valid price instead when tripped": what is
\* published is what the breaker last accepted.
PublishedIsValid == \A a \in Assets : latest[a] = breakers[a].lastValidPrice

\* Between runs pools hold the published price, although it reaches them after
\* all the writes of a run; during a run it is on its way.
PoolsFollowOracle ==
  \A a \in Assets : latest[a] # NoPrice =>
    IF cycle.step = "store" /\ a \in DOMAIN cycle.aggregated
    THEN cycle.aggregated[a] = latest[a]
    ELSE pools[a] = latest[a]

\* However breakers trip, recover and are reset, a pool's price never moves by
\* more than the threshold at once, except to and from its bootstrap value.
NoJumpReachesPools ==
  [][\A a \in Assets :
       pools'[a] # pools[a] => \/ ~Deviates(pools'[a], pools[a])
                              \/ BootstrapPrice \in {pools[a], pools'[a]}]_vars

\* circuit-breaker.ts:30 "Auto-recovers after RECOVERY_WINDOW_MS if subsequent
\* prices are normal", in every run from some time on.
Normal(a) == /\ Fresh(a) # {}
             /\ Cardinality(Fresh(a)) >= MinSources
             /\ ~Deviates(Median(a, Fresh(a)), breakers[a].lastValidPrice)
AutoRecovers ==
  \A a \in Assets : <>[][Aggregate => Normal(a)]_vars => []<>(~breakers[a].isTripped)
=============================================================================
