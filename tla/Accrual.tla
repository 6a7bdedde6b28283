------------------------------ MODULE Accrual -------------------------------
(***************************************************************************)
(* Interest on the pools of the registry.  Interest is charged for the     *)
(* seconds between lastAccrualTs and a time the caller takes from its      *)
(* clock; handlers do so as they touch a pool, a job does so for all pools *)
(* every five minutes, awaiting a database insert after each pool, and a   *)
(* refresh replaces a pool's object by what the ledger says, where no      *)
(* interest is ever accrued.                                               *)
(*                                                                         *)
(* An index is kept as the number of seconds charged into it (a constant   *)
(* rate), and time starts when the registry is loaded.                     *)
(***************************************************************************)
EXTENDS Integers, FiniteSets

CONSTANTS Pools,
          MaxClock   \* bound: the clock stops here

ASSUME AccrualAssumption == MaxClock \in Nat

VARIABLES
  clock,
  accrual,    \* the registry's object of a pool: borrowIndex, lastAccrualTs
  job,        \* the run of interestAccrualHandler
  since,      \* history: when the object of a pool was loaded
  rolledBack  \* history: seconds by which the job set lastAccrualTs back

accrualVars == <<clock, accrual, job, since, rolledBack>>

NoRun == [step |-> "idle"]

\* cantonPoolToState: the ledger has index 1 and lastAccrualTs 0, read as now.
Loaded(now) == [borrowIndex |-> 0, lastAccrualTs |-> now]

AccrualInit ==
  /\ clock = 0
  /\ accrual = [p \in Pools |-> Loaded(0)]
  /\ job = NoRun
  /\ since = [p \in Pools |-> 0]
  /\ rolledBack = [p \in Pools |-> 0]

\* Mutant of Accrued: the two times of deltaTime are swapped.
AccruedBackwards(a, now) ==
  [borrowIndex |-> a.borrowIndex + (a.lastAccrualTs - now), lastAccrualTs |-> now]

\* Mutant of Accrued: no early return for a deltaTime below zero.
AccruedUnguarded(a, now) ==
  [borrowIndex |-> a.borrowIndex + (now - a.lastAccrualTs), lastAccrualTs |-> now]

\* accrueInterest, and the assignment of lastAccrualTs that follows it: nothing
\* is charged for a time that is not later, yet it is stored.
Accrued(a, now) ==
  [borrowIndex |-> IF now > a.lastAccrualTs
                   THEN a.borrowIndex + (now - a.lastAccrualTs)
                   ELSE a.borrowIndex,
   lastAccrualTs |-> now]

\* Mutant of AccruePoolInterest: the present time is rounded up.
AccruePoolInterestAhead(p) ==
  /\ accrual' = [accrual EXCEPT ![p] = Accrued(@, clock + 1)]
  /\ UNCHANGED <<clock, job, since, rolledBack>>

\* Deposits and withdrawals accrue first, and so do listings and details, each
\* at the present time.
AccruePoolInterest(p) ==
  /\ accrual' = [accrual EXCEPT ![p] = Accrued(@, clock)]
  /\ UNCHANGED <<clock, job, since, rolledBack>>

\* One pool of the job, at the time its run began.
JobAccrues(p, now, rest) ==
  /\ accrual' = [accrual EXCEPT ![p] = Accrued(@, now)]
  /\ rolledBack' = [rolledBack EXCEPT ![p] =
                      @ + (IF accrual[p].lastAccrualTs > now
                           THEN accrual[p].lastAccrualTs - now ELSE 0)]
  /\ job' = [step |-> "insert", now |-> now, todo |-> rest]
  /\ UNCHANGED <<clock, since>>

\* No await between `now` and the first pool.
StartJob ==
  /\ job = NoRun
  /\ \E p \in Pools : JobAccrues(p, clock, Pools \ {p})

\* The snapshot insert returned.
NextPool ==
  /\ job.step = "insert"
  /\ \E p \in job.todo : JobAccrues(p, job.now, job.todo \ {p})

EndJob ==
  /\ job.step = "insert"
  /\ job.todo = {}
  /\ job' = NoRun
  /\ UNCHANGED <<clock, accrual, since, rolledBack>>

\* refreshPoolFromCanton after a deposit or a withdrawal: the job goes on with
\* the object it took before, which nobody sees any more.
RefreshPool(p) ==
  /\ accrual' = [accrual EXCEPT ![p] = Loaded(clock)]
  /\ since' = [since EXCEPT ![p] = clock]
  /\ rolledBack' = [rolledBack EXCEPT ![p] = 0]
  /\ job' = IF job = NoRun THEN job ELSE [job EXCEPT !.todo = @ \ {p}]
  /\ UNCHANGED clock

ClockTick ==
  /\ clock < MaxClock
  /\ clock' = clock + 1
  /\ UNCHANGED <<accrual, job, since, rolledBack>>

AccrualNext ==
  \/ \E p \in Pools : AccruePoolInterest(p) \/ RefreshPool(p)
  \/ StartJob \/ NextPool \/ EndJob
  \/ ClockTick

AccrualSpec == AccrualInit /\ [][AccrualNext]_accrualVars

-----------------------------------------------------------------------------
(* Properties *)

\* Indices and times of the registry never fall below zero.
AccrualTypeOK ==
  /\ clock \in Nat
  /\ accrual \in [Pools -> [borrowIndex : Nat, lastAccrualTs : Nat]]
  /\ job \in {NoRun} \cup [step : {"insert"}, now : Nat, todo : SUBSET Pools]
  /\ since \in [Pools -> Nat]
  /\ rolledBack \in [Pools -> Nat]

\* The interest of an object is that of the seconds it was charged for: all of
\* them since it was loaded, and those a slow run of the job set back once more.
InterestAccountedFor ==
  \A p \in Pools :
    accrual[p].borrowIndex = (accrual[p].lastAccrualTs - since[p]) + rolledBack[p]

\* Neither handlers nor a run of the job charge for time that has not passed.
NothingChargedAhead ==
  /\ \A p \in Pools : accrual[p].lastAccrualTs <= clock
  /\ job # NoRun => job.now <= clock

AccrualInv == AccrualTypeOK /\ InterestAccountedFor /\ NothingChargedAhead

(* What the repository says and the job breaks. *)

\* math.ts:235 "Accrue interest for a pool since last update": no second twice.
ChargedOnce == \A p \in Pools : accrual[p].borrowIndex <= clock - since[p]
=============================================================================
