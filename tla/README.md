# Dualis Finance: TLA+ models, checks and proofs

Dualis Finance is a lending protocol: Daml contracts on a Canton ledger
(`src/packages/canton/daml`), a Fastify API process that drives them and keeps state of
its own in memory and in PostgreSQL (`src/packages/api`), a shared package of formulas
(`src/packages/shared`) and a frontend. This directory holds TLA+ models of the parts
whose correctness depends on the order of things: handlers of one Node.js process that
interleave at every `await`, jobs that run beside them, a ledger and sources that answer
late, twice or not at all, and restarts.

`tlc -workers 2 -config X.cfg MCModule` runs a check, `tlapm Module.tla` a proof;
`PROJECT.json` lists the runs, what each definition models (`map`), one mutant per
checked property, the hazards, the findings and the theorems.

Contents: [inventory](#1-inventory) · [plan](#2-plan) · [modules](#3-modules-and-code) ·
[runs](#4-runs-and-bounds) · [fairness](#5-fairness) · [proofs](#6-proofs) ·
[only checked](#7-what-is-only-model-checked) · [disagreements](#8-where-code-and-words-disagree) ·
[not modelled](#9-not-modelled)

## 1. Inventory

Paths below are relative to `src/packages/api/src` unless they start with `src/` or
`daml/` (= `src/packages/canton/daml/Dualis`).

### How the API process runs

One Node.js process. Code between two `await`s is atomic; everything else interleaves.
State lives in (a) module-level maps (pool registry, oracle prices, circuit breakers, bans),
lost with the process; (b) PostgreSQL tables, written by single statements without
transactions; (c) ledger contracts, changed by submissions that commit or not whatever the
process hears of them. `jobs/scheduler.ts` runs periodic jobs, never two runs of one job at
once, and swallows their errors. Restarting means: maps are rebuilt from the ledger or from
defaults, handlers and job runs are gone, rows and contracts stay.

### Components

| Component | State | Operations | Interacts with | What is hard | Correct when |
|---|---|---|---|---|---|
| **Governance service** `services/governance/{proposal,vote,execution}Service.ts`, `jobs/governanceFinalization.job.ts` | rows of proposals, votes, snapshots, execution queue | create, vote, change vote, recount, cancel, finalize, queue, execute, veto, expire | delegation (weights), notifications, scheduler | check in one statement, write by id in another; job decides from old rows; failures half way | only judged and approved proposals are executed, inside their window; tallies are of real votes; ended votes are settled |
| **Lending pools and borrows** `services/{pool,borrow}.service.ts`, `services/poolRegistry.ts`, `canton/client.ts`, `daml/Lending/{Pool,Borrow}.daml` | ledger: pool and position contracts; memory: `PoolState` objects | deposit, withdraw, borrow, repay, add collateral, refresh, reload | ledger client, token bridge, accrual, oracle | contract ids archived by other calls; two transactions per call; retries after lost answers; objects replaced under a handler | the pool is solvent, a call moves it once, no debt leaves the book unpaid, tokens follow the book |
| **Interest accrual** `src/packages/shared/src/utils/math.ts`, `jobs/interestAccrual.job.ts` | `borrowIndex`, `supplyIndex`, `lastAccrualTs` of registry objects | accrue in handlers and listings, the five-minute job, replacement by refresh | registry, database | the job's `now` is older than a handler's; objects replaced | each second is charged once |
| **Price oracle** `oracle/*`, `jobs/oracleUpdate.job.ts`, `routes/oracle.ts` | prices of sources, breakers, published prices, `priceUSD` of pools | poll, stream, set manually, aggregate, judge, publish, update pools, reset | registry, cache, database, ledger | sources go stale or silent; trips, recoveries and resets in any order; pools updated a dozen awaits after publication | pools only see accepted prices, without jumps; breakers recover |
| **Delegation, voting power** `services/governance/delegationService.ts`, `daml/Governance/Delegation.daml` | delegation rows, balances, stored power | delegate, undelegate, recalculate | vote weights | check and insert three statements apart; four statements per recalculation, two users at once | stored power follows the delegations in force; one delegation per user; no votes are made |
| **Governance on the ledger** `daml/Governance/{Proposal,Timelock,Vote}.daml` | proposal, timelock and vote contracts | vote, finalize, queue, execute, veto | none: the API does not call it | several parties' choices, times | the same promises as the service |
| **Wallets, routing, signing** `services/{wallet,walletPreferences,transactionRouter,partyMapping,custodialParty}.service.ts` | wallet rows, transaction log | route, submit, sign later, expire | ledger client | log written after the submission; signing is never chosen (transactionRouter.service.ts:82) | a transaction is submitted once and its log says what happened |
| **Authentication** `services/auth.service.ts`, `security/*`, `jobs/authCleanup.job.ts` | users, sessions, nonces, tokens, counters | register, log in, refresh, reset, ban | every route | check and use of single-use rows in two statements | a token works once, a lock holds |
| **Notification bus and inbox** `notification/{notification.bus,ratelimit}.ts`, `notification/channels/inapp.channel.ts`, `routes/{notifications,notification-preferences}.ts` | preference rows and their cache, deduplication keys, rate counters, inbox rows, unread counter | emit, deliver, read one, read all, change preferences | governance, oracle, borrows, KYC | a database and a Redis that answer one after the other; keys expire, Redis restarts | one alert per level and window, cached preferences are the row's, the counter is the inbox's |
| **Webhook delivery** `notification/{queue.ts,workers/webhook.worker.ts,channels/webhook.channel.ts}`, `routes/webhooks.ts` | endpoint rows with a failure counter, a BullMQ queue | create, change, delete, emit, send, retry, count, reset, deactivate | the bus, receivers | retries after lost answers, late successes against counted failures, dying workers | failing endpoints are deactivated, an event is accepted once, every job ends |
| **Identity verification** `compliance/services/{kyc,decision}.service.ts`, `routes/compliance-webhook.ts` | verification rows, `users.kyc_status`, event keys | initiate, retry, process an event, decide | the provider, administrators | two statements per change from four directions; events repeated and late | user and newest verification agree, no attempt's number is left out |
| **Collateral vault, liquidation** `daml/Lending/Collateral.daml`, `daml/Liquidation/Engine.daml`, `daml/Trigger/*` | vault, config and liquidation contracts | deposit, withdraw, seize, liquidate | the pool's contracts | partial liquidation, tiers, stale health factors | seized ≤ held, debt and collateral move together |
| **DUAL token, staking, vesting** `daml/Token/DUAL.daml`, `daml/Governance/Token.daml`, `services/staking.service.ts` | token, stake and vesting contracts | mint, transfer, stake, claim | governance | cliffs, cooldowns, rounding | supply conserved, nothing claimed early |
| **Lending mathematics** `src/packages/shared/src/utils/math.ts`, `daml/Lending/Math.daml` | none | rates, health factor, liquidation amounts | pools, borrows | floating point against Decimal | the two agree |
| **Token bridge, ledger clients** `canton/*` | connections, the bridge's mode | submit, query, transfer, fall back | all services | fallback to a mock after one failure | no transfer is only pretended |
| **Other services**: securities lending, flash loans, credit, institutional, productive, privacy, compliance, administration, rewards, analytics, web sockets | rows, mock data | mostly one statement per call | | little | |
| **Infrastructure**: caches, database, configuration, middleware, monitoring, frontend, deployment | | | | | |

Every row is listed in `PROJECT.json` with its status; its hazards are under `hazards`,
each at the line where it bites.

## 2. Plan

In the order of importance.

1. `Governance`, refining `Approval` (done). Open: `GovernanceLedger`, the Daml proposal and
   timelock as a second implementation of `Approval`.
2. `Lending`, refining `Book` (done): one pool, the ledger, the registry, the handlers.
3. `Accrual` (done): interest on registry objects.
4. `Oracle` (done): the price pipeline and its circuit breakers.
5. `Delegation` (done): delegations and the stored power. Its weights are what
   `Governance!Weight` holds still.
6. `Webhooks` (done): endpoints, the queue, its workers and their failure counter.
7. `Notifications` (done): preferences, windows, rate limit, inbox and unread counter.
8. `Kyc` (done): the two places of a verification's status.
9. `Sessions` (open): sessions, nonces, reset tokens and the login counter as rows, two devices.
10. `Liquidation` (open): vault, debt and engine contracts over integers; with `Oracle` for prices.
11. `Token` (open): DUAL supply, staking and vesting.
12. `Router` (open): the transaction log and the bridge's fallback; least urgent as long as
    wallet signing is never chosen.

For every module: a type invariant, the two or three properties named in the table above, a
run with the overlaps its hazards need and a theorem for each safety property. At most twelve runs are kept: components take the
place of runs that show a disagreement known by then, and section 8 keeps the description.
`Governance`, `Lending` and the three modules of the notification service are not composed:
they share no state but the weights and the fire-and-forget `emit`.

## 3. Modules and code

| Module | What it is |
|---|---|
| `Approval` | what governance promises: a verdict at most once, a timelock for approved proposals only, execution after it and never taken back; it may be recorded again |
| `Governance` | the service as rows, handlers and a job; implements `Approval` (`KeepsApproval`) |
| `Book` | what a pool promises: a request moves it at most once, lent ≤ supplied |
| `Lending` | handlers, registry and ledger, positions counted with indices; implements `Book` (`KeepsBook`) |
| `Accrual` | indices and accrual times of registry objects |
| `Oracle` | sources, breakers, publication, pools |
| `Delegation` | delegation rows, voting power columns, the calls between |
| `Webhooks` | endpoint rows, the queue's jobs, workers, the owner |
| `Notifications` | one position's alerts from the bus to the inbox, with Redis and the database |
| `Kyc` | one user's verifications, the provider's events, administrators |
| `MC*` | values for the constants |
| `*Proofs` | theorems; `RegistryProofs` about both jobs that write the registry, `Oracle` and `Accrual` |
| `Sums` | lemmas about `SumFunctionOnSet` on finite sets, for the proofs |

Definitions named `<Definition><Something>` under a comment "Mutant of" are mutated forms:
plausible bugs that the property of a run must notice. They are used by no specification.

### Governance

`status`, `counted`, `votes` and `queue` are the tables. The tally columns are stored as the
*set of ballots they sum*: that makes "this tally is old" visible, and sums are taken where
the code compares them (`QuorumMet`, `Decide`). A handler in flight is a record whose `step`
is the statement it awaits; the job is such a record too. One action is one SQL statement
with the code up to the next one:

| Code | Actions |
|---|---|
| `castVote` (voteService.ts:16) | `CastVote`, `FindVote`, `InsertVote` or `ChangeVote`, `CountVotes`, `StoreCounts` |
| `cancelProposal` | `CheckCancel`, `CancelProposal` |
| `executeProposal` | `CheckExecute`, `ExecuteItem`, `ExecuteProposal` |
| `vetoProposal` | `CheckVeto`, `VetoItem`, `VetoProposal` |
| `finalizeExpiredProposals` | `StartFinalization`, `FinalizeProposal`, `CheckPassed`, `Enqueue`, `SetTimelock`, `ExpireItems`, `ExpireProposal`, `EndFinalization` |
| errors, process death | `HandlerFails`, `JobFails` (several of them for a restart) |

Two overlapping calls of `executeProposal` both find the item PENDING, both store their time
by id and both report EXECUTED. So an execution in `Approval` is a step that may be taken again:
`KeepsApproval` says that each comes after the timelock of an approved proposal and that no later
write, a veto's included, takes the recorded one back.

Kept: `ORDER`-less `LIMIT 1` (any row may be found), updates by id alone, the unique
`execution_queue.proposal_id`, the missing unique index on votes, `new Date()` for a null
timelock. Left out: calls refused by their first checks, notifications, listings, creation,
the route's mock answer when the service throws (routes/governance.ts:130). Proposals are
ACTIVE from the start (the seed creates them so).

### Lending

`pool` is the active `LendingPool` contract: `cid` changes with every choice. `objects` holds
*every* `PoolState` object of the process, since handlers keep the one they took
(`registry.getPool`) while a refresh puts a new one into the registry (the last of
`objects`). A handler keeps its object, the contract id it read from it, a position's
contract id and the answer of a query.

| Code | Actions |
|---|---|
| deposit | `Deposit`, `CallPool`, `ExercisePool` (`PoolDeposit`), `QueryPool`, `UpdateObject`, `ReadPool`, `InstallPool`, `Transfer` |
| withdraw | `Withdraw`, `FindSupply`, `WithdrawPosition`, `CallPool`, `ExercisePool` (`ProcessWithdraw`), as deposit |
| requestBorrow | `RequestBorrow`, `ExercisePool` (`RecordBorrow`), `QueryPool`, `UpdateObject`, `CreatePosition` |
| repay | `Repay`, `FindDebt`, `RepayPosition`, `CallPool`, `ExercisePool` (`RecordRepay`), `QueryPool`, `UpdateObject` |
| addCollateral | `AddCollateral`, `FindDebt`, `CollateralizePosition` |
| `GET /pools?refresh=true` | `LoadFromCanton`, `ReadPool`, `InstallPool` |
| ledger client (`p-retry`) | `ExercisePool` and `CreatePosition` with a lost answer leave the handler where it is; `PoolRejects`, `HandlerFails` |
| restart | `Restart` |

Interest is in every amount. Decimals are multiples of the smallest one and `One` of them are
1.0. An object has the two indices that `accruePoolInterest` and the job multiply
(`AccrueInterest`, inside `Deposit` and `Withdraw` and as the action `Accrue` of listings and of
the job); the rates behind them are left to `Accrual`, so an index moves up to any value of
`Indices`. The ledger's own indices stay at 1.0, since nothing exercises its `AccrueInterest`
choice, and `Loaded` takes them. A position remembers its index; `Balance` is what it owes or is
worth at the index a handler sends, with the rounding of Decimals, and `Worth` what shares pay.

The *totals* of a registry object are left out. Accrual (pool.service.ts:51) and drift
(interestAccrual.job.ts:42) move them away from the ledger's on their own, and all they decide is
which withdrawals are refused before anything is submitted. In the model any withdrawal may pass
that check, which allows more than the code does. Every other check is the ledger's.

Other abstractions: one pool, proxy routing (the router never chooses wallet signing for these
calls), no transfer confirmed by the client's wallet, no change of `isActive`. A submission
commits before its handler hears of a failure, or never. `Restart` merges listening and loading
of the registry; when the ledger does not answer, the registry falls back to the built-in pools,
whose contract id no contract has (`Fallback`).

### Accrual

Indices count the seconds charged into them: the rate is a constant, so index and seconds
determine each other. `since` and `rolledBack` are history variables. The job keeps its
`now` and the pools it still has to do over its awaits; a pool refreshed meanwhile is
replaced, and what the job then does to the old object is seen by nobody.

### Oracle

`quotes` holds the last answer of each source per asset with its age; `breakers` and
`latest` are the maps of `circuit-breaker.ts` and `oracle.service.ts`; `pools` is `priceUSD`
in the registry; `cycle` the run of the job with its `aggregated` map. Polled sources
(CoinGecko, TIFA) answer only while a run waits and leave nothing behind; the stream
(Binance) and manual prices stay and grow old. One run is `StartCycle` (until the sources
have answered), `Aggregate` (median, breaker, publication: no `await`), `UpdatePools` (after
the writes to cache, database and ledger, whose errors are swallowed).

Prices are integers; a median of two is halved (`Ranked` is the
k-th smallest price, whichever order equal prices are sorted in), and the runs use prices with exact halves
where it matters. Time is relative. The return without any price is unreachable: manual
prices exist from the start and are never removed. A reload or refresh of the registry keeps
the oracle's prices (poolRegistry.ts:216, 395), so it does not appear. Pools are those
present from the start.

### Delegation

The columns `totalDelegatedOut` and `totalDelegatedIn` are stored as the sets of rows they
sum, so that an old sum is visible; `effectiveVotingPower` follows (`Effective`). A handler
is a record with its statement, the users still to recalculate and the sums already read.

| Code | Actions |
|---|---|
| `delegate` (delegationService.ts:20) | `Delegate`, `CheckChain`, `InsertDelegation` |
| `undelegate` | `Undelegate`, `Revoke` |
| `recalculateVotingPower`, twice per call | `SumOut`, `SumIn`, `StorePower` |
| errors, process death | `HandlerFails` |

Balances are constants: no code of the API writes `dual_token_balances`. `tangled` and
`interrupted` are history: users two calls worked on at once, and users a failed call left
without a recalculation. The Daml template is left out, the API never calls it.

### Webhooks

`endpoints` are the rows; `todo` is the rest of the bus's loop; a job is where its processor
is, how many attempts were made and whether it has stalled once.

| Code | Actions |
|---|---|
| `routes/webhooks.ts` | `CountEndpoints`, `InsertEndpoint`, `Update`, `Delete` |
| `getActiveWebhooks`, the loop of `deliverToChannel` | `Emit`, `AddJob`, `EmissionFails` |
| the worker and `deliver` | `Start`, `Accept`, `Refuse` |
| `resetFailureCount`, `incrementFailureCount` | `ResetFailureCount`, `IncrementFailureCount`, `Deactivate` |
| BullMQ (external) | `Thrown`: `attempts` of `queue.ts`; `WorkerDies`: a stalled job goes to another worker once |

An accepted request whose answer is lost or late is counted as a failure, as the code does.
The receiver's view (`accepted`) is history. Left out: the delivery log, back-off times, and
the filter on event types (every event is one the endpoint asked for). Endpoint rows are
independent of each other, so the run has one.

### Notifications

`row` and `cache` are the one preference the alerts look at (`financialEnabled`); `keys` are
the levels whose deduplication key is set, `rate` the window's counter, `unread` the number
of inbox rows without `read_at`, `counter` the key Redis has for it.

| Code | Actions |
|---|---|
| `loadPreferences`, `emit` | `Emit`, `LoadRow`, `FillCache` |
| `ratelimit.ts` | `CheckDedup`, `ClearLower`, `CheckRate` |
| `inapp.channel.ts` | `Insert`, `Count` |
| `PUT /notifications/preferences` | `SelectPreferences`, `WritePreferences`, `InvalidatePreferences` |
| `PUT /notifications/:id/read`, `/read-all` | `MarkRead`, `Decrement`, `Floor`; `ReadAll`, `Reset` |
| `GET /notifications/unread-count` | `Shown` |
| time, Redis | `KeyExpires`, `CacheExpires`, `RateWindowEnds`, `RedisRestarts` |

Every Redis command may fail once allowed to (`MaxFailures`), and the code then goes on.
Left out: other channels than the inbox, other types, broadcasts, digests, deletion (which
sets a status and touches neither `read_at` nor the counter). The expiry of the rate key is
that of its window.

### Kyc

`rows` are the user's verifications in order of `createdAt`, `status` is `users.kyc_status`.

| Code | Actions |
|---|---|
| `retryKYC`, `initiateKYC` | `Retry`, `Initiate`, `StoreVerification` (`Insert` or `UpdateRow`), `UpdateUser` |
| `processWebhookEvent` | `Deliver` (with or without Redis), `SelectVerification`, `UpdateVerification`, `UpdateUser` |
| `manualReviewDecision` (approve, reject) | `DecideUser`, `DecideRows` |
| `makeDecision` (rejected) | `RejectUser` |
| errors before the first write, keys that expire | `GiveUp`, `ForgetEvent` |

The provider is external: it knows one applicant per user and sends its events in any order
and repeatedly; an event for an applicant without a verification is dropped after its key is
set, and an administrator may decide about a user without one. `clean` and `apart` say of a pair of writes whether it was torn or met
another. Left out: the creation of the applicant id, the status cache, `expired` (nothing
in the modelled code sets it), blocking, account activation, audit, notifications.

## 4. Runs and bounds

| Run | Instance | Shows |
|---|---|---|
| `governance` | one proposal with a timelock, two voters (weights 2 and 1, quorum 2), three calls of any kind, clock 0..3, a window of 1, one failure; calls symmetric; 6.2 M states | approval, window, tallies, finality, refinement of `Approval` with two executions that overlap |
| `governance_live` | two proposals, one without timelock dates, one voter, two calls, one failure | `VotingCloses`, `QueueDrains` |
| `double_ballot` | two voters, two calls | a disagreement, section 8 |
| `lending` | three calls, amount 2, indices 1.0 and 1.5 (`One` = 2), supply 4 at first, caps 6 and 4, one failure; 7.4 M states | solvency, debt is given up against repayments only, tokens, refinement of `Book` |
| `interest_undone` | three calls one at a time, amounts 2 and 3, the same indices, no failure | a disagreement, needing neither overlap nor failure |
| `accrual` | two pools, clock 0..4 | interest is accounted for to the second |
| `charged_twice` | the same | a disagreement |
| `oracle` | an asset with a polled and a streamed source and one with a manual price; prices 20, 22, 24 with a threshold of 10 % (20 to 22 is exactly on it, 20 to 24 above it, in two steps below it), recovery 2 ticks, age limit 2 ticks | only accepted prices are published, pools follow without jumps, breakers recover |
| `delegation` | three users, one of them without a balance row, balances 2 and 1, three calls, one failure | power follows the delegations, one per user, votes are conserved |
| `webhooks` | two events, one endpoint, limit 2, three attempts, two workers, two failures, two changes by the owner | failing endpoints are deactivated, events accepted once, requests bounded, jobs settle |
| `notifications` | three alerts of two levels, two requests, rate limit 1, one failure or restart of Redis; 2.3 M states | windows, cached preferences, unread count |
| `kyc` | five calls, three events (pending, review, rejection), two attempts, one failure; 0.9 M states | statuses agree, rows read exist, no attempt's number is left out |

Why these bounds are enough to see something: three calls are what the worst races here take
(a vote, its recount delayed, and a second vote; execute and veto against the job; a deposit
and a withdrawal against a borrow; two delegations and the undelegation of one; a caution, a
critical alert and a caution again). Five calls of `Kyc` are a first verification, its
rejection, two overlapping retries and a review. Limit 2 with three attempts lets one job
reach the limit alone and two reach it together. Clock 3 with a
window of 1 puts voting end, timelock and deadline at different ticks and leaves one for a store
after the deadline. Amount 2 is worth 3 at index 1.5, and with supply and caps every assertion of a choice
succeeds and fails; a repayment with interest is larger than what was lent, so `RecordRepay` clamps. The mutants show for each property that the instance is large enough for a plausible
bug to be noticed. The proofs then remove the bounds.

`CHECK_DEADLOCK FALSE` stands in the runs of `Lending`, `Delegation`, `Webhooks`,
`Notifications` and `Kyc`: when all calls are served nothing is left to do. Bounds in guards:
`MaxClock`, `MaxFailures`, `MaxInflight`, `MaxChanges`, `TooOld`. The real limits (10 failures
in a row, three attempts of `retryKYC`, 200 alerts per hour) are constants with small values.

## 5. Fairness

* `Governance`: weak fairness of the job (`setInterval` fires every five minutes and each
  statement returns or fails) and of time. None for users: nobody need execute or veto.
  Failures of the job are bounded by `MaxFailures` in a run: liveness holds when failures stop.
* `Oracle`: weak fairness of the steps of the job (interval, requests with a ten-second abort,
  swallowed errors) and of time. None for sources, administrators and restarts.
* `Webhooks` (`FairSpec`): weak fairness of adding a job the bus has read the endpoint for, and of
  the steps of each job: BullMQ hands out waiting jobs as long as workers live, and a request ends
  by `NOTIFICATION_WEBHOOK_TIMEOUT_MS`. None for emissions, the owner and failures.
* `Lending`, `Accrual`, `Delegation`, `Notifications` and `Kyc` state safety only.

## 6. Proofs

All theorems hold for every value of the constants that meets the module's assumption
(natural numbers for times, weights and bounds; positive amounts and prices; sources and
which asset they quote). Bounds such as `MaxFailures` and `MaxClock` are arbitrary there.

* `GovernanceProofs`: `TypeCorrect`, `ApprovalBeforeExecution`, `ExecutionWindowKept`,
  `OnlyCastVotesCount`, `FinalVerdicts`, `ImplementsApproval`. The properties are not inductive: what
  matters is what the local variables of handlers and job still guarantee when their next
  statement runs. `IInv` = `TypeOK` ∧ `DecisionInv` (whoever executes or vetoes works on a queued
  proposal; the job judges proposals without a verdict, once each; ACTIVE means no verdict yet, which
  survives the writes by id because nothing writes ACTIVE) ∧ `WindowInv` (dates carried
  by an execution under way) ∧ `CastInv` (every copy of a tally is of rows that exist).
* `LendingProofs`, for calls that overlap, fail, are retried and restart in any way: `TypeCorrect`,
  `PoolSolvent`, `ImplementsBook` from `IInv` = `TypeOK` ∧ `Solvent` ∧ `CallsInv` (ids tell calls apart)
  ∧ `OnceInv` (a call that moved the pool and waits to submit again names a contract that is
  archived: the reason why retrying is safe), and `NothingForgiven`, `CustodyFollows` from `IInv` ∧ `BookInv`.
  Neither assumes anything of the indices but that they are at least 1.0. In `BookInv`, `DebtInv`
  counts what is on its way: everything lent, and the repayments that left a position and not yet the
  pool's book (`Unrecorded`), are covered by the pool's debt and what borrowers repaid. `OrderInv` says
  which steps come after a call's choice, which is what tells whether a call is in one of these sums.
* `RegistryProofs` about `Accrual`: `AccrualTypeCorrect`, `InterestIsAccountedFor`, `NeverAhead`. The accounting
  equation needs that no time ahead of the clock is ever stored.
* `RegistryProofs` about `Oracle`: `OracleTypeCorrect` for every `MinSources` (the median of a non-empty set of positive
  prices is positive, which also bounds what a run carries to the pools), and `OnlyValidIsPublished`,
  `PoolsAreUpdated`, `NoJump` for `MinSources <= 1`, the default and the deployed value
  (config/env.ts:73). Their invariant adds that a tripped breaker has accepted a price before
  (`Trippable`; here the precondition is needed, see section 8) and that the price on its way to a
  pool equals the published one and is within the threshold of what the pool has (`OnItsWay`).
* `DelegationProofs`: `TypeCorrect`, `SettledPowerIsRight`, `DelegatesOnce`, `VotesConserved`. `IInv` adds that sums already
  read by a handler are still those of the table, and that two handlers share only users
  recorded as tangled: whoever changes a row of a user another handler works on tangles it.
  `VotesConserved` adds `WeightInv` (whoever delegates has a balance row) and exchanges two sums: the weights
  of the delegations, grouped by delegator, are what is subtracted, and grouped by delegatee
  what is added; those to users without a balance row are lost. It is about all users at once,
  hence the assumption that the balance rows are finitely many.
* `WebhooksProofs`: `TypeCorrect`, `FailingEndpointsAreDeactivated`, `DecisionsStand`,
  `UndisturbedEventsAreAcceptedOnce`, `RequestsAreBounded`. `IInv` relates requests, attempts and the
  place of each job (`AttemptsInv`), and says that nothing is sent to a row that is not there
  yet (`CreationInv`), for which counters start at 0.
* `NotificationsProofs`: `TypeCorrect`, `EscalationsOpenLowerWindows`, `CacheFollowsTheRow`,
  `ShownIsUnread`. `UnreadInv` states the debt of the counter: with no reset under way, counter plus
  increments to come equals unread plus decrements to come. This needs cardinalities of
  sets of processes, hence finite sets of those under way although `Alerts` may be infinite.
* `KycProofs`: `TypeCorrect`, `UserFollowsVerification`, `AttemptsNumbered`. `CleanInv`: a handler
  between its two writes that met no other finds what it wrote first. `AttemptsNumbered` rests on the
  part of `TypeOK` that says a row a handler read is still in the table: rows are only appended, and
  an update never touches their number.

`Sums` holds the lemmas these proofs share: the sum over no elements is 0, one element more adds its
value, sums of disjoint sets and of two functions add up, and a sum over a set is the sum of the sums
over its groups (`SumGroups`). The library's induction theorems take an operator as a parameter, which the
installed provers cannot instantiate; the lemmas go by the smallest counterexample instead
(`SmallestSubset`, from the well-founded ordering of the subsets of a finite set), and prove first that the
recursive function behind the fold exists.

Theorems named `*Invariant` state `IInv` itself. It is not among the properties of the
runs, which check its parts that say something of the code; the rest (`BookInv` and
`WeightInv` too) was checked with TLC on the instances of section 4 before it was proved.

## 7. What is only model-checked

* Liveness: `VotingCloses`, `QueueDrains`, `AutoRecovers`, `EveryJobSettles`. They rest on fairness and
  ENABLED, which the provers do not handle. Every other property of a passing run is a theorem.
* What section 8 says is broken is shown by counterexamples of TLC.

## 8. Where code and words disagree

Shown by a run, as findings in `PROJECT.json`:

* **Two ballots of one voter** (`OneVotePerVoter`): look-up and insert are two statements and
  nothing in the schema is unique.
* **Seconds charged twice** (`ChargedOnce`): the job sets `lastAccrualTs` back to its start.
* **Interest undone** (`InterestIsNotNegative`): every refresh puts the ledger's indices, which
  nothing accrues, into the registry (poolRegistry.ts:386). A borrow at index 1.5 followed by any
  deposit's refresh owes less than its principal, and `GetInterestOwed` ("Get interest accrued since
  origination", Borrow.daml:195) is negative. One call at a time is enough.

Shown by TLC during development; their runs made room for other components:

* **Veto and execution both happen**: they check different rows and write by id, so the
  proposal ends VETOED although its execution is recorded (executionService.ts:68;
  README.md:121 "Admin veto for security-critical proposals").
* **Withdrawn, not paid**: of two overlapping calls, a withdrawal reduces its position and then
  fails on the archived pool contract (pool.service.ts:512). It takes no overlap either when interest
  is due: shares are paid at the registry's index (pool.service.ts:454) and checked against the
  registry's totals, both of which grow without the ledger, so the ledger may refuse what was allowed.
* **A retried create**: one borrow, two debts, as each retry takes a new command id
  (client.ts:731). `creates` counts them.
* **A confirmed movement is never published**: a reset clears the trip and keeps the last valid
  price, so the next run trips again (circuit-breaker.ts:102; DUALIS_FINANCE_WHITEPAPER_v1.md:400
  "until manual review confirms the movement is genuine").
* **Chains of delegations**: the check (delegationService.ts:45 "Chain delegation prevention") looks at
  the delegatee only; after alice delegates to bob, bob may delegate to carol.
* **Deactivated after a success**: the limit is compared with the value an UPDATE returned; a
  success or a reactivation before the second UPDATE does not stop it (webhook.channel.ts:117).
  An endpoint the owner has just reactivated may be deactivated with a counter of 0.
* **A critical alert suppressed after a relapse**: critical, caution and critical again within the
  critical level's window: only lower keys are cleared, so the second critical alert is a
  duplicate (ratelimit.ts:113 "the user gets the new, more urgent notification immediately").

Met while modelling, without a run of their own:

* A cancellation checked before the job and stored after it overwrites PASSED or TIMELOCK
  (proposalService.ts:208, "Can only cancel active proposals").
* A failure inside `queueExecution` leaves a proposal PASSED for ever
  (executionService.ts:180; the job's comment, line 23, promises queueing).
* A proposal without timelock dates gets a timelock that is over at once
  (executionService.ts:25; README.md:121 and :119 promise 48 hours).
* `createProposal` writes the snapshot, which refers to the proposal by a NOT NULL foreign key, before
  the proposal (proposalService.ts:86): with any balance to record the insert fails.
* Overlapping calls leave the registry with an archived contract id or old totals
  (poolRegistry.ts:402, "single source of truth").
* A repayment reduces its position and then fails on the pool, whose debt stays
  (borrow.service.ts:576).
* An error of `SupplyPosition.Withdraw` is logged and the pool pays anyway, also without any
  overlap (pool.service.ts:504).
* The registry's totals differ from the ledger's even when calls come one at a time: accrual
  (pool.service.ts:51) and the job's drift (interestAccrual.job.ts:42) change them.
* Repayments include interest, and `RecordRepay` takes all of them off what was lent: of two
  borrowers of 100, one repays 110 at index 1.1, and the pool's book says 90 while the other still owes 100
  (Borrow.daml:68, Pool.daml:136). So the debt in the book is no upper bound of the positions' debt;
  `NothingIsForgiven` says what is left of that.
* A token transfer that fails is logged and never made up for; `TokensFollowTheBook` is about
  histories without failures.
* Two overlapping executions of a proposal both succeed and the later time stays
  (executionService.ts:57 and :64).
* An execution checked in time and stored later is recorded with the time of its check, after the
  deadline or over EXPIRED too, which it turns into EXECUTED (executionService.ts:64).
  `ExecutionInsideWindow` is about the recorded time.
* A recount stored late takes a tally back in time (voteService.ts:133); `CountedBallotsWereCast`
  excludes ballots nobody cast, not old tallies.
* Two overlapping delegations of one user are both inserted (delegationService.ts:27: look and insert are
  three statements apart and no index is unique), and of two overlapping recalculations the older
  may be stored last; the properties of `Delegation` exempt users two calls worked on at once
  (`tangled`) and those a failed call left (`interrupted`).
* Preferences read before a change and cached after its invalidation stay for the cache's five
  minutes (notification.bus.ts:100): `late` and `stale` name this in `CachedPreferences`, which is about
  every other way to an old cache.
* The counter of unread notifications is wrong after a floor at 0 or a reset that meets an increment, and after
  a restart of Redis, until it is next reset (`skewed`).
* With `MinSources` 2, the first price of an asset with one source trips the breaker and is
  published all the same, as there is no earlier one to keep (oracle.service.ts:157).
* Published prices never expire when all sources are lost.
* The `change` field of the price broadcast is always 0: the previous price has been
  overwritten by then (oracle.service.ts:236).
* `MAX_WEBHOOKS_PER_USER` is compared with a count taken before the insert (webhooks.ts:79): two
  requests at the limit both insert.
* The unread count falls back to the database only when Redis says 0 (notifications.ts:119); after
  a restart of Redis and one new alert it stays at 1 whatever the inbox holds.
* A duplicate is suppressed although the first alert was rate limited or could not be stored:
  the key is set before (notification.bus.ts:252).
* An event of the provider is acknowledged before it is processed, and its key is set first
  (compliance-webhook.ts:42, kyc.service.ts:112): one that fails after that is lost.
* An event redelivered after its key's day, or without Redis, is processed again, over whatever
  came in between. One about an applicant without a verification is dropped with its key set
  (kyc.service.ts:129), so a redelivery within the day is dropped too.
* Two writers of verification and user that overlap, or one whose second write fails, leave them
  apart (kyc.service.ts:161); `StatusesAgree` promises agreement after the next undisturbed pair.
* Events are not ordered by `createdAtMs`: a late `applicantPending` overwrites a review.
* The three attempts of `retryKYC` (kyc.service.ts:215) do not bind `initiateKYC`, which inserts the
  next attempt over a rejected one all the same. Overlapping inserts share a number, so more attempts
  may be made than are counted; `AttemptsHaveNoGaps` says that no number is left out.
* `makeDecision` rejects the user and leaves the verification as it was (decision.service.ts:43).

## 9. Not modelled

See `components` in `PROJECT.json` for each part and its reason. Inside the modelled parts, what is
left out is named in section 3. The models cover a small share of the repository's lines,
and that is its shape rather than a gap in the order of things:

* About half of the code is the frontend: pages, forms and charts whose state is a copy of
  what the API answers.
* Several of the API's largest services answer from mock data or seeds (securities lending,
  flash loans, analytics, much of the seed and schema files) and keep nothing
  another step could find changed.
* Rates, health factors and liquidation amounts are floating-point or Decimal formulas, out of
  TLC's reach as numbers.
* Wallet signing: `pool.service.ts` (275, 462) and `borrow.service.ts` (326, 542, 720) can hand a transaction to
  the wallet, but `determineRoutingMode` answers `proxy` for every transaction
  (transactionRouter.service.ts:82), so the branch is dead.
* Creation of a proposal fails as soon as there is a balance to record (section 8).
* Screening, administration, credit scores and onboarding are single statements per call or
  calls to providers.

Open with state worth a model: authentication (sessions, nonces, counters), the ledger's
governance, liquidation and token templates, which the API does not call, and the bridge's
fallback to a mock.
