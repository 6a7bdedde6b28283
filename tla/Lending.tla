------------------------------ MODULE Lending -------------------------------
(***************************************************************************)
(* Deposits, withdrawals, borrows and repayments of one lending pool in    *)
(* proxy mode.  The truth is on the ledger: one LendingPool contract,      *)
(* replaced by a new one with every choice, and the position contracts.    *)
(* The API process keeps a registry object per pool with the id of the     *)
(* contract to exercise and the indices interest is counted with; a        *)
(* refresh replaces the object in the registry while handlers keep the     *)
(* object they took before.                                                *)
(*                                                                         *)
(* A handler awaits the ledger several times; `step` names what it awaits  *)
(* next.  A submission whose answer is lost is sent again, as a new        *)
(* command, with the same argument.                                        *)
(*                                                                         *)
(* Amounts and indices are Daml Decimals, in multiples of the smallest     *)
(* one; `One` of them make 1.0.  The indices of the registry rise, those   *)
(* of the ledger stay at 1.0 because nothing exercises AccrueInterest, and *)
(* a refresh takes the ledger's.  The totals of a registry object are left *)
(* out: accrual and simulated drift move them away from the ledger's, and  *)
(* all they decide is which withdrawals are refused at once.               *)
(***************************************************************************)
EXTENDS Integers, Sequences, FiniteSetsExt

CONSTANTS Requests,       \* the HTTP calls of a run
          Amounts,        \* the amounts, or shares, calls ask for
          One,            \* Decimal 1.0, the index of a new pool
          Indices,        \* the values an index takes
          InitialSupply,  \* totalSupply of the deployed pool
          SupplyCap, BorrowCap,
          MaxInflight,    \* bound: calls served at the same time
          MaxFailures     \* bound: lost answers, failed calls, restarts

ASSUME LendingAssumption ==
  /\ Amounts \subseteq Nat \ {0}
  /\ One \in Nat \ {0}
  /\ One \in Indices
  /\ Indices \subseteq {i \in Nat : i >= One}
  /\ InitialSupply \in Nat
  /\ SupplyCap \in Nat
  /\ BorrowCap \in Nat
  /\ MaxInflight \in Nat
  /\ MaxFailures \in Nat

VARIABLES
  pool,             \* ledger: the active LendingPool contract
  supplyPositions,  \* ledger: active SupplyPosition contracts
  borrowPositions,  \* ledger: active BorrowPosition contracts
  custody,          \* tokens the operator holds for the pool
  objects,          \* every PoolState object; the last one is in the registry
  inflight,         \* HTTP handlers awaiting an answer
  served,           \* calls already received
  failures,
  applied,          \* history: calls whose pool choice was committed
  creates,          \* history: BorrowPosition contracts created for a call
  lent,             \* history: what RecordBorrow added to the pool's debt
  repaid            \* history: what borrowers repaid on their positions

ledger == <<pool, supplyPositions, borrowPositions>>
api == <<objects, inflight, served>>
money == <<custody, lent, repaid>>
vars == <<ledger, money, api, failures, applied, creates>>

entry == Len(objects)
NoPosition == <<>>
NoCid == -1

(* What the registry holds of a pool: read from the ledger, or the built-in
   object it falls back to, whose contract id no contract has. *)
Loaded(c) == [cid |-> c, borrowIndex |-> One, supplyIndex |-> One]
Fallback == Loaded(NoCid)

Init ==
  /\ pool = [cid |-> 0, supply |-> InitialSupply, borrow |-> 0]
  /\ supplyPositions = {}
  /\ borrowPositions = {}
  /\ custody = InitialSupply
  /\ objects = <<Loaded(0)>>
  /\ inflight = {}
  /\ served = {}
  /\ failures = 0
  /\ applied = {}
  /\ creates = [r \in Requests |-> 0]
  /\ lent = 0
  /\ repaid = 0

-----------------------------------------------------------------------------
(* Interest.  An accrual multiplies the indices by factors of at least 1, and
   leaves them when no time has passed. *)

AccrueInterest(i) == \E b, s \in Indices :
  /\ b >= objects[i].borrowIndex
  /\ s >= objects[i].supplyIndex
  /\ objects' = [objects EXCEPT ![i] = [@ EXCEPT !.borrowIndex = b, !.supplyIndex = s]]

\* A quotient of Decimals, rounded half to even.
Rounded(n, d) ==
  LET q == n \div d
      r == n % d
  IN  IF 2 * r < d \/ (2 * r = d /\ q % 2 = 0) THEN q ELSE q + 1

\* calculateCurrentBalance: principal * (currentIndex / indexAtEntry).
Balance(p, current) == Rounded(p.amount * Rounded(current * One, p.index), One)

\* What shares are worth, cut off after the last digit of a Decimal.
Worth(shares, index) == (shares * index) \div One

Underlying == Amounts \cup {Worth(s, i) : s \in Amounts, i \in Indices}

-----------------------------------------------------------------------------
(* Handlers: `object` is the PoolState they captured, `cid` the pool contract
   they exercise (then the one they created), `position` the contract id of a
   position, `index` the index they send with it, `read` the id a query for the
   pool has returned. *)

Receive(r, op, a, step) ==
  /\ r \notin served
  /\ Cardinality(inflight) < MaxInflight
  /\ served' = served \cup {r}
  /\ inflight' = inflight \cup
       {[id |-> r, op |-> op, amount |-> a, step |-> step, object |-> entry,
         cid |-> IF step = "pool" THEN objects[entry].cid ELSE NoCid,
         position |-> NoPosition, index |-> One, read |-> NoCid]}
  /\ UNCHANGED <<ledger, money, failures, applied, creates>>

Become(h, g) ==
  /\ inflight' = (inflight \ {h}) \cup {g}
  /\ UNCHANGED served

\* What was kept for the statement before is not used again.
GoTo(h, step) ==
  Become(h, [h EXCEPT !.step = step, !.cid = NoCid, !.position = NoPosition,
                      !.index = One, !.read = NoCid])

Return(h) ==
  /\ inflight' = inflight \ {h}
  /\ UNCHANGED served

Fault ==
  /\ failures < MaxFailures
  /\ failures' = failures + 1

Deposit == \E r \in Requests, a \in Amounts :
  /\ AccrueInterest(entry)
  /\ Receive(r, "deposit", a, "call")

\* The registry's totals, after accrual and drift, may allow any withdrawal; one
\* they do not allow ends here.
Withdraw == \E r \in Requests, shares \in Amounts :
  /\ AccrueInterest(entry)
  /\ Receive(r, "withdraw", Worth(shares, objects'[entry].supplyIndex), "find_supply")

\* No await between registry.getPool and the submission of RecordBorrow.
RequestBorrow == \E r \in Requests, a \in Amounts :
  Receive(r, "borrow", a, "pool") /\ UNCHANGED objects

Repay == \E r \in Requests, a \in Amounts :
  Receive(r, "repay", a, "find_debt") /\ UNCHANGED objects

AddCollateral == \E r \in Requests :
  Receive(r, "collateral", 0, "find_debt") /\ UNCHANGED objects

\* GET /pools?refresh=true
LoadFromCanton == \E r \in Requests :
  Receive(r, "load", 0, "refresh") /\ UNCHANGED objects

\* The first SupplyPosition of the operator in this pool, whoever deposited.
FindSupply(h) ==
  /\ h.step = "find_supply"
  /\ IF supplyPositions = {}
     THEN GoTo(h, "call")
     ELSE \E p \in supplyPositions :
            Become(h, [h EXCEPT !.step = "position", !.position = p.cid,
                                !.index = objects[h.object].supplyIndex])
  /\ UNCHANGED <<ledger, money, objects, failures, applied, creates>>

\* The position the client names, or an error when it is not there.
FindDebt(h) ==
  /\ h.step = "find_debt"
  /\ \/ \E p \in borrowPositions :
          Become(h, [h EXCEPT !.step = "position", !.position = p.cid, !.object = entry,
                              !.index = objects[entry].borrowIndex])
     \/ Return(h)
  /\ UNCHANGED <<ledger, money, objects, failures, applied, creates>>

\* A position p whose owner moves h.amount at the index h sends: archived when
\* nothing remains, and otherwise counted from that index on.
Covers(h, p) == p.cid = h.position /\ h.amount <= Balance(p, h.index)
Reduced(positions, p, h) ==
  (positions \ {p}) \cup
    (IF h.amount < Balance(p, h.index)
     THEN {[p EXCEPT !.cid = <<h.id, 0>>, !.amount = Balance(p, h.index) - h.amount,
                     !.index = h.index]}
     ELSE {})

\* SupplyPosition.Withdraw.  An error, also one caused by a lost answer, is
\* logged, and the handler goes on to the pool.
WithdrawPosition(h) ==
  /\ h.step = "position" /\ h.op = "withdraw"
  /\ \/ /\ \E p \in supplyPositions :
             Covers(h, p) /\ supplyPositions' = Reduced(supplyPositions, p, h)
        /\ UNCHANGED failures
     \/ /\ ~\E p \in supplyPositions : Covers(h, p)
        /\ UNCHANGED <<supplyPositions, failures>>
     \/ /\ Fault
        /\ UNCHANGED supplyPositions
  /\ GoTo(h, "call")
  /\ UNCHANGED <<pool, borrowPositions, money, objects, applied, creates>>

\* Mutant of RepayPosition: an error is logged and the pool is repaid, as in
\* WithdrawPosition.
RepayPositionContinues(h) ==
  /\ h.step = "position" /\ h.op = "repay"
  /\ \/ /\ \E p \in borrowPositions :
             Covers(h, p) /\ borrowPositions' = Reduced(borrowPositions, p, h)
        /\ repaid' = repaid + h.amount
     \/ /\ ~\E p \in borrowPositions : Covers(h, p)
        /\ UNCHANGED <<borrowPositions, repaid>>
  /\ GoTo(h, "call")
  /\ UNCHANGED <<pool, supplyPositions, custody, lent, objects, failures, applied, creates>>

\* BorrowPosition.Repay.  Any error ends the call; a lost answer is one.
RepayPosition(h) ==
  /\ h.step = "position" /\ h.op = "repay"
  /\ \/ /\ \E p \in borrowPositions :
             Covers(h, p) /\ borrowPositions' = Reduced(borrowPositions, p, h)
        /\ repaid' = repaid + h.amount
        /\ \/ GoTo(h, "call") /\ UNCHANGED failures
           \/ Return(h) /\ Fault
     \/ /\ ~\E p \in borrowPositions : Covers(h, p)
        /\ Return(h)
        /\ UNCHANGED <<borrowPositions, repaid, failures>>
  /\ UNCHANGED <<pool, supplyPositions, custody, lent, objects, applied, creates>>

\* BorrowPosition.AddCollateral: the same debt in a new contract.
CollateralizePosition(h) ==
  /\ h.step = "position" /\ h.op = "collateral"
  /\ \/ \E p \in borrowPositions :
          /\ p.cid = h.position
          /\ borrowPositions' = (borrowPositions \ {p}) \cup {[p EXCEPT !.cid = <<h.id, 0>>]}
     \/ /\ ~\E p \in borrowPositions : p.cid = h.position
        /\ UNCHANGED borrowPositions
  /\ Return(h)
  /\ UNCHANGED <<pool, supplyPositions, money, objects, failures, applied, creates>>

\* The handler resumes and reads pool.contractId from the object it captured.
CallPool(h) ==
  /\ h.step = "call"
  /\ Become(h, [h EXCEPT !.step = "pool", !.cid = objects[h.object].cid])
  /\ UNCHANGED <<ledger, money, objects, failures, applied, creates>>

(* The four choices of LendingPool that handlers exercise. *)

PoolDeposit(h) ==
  /\ pool.supply + h.amount <= SupplyCap
  /\ pool' = [pool EXCEPT !.cid = @ + 1, !.supply = @ + h.amount]
  /\ supplyPositions' =
       supplyPositions \cup {[cid |-> <<h.id, 0>>, amount |-> h.amount, index |-> One]}

\* Mutant of ProcessWithdraw: what is lent out counts as available.
ProcessWithdrawLent(h) ==
  /\ h.amount <= pool.supply
  /\ pool' = [pool EXCEPT !.cid = @ + 1, !.supply = @ - h.amount]
  /\ UNCHANGED supplyPositions

ProcessWithdraw(h) ==
  /\ h.amount <= pool.supply - pool.borrow
  /\ pool' = [pool EXCEPT !.cid = @ + 1, !.supply = @ - h.amount]
  /\ UNCHANGED supplyPositions

RecordBorrow(h) ==
  /\ h.amount <= pool.supply - pool.borrow
  /\ pool.borrow + h.amount <= BorrowCap
  /\ pool' = [pool EXCEPT !.cid = @ + 1, !.borrow = @ + h.amount]
  /\ UNCHANGED supplyPositions

\* Mutant of RecordRepay: the repayment is not clamped.
RecordRepayUnclamped(h) ==
  /\ pool' = [pool EXCEPT !.cid = @ + 1, !.borrow = @ - h.amount]
  /\ UNCHANGED supplyPositions

RecordRepay(h) ==
  /\ pool' = [pool EXCEPT !.cid = @ + 1,
                          !.borrow = @ - (IF h.amount < @ THEN h.amount ELSE @)]
  /\ UNCHANGED supplyPositions

Choice(h) ==
  /\ \/ h.op = "deposit" /\ PoolDeposit(h)
     \/ h.op = "withdraw" /\ ProcessWithdraw(h)
     \/ h.op = "borrow" /\ RecordBorrow(h)
     \/ h.op = "repay" /\ RecordRepay(h)
  /\ applied' = applied \cup {h.id}
  /\ lent' = lent + (IF h.op = "borrow" THEN h.amount ELSE 0)

\* Mutant of ExercisePool: a retry asks for the active contract.
ExercisePoolAnew(h) ==
  /\ h.step = "pool"
  /\ h.cid = pool.cid
  /\ Choice(h)
  /\ \/ /\ Become(h, [h EXCEPT !.step = "query", !.cid = pool'.cid])
        /\ UNCHANGED failures
     \/ /\ Become(h, [h EXCEPT !.cid = pool'.cid])
        /\ Fault
  /\ UNCHANGED <<borrowPositions, custody, repaid, objects, creates>>

\* The choice commits if h.cid is the active contract.  When the answer is
\* lost, the same argument is submitted again.
ExercisePool(h) ==
  /\ h.step = "pool"
  /\ h.cid = pool.cid
  /\ Choice(h)
  /\ \/ /\ Become(h, [h EXCEPT !.step = "query", !.cid = pool'.cid])
        /\ UNCHANGED failures
     \/ /\ UNCHANGED <<inflight, served>>
        /\ Fault
  /\ UNCHANGED <<borrowPositions, custody, repaid, objects, creates>>

\* Mutant of PoolRejects: the error is logged and the handler goes on.
PoolRejectsContinues(h) ==
  /\ h.step = "pool"
  /\ h.cid # pool.cid
  /\ GoTo(h, "query")
  /\ UNCHANGED <<ledger, money, objects, failures, applied, creates>>

\* The contract is archived or never was, or an assertion of the choice fails:
\* every retry fails as well and the call ends in an error.
PoolRejects(h) ==
  /\ h.step = "pool"
  /\ \/ h.cid # pool.cid
     \/ h.op = "deposit" /\ pool.supply + h.amount > SupplyCap
     \/ h.op \in {"withdraw", "borrow"} /\ h.amount > pool.supply - pool.borrow
     \/ h.op = "borrow" /\ pool.borrow + h.amount > BorrowCap
  /\ Return(h)
  /\ UNCHANGED <<ledger, money, objects, failures, applied, creates>>

\* The new contract id: from the events of the answer, or else from a query; if
\* that fails the object keeps the id it has.
QueryPool(h) ==
  /\ h.step = "query"
  /\ \/ /\ \E c \in {h.cid, pool.cid} : Become(h, [h EXCEPT !.step = "update", !.cid = c])
        /\ UNCHANGED failures
     \/ /\ Become(h, [h EXCEPT !.step = "update", !.cid = objects[h.object].cid])
        /\ Fault
  /\ UNCHANGED <<ledger, money, objects, applied, creates>>

\* A borrow's position is made out at once, with the index of the object.
AfterUpdate(h) ==
  CASE h.op = "borrow" ->
         Become(h, [h EXCEPT !.step = "create", !.cid = NoCid,
                             !.index = objects[h.object].borrowIndex])
    [] h.op = "repay" -> Return(h)
    [] OTHER -> GoTo(h, "refresh")

\* The handler resumes and writes the object it captured.
UpdateObject(h) ==
  /\ h.step = "update"
  /\ objects' = [objects EXCEPT ![h.object] = [@ EXCEPT !.cid = h.cid]]
  /\ AfterUpdate(h)
  /\ UNCHANGED <<ledger, money, failures, applied, creates>>

AfterRefresh(h) == IF h.op = "load" THEN Return(h) ELSE GoTo(h, "transfer")

\* refreshPoolFromCanton and loadFromCanton: the ledger is read, or else nothing
\* is refreshed ...
ReadPool(h) ==
  /\ h.step = "refresh"
  /\ \/ Become(h, [h EXCEPT !.step = "install", !.read = pool.cid]) /\ UNCHANGED failures
     \/ AfterRefresh(h) /\ Fault
  /\ UNCHANGED <<ledger, money, objects, applied, creates>>

\* ... and when the answer is there a new object takes the registry's place.
InstallPool(h) ==
  /\ h.step = "install"
  /\ objects' = Append(objects, Loaded(h.read))
  /\ AfterRefresh(h)
  /\ UNCHANGED <<ledger, money, failures, applied, creates>>

\* The token bridge; a failure is logged and the call succeeds.
Transfer(h) ==
  /\ h.step = "transfer"
  /\ \/ /\ custody' = IF h.op = "deposit" THEN custody + h.amount ELSE custody - h.amount
        /\ UNCHANGED failures
     \/ Fault /\ UNCHANGED custody
  /\ Return(h)
  /\ UNCHANGED <<ledger, lent, repaid, objects, applied, creates>>

\* createContract: every retry after a lost answer creates one more contract.
CreatePosition(h) ==
  /\ h.step = "create"
  /\ creates' = [creates EXCEPT ![h.id] = @ + 1]
  /\ borrowPositions' = borrowPositions \cup
       {[cid |-> <<h.id, creates[h.id]>>, positionId |-> h.id, amount |-> h.amount,
         index |-> h.index]}
  /\ \/ Return(h) /\ UNCHANGED failures
     \/ UNCHANGED <<inflight, served>> /\ Fault
  /\ UNCHANGED <<pool, supplyPositions, money, objects, applied>>

Handle(h) ==
  \/ FindSupply(h) \/ FindDebt(h)
  \/ WithdrawPosition(h) \/ RepayPosition(h) \/ CollateralizePosition(h)
  \/ CallPool(h) \/ ExercisePool(h) \/ PoolRejects(h)
  \/ QueryPool(h) \/ UpdateObject(h) \/ ReadPool(h) \/ InstallPool(h)
  \/ Transfer(h) \/ CreatePosition(h)

\* A submission or query fails for good, and with it the call.
HandlerFails(h) ==
  /\ Fault
  /\ Return(h)
  /\ UNCHANGED <<ledger, money, objects, applied, creates>>

\* Listings and the five-minute job, which may hold an object that was replaced;
\* an object no handler holds is of no consequence any more.
Accrue ==
  /\ \E i \in {entry} \cup {h.object : h \in inflight} : AccrueInterest(i)
  /\ UNCHANGED <<ledger, money, inflight, served, failures, applied, creates>>

\* The process dies; at startup the registry is loaded from the ledger, or falls
\* back to the built-in pools.
Restart ==
  /\ Fault
  /\ inflight' = {}
  /\ objects' \in {<<Loaded(pool.cid)>>, <<Fallback>>}
  /\ UNCHANGED <<ledger, money, served, applied, creates>>

Next ==
  \/ Deposit \/ Withdraw \/ RequestBorrow \/ Repay \/ AddCollateral \/ LoadFromCanton
  \/ \E h \in inflight : Handle(h) \/ HandlerFails(h)
  \/ Accrue \/ Restart

Spec == Init /\ [][Next]_vars

-----------------------------------------------------------------------------
(* Properties *)

PoolState == [cid : Nat \cup {NoCid}, borrowIndex : Indices, supplyIndex : Indices]
SupplyPosition == [cid : Requests \X {0}, amount : Nat, index : Indices]
BorrowPosition == [cid : Requests \X Nat, positionId : Requests, amount : Nat, index : Indices]
Handler ==
  [id : Requests, op : {"deposit", "withdraw", "borrow", "repay", "collateral", "load"},
   amount : Underlying \cup {0},
   step : {"find_supply", "find_debt", "position", "call", "pool", "query", "update",
           "create", "refresh", "install", "transfer"},
   object : Nat, cid : Nat \cup {NoCid}, position : {NoPosition} \cup (Requests \X Nat),
   index : Indices, read : Nat \cup {NoCid}]

\* The variables hold ledger contracts, registry objects and handler locals.
TypeOK ==
  /\ pool \in [cid : Nat, supply : Nat, borrow : Nat]
  /\ supplyPositions \in SUBSET SupplyPosition
  /\ borrowPositions \in SUBSET BorrowPosition
  /\ custody \in Int
  /\ lent \in Nat
  /\ repaid \in Nat
  /\ objects \in Seq(PoolState)
  /\ inflight \in SUBSET Handler
  /\ served \in SUBSET Requests
  /\ failures \in Nat
  /\ applied \in SUBSET Requests
  /\ creates \in [Requests -> Nat]

Amount(S) == SumFunctionOnSet([x \in S |-> x.amount], S)

\* Whatever handlers hold when they resume, the pool never lends more than was
\* supplied nor pays out what is lent (the assertions of the pool's choices).
Solvent == pool.borrow \in 0 .. pool.supply

\* However calls overlap, fail, are sent again or die half way, the pool's book
\* gives up no more debt than borrowers have repaid on their positions, and
\* nobody owes on a position whose borrow is not in the book.
NothingIsForgiven ==
  /\ lent <= pool.borrow + repaid
  /\ \A p \in borrowPositions : p.positionId \in applied

\* Calls whose choice of the pool is committed and whose transfer is to come.
Due(op) == {h \in inflight : h.op = op /\ h.id \in applied}

\* Without failures the operator's tokens and the pool's supply move together,
\* one transfer behind: the calls whose transfer is still to come make up the
\* difference.
TokensFollowTheBook ==
  failures = 0 =>
    pool.supply + Amount(Due("withdraw")) = custody + Amount(Due("deposit"))

\* A request moves the pool at most once, however often it is submitted.
PoolBook == INSTANCE Book WITH
  Amounts <- Underlying, supply <- pool.supply, lent <- pool.borrow
KeepsBook == PoolBook!BSpec

\* Borrow.daml:195 "Get interest accrued since origination": what GetInterestOwed
\* answers at the registry's index is not negative.  False as soon as a refresh
\* takes the registry's index back to the ledger's.
InterestIsNotNegative ==
  \A p \in borrowPositions : Balance(p, objects[entry].borrowIndex) >= p.amount

(* The invariants the proofs go by induction on. *)

\* Calls are told apart by their ids, and the object a handler captured exists.
CallsInv ==
  /\ objects # <<>>
  /\ \A h, g \in inflight : h.id = g.id => h = g
  /\ \A h \in inflight : /\ h.id \in served
                         /\ h.object \in 1 .. Len(objects)
                         /\ h.op \notin {"collateral", "load"} => h.amount \in Underlying
  /\ applied \subseteq served

\* A call that has not reached the pool has not moved it; a call that waits to
\* submit again has consumed the contract it names.
OnceInv ==
  \A h \in inflight : h.id \in applied =>
    /\ h.step \notin {"find_supply", "find_debt", "position", "call"}
    /\ h.step = "pool" => h.cid < pool.cid

IInv == TypeOK /\ Solvent /\ CallsInv /\ OnceInv

\* Every operation awaits its own steps, and the later ones after its choice.
Steps(op) ==
  CASE op = "deposit" -> {"call", "pool", "query", "update", "refresh", "install", "transfer"}
    [] op = "withdraw" -> {"find_supply", "position", "call", "pool", "query", "update",
                           "refresh", "install", "transfer"}
    [] op = "borrow" -> {"pool", "query", "update", "create"}
    [] op = "repay" -> {"find_debt", "position", "call", "pool", "query", "update"}
    [] op = "collateral" -> {"find_debt", "position"}
    [] OTHER -> {"refresh", "install"}

OrderInv ==
  \A h \in inflight :
    /\ h.step \in Steps(h.op)
    /\ h.op # "load" /\ h.step \in {"query", "update", "create", "refresh", "install", "transfer"}
         => h.id \in applied
    /\ failures = 0 /\ h.step = "pool" => h.id \notin applied

\* Repayments that left a position and are still in the pool's book.
Unrecorded ==
  {h \in inflight : h.op = "repay" /\ h.step \in {"call", "pool"} /\ h.id \notin applied}

DebtInv ==
  /\ lent + Amount(Unrecorded) <= pool.borrow + repaid
  /\ \A p \in borrowPositions : p.positionId \in applied

BookInv == IsFiniteSet(inflight) /\ OrderInv /\ DebtInv /\ TokensFollowTheBook
=============================================================================
