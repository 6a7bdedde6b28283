---------------------------- MODULE LendingProofs ---------------------------
(***************************************************************************)
(* Proofs about Lending for every set of calls, amounts and indices, every *)
(* cap, and any number of failures, retries and restarts.                  *)
(***************************************************************************)
EXTENDS Lending, Sums, SequenceTheorems

-----------------------------------------------------------------------------
(* Decimals. *)

LEMMA IndicesFacts ==
  /\ One \in Nat \ {0} /\ One \in Indices
  /\ Indices \subseteq Nat \ {0} /\ Amounts \subseteq Nat
<1>1. One \in Nat \ {0} /\ One \in Indices /\ Amounts \subseteq Nat
  BY LendingAssumption
<1>2. \A i \in Indices : i \in Nat /\ i >= One
  BY LendingAssumption
<1> QED BY <1>1, <1>2

LEMMA QuotientNat == ASSUME NEW n \in Nat, NEW d \in Nat \ {0} PROVE n \div d \in Nat
BY Z3

LEMMA ProductNat == ASSUME NEW m \in Nat, NEW n \in Nat PROVE m * n \in Nat
OBVIOUS

LEMMA RoundedNat == ASSUME NEW n \in Nat, NEW d \in Nat \ {0} PROVE Rounded(n, d) \in Nat
<1>1. n \div d \in Nat
  BY QuotientNat
<1> QED BY <1>1 DEF Rounded

LEMMA BalanceNat ==
  ASSUME NEW p, p.amount \in Nat, p.index \in Indices, NEW i \in Indices
  PROVE  Balance(p, i) \in Nat
<1>1. One \in Nat \ {0} /\ p.index \in Nat \ {0} /\ i \in Nat
  BY IndicesFacts
<1>2. i * One \in Nat
  BY <1>1, ProductNat
<1>3. Rounded(i * One, p.index) \in Nat
  BY <1>1, <1>2, RoundedNat
<1>4. p.amount * Rounded(i * One, p.index) \in Nat
  BY <1>3, ProductNat
<1> QED BY <1>1, <1>4, RoundedNat DEF Balance

\* What calls move is a number of tokens.
LEMMA UnderlyingNat == Underlying \subseteq Nat
<1>1. ASSUME NEW s \in Amounts, NEW i \in Indices PROVE Worth(s, i) \in Nat
  <2>1. One \in Nat \ {0} /\ s * i \in Nat
    BY IndicesFacts, ProductNat
  <2> QED BY <2>1, QuotientNat DEF Worth
<1>2. ASSUME NEW x \in Underlying PROVE x \in Nat
  <2>1. CASE x \in Amounts
    BY <2>1, IndicesFacts
  <2>2. ASSUME NEW s \in Amounts, NEW i \in Indices, x = Worth(s, i) PROVE x \in Nat
    BY <1>1, <2>2
  <2> QED BY <2>1, <2>2 DEF Underlying
<1> QED BY <1>2

-----------------------------------------------------------------------------
(* How handlers move: what every action does to the set of calls. *)

\* A handler that goes on as the same call keeps the calls apart.
LEMMA BecomeCalls ==
  ASSUME TypeOK, CallsInv, NEW h \in inflight, NEW g \in Handler, Become(h, g),
         g.id = h.id, g.op = h.op, g.amount = h.amount,
         objects' # <<>>, Len(objects) \in Nat, Len(objects') \in Nat,
         Len(objects') >= Len(objects), g.object \in 1 .. Len(objects'),
         applied' \subseteq applied \cup {h.id}
  PROVE  CallsInv' /\ inflight' \in SUBSET Handler /\ served' \in SUBSET Requests
<1>1. served' = served /\ inflight' = (inflight \ {h}) \cup {g}
  BY DEF Become
<1>2. \A k \in inflight' : k = g \/ (k \in inflight /\ k # h)
  BY <1>1
<1>3. \A k, l \in inflight' : k.id = l.id => k = l
  BY <1>2 DEF CallsInv
<1>4. \A k \in inflight' : /\ k.id \in served'
                           /\ k.object \in 1 .. Len(objects')
                           /\ k.op \notin {"collateral", "load"} => k.amount \in Underlying
  BY <1>1, <1>2 DEF CallsInv
<1>5. applied' \subseteq served'
  BY <1>1 DEF CallsInv
<1> QED BY <1>1, <1>3, <1>4, <1>5 DEF CallsInv, TypeOK

\* So does a handler that returns.
LEMMA ReturnCalls ==
  ASSUME TypeOK, CallsInv, NEW h \in inflight, Return(h),
         objects' # <<>>, Len(objects) \in Nat, Len(objects') \in Nat,
         Len(objects') >= Len(objects), applied' \subseteq applied \cup {h.id}
  PROVE  CallsInv' /\ inflight' \in SUBSET Handler /\ served' \in SUBSET Requests
<1>1. served' = served /\ inflight' = inflight \ {h}
  BY DEF Return
<1>2. \A k \in inflight' : /\ k.id \in served'
                           /\ k.object \in 1 .. Len(objects')
                           /\ k.op \notin {"collateral", "load"} => k.amount \in Underlying
  BY <1>1 DEF CallsInv
<1> QED BY <1>1, <1>2 DEF CallsInv, TypeOK

\* What a call holds while the pool contract stays, or is replaced by another's.
LEMMA BecomeOnce ==
  ASSUME TypeOK, OnceInv, NEW h \in inflight, NEW g, Become(h, g),
         applied' = applied, pool' = pool,
         g.id \in applied =>
           /\ g.step \notin {"find_supply", "find_debt", "position", "call"}
           /\ g.step = "pool" => g.cid < pool.cid
  PROVE  OnceInv'
BY DEF OnceInv, Become

LEMMA ReturnOnce ==
  ASSUME OnceInv, NEW h \in inflight, Return(h), applied' = applied, pool' = pool
  PROVE  OnceInv'
BY DEF OnceInv, Return

\* Length and type of the registry's objects.
LEMMA ObjectsFacts ==
  ASSUME TypeOK, CallsInv
  PROVE  /\ Len(objects) \in Nat \ {0}
         /\ entry \in 1 .. Len(objects)
         /\ \A i \in 1 .. Len(objects) : objects[i] \in PoolState
<1>1. objects \in Seq(PoolState) /\ objects # <<>>
  BY DEF TypeOK, CallsInv
<1>2. Len(objects) \in Nat /\ \A i \in 1 .. Len(objects) : objects[i] \in PoolState
  BY <1>1, ElementOfSeq, LenProperties
<1>3. Len(objects) # 0
  BY <1>1, EmptySeq
<1> QED BY <1>2, <1>3 DEF entry

\* An accrual changes the indices of one object.
LEMMA AccrueObjects ==
  ASSUME TypeOK, CallsInv, NEW i \in 1 .. Len(objects), AccrueInterest(i)
  PROVE  /\ objects' \in Seq(PoolState) /\ Len(objects') = Len(objects)
         /\ objects'[i] \in PoolState
<1>1. PICK b \in Indices, s \in Indices :
        objects' = [objects EXCEPT ![i] = [@ EXCEPT !.borrowIndex = b, !.supplyIndex = s]]
  BY DEF AccrueInterest
<1> DEFINE o == [objects[i] EXCEPT !.borrowIndex = b, !.supplyIndex = s]
<1>2. objects \in Seq(PoolState) /\ objects[i] \in PoolState
  BY ObjectsFacts DEF TypeOK
<1>3. o \in PoolState
  BY <1>2 DEF PoolState
<1>4. objects' = [objects EXCEPT ![i] = o]
  BY <1>1
<1> HIDE DEF o
<1>5. objects' \in Seq(PoolState) /\ Len(objects') = Len(objects)
  BY <1>2, <1>3, <1>4, ExceptSeq
<1> QED BY <1>5, ElementOfSeq

\* The fields of a handler that arithmetic is done with.
LEMMA HandlerFacts ==
  ASSUME NEW h \in Handler
  PROVE  /\ h.id \in Requests /\ h.amount \in Nat
         /\ h.object \in Nat /\ h.index \in Indices
         /\ h.cid \in Int /\ h.cid \in Nat \cup {NoCid} /\ h.read \in Nat \cup {NoCid}
<1>1. h.amount \in Underlying \cup {0}
  BY DEF Handler
<1>2. h.amount \in Nat
  <2>1. \A a \in Underlying \cup {0} : a \in Nat
    BY UnderlyingNat
  <2> QED BY <1>1, <2>1
<1>3. h.cid \in Nat \cup {NoCid}
  BY DEF Handler
<1>4. h.cid \in Int
  BY <1>3 DEF NoCid
<1> QED BY <1>2, <1>3, <1>4 DEF Handler

\* A handler that goes to another step.
Advanced(h, step) == [h EXCEPT !.step = step, !.cid = NoCid, !.position = NoPosition,
                               !.index = One, !.read = NoCid]

LEMMA StepChange ==
  ASSUME NEW h \in Handler,
         NEW s \in {"find_supply", "find_debt", "position", "call", "pool", "query",
                    "update", "create", "refresh", "install", "transfer"}
  PROVE  /\ Advanced(h, s) \in Handler
         /\ Advanced(h, s).id = h.id /\ Advanced(h, s).op = h.op
         /\ Advanced(h, s).amount = h.amount /\ Advanced(h, s).object = h.object
         /\ Advanced(h, s).step = s
         /\ GoTo(h, s) => Become(h, Advanced(h, s))
<1>1. One \in Indices
  BY IndicesFacts
<1> QED BY <1>1 DEF Advanced, Handler, GoTo

-----------------------------------------------------------------------------
(* The invariant holds at first and every action keeps it. *)

LEMMA InitInv == Init => IInv
<1> SUFFICES ASSUME Init PROVE IInv
  OBVIOUS
<1>1. Loaded(0) \in PoolState
  BY IndicesFacts DEF Loaded, PoolState
<1>2. objects \in Seq(PoolState) /\ objects # <<>>
  BY <1>1 DEF Init
<1> QED BY <1>2, LendingAssumption
     DEF Init, IInv, TypeOK, Solvent, CallsInv, OnceInv

LEMMA ReceiveInv ==
  ASSUME IInv, NEW r \in Requests, NEW a \in Underlying \cup {0},
         NEW op \in {"deposit", "withdraw", "borrow", "repay", "collateral", "load"},
         NEW s \in {"find_supply", "find_debt", "call", "pool", "refresh"},
         Receive(r, op, a, s), op \notin {"collateral", "load"} => a \in Underlying,
         objects' \in Seq(PoolState), Len(objects') = Len(objects)
  PROVE  IInv'
<1> DEFINE h == [id |-> r, op |-> op, amount |-> a, step |-> s, object |-> entry,
                 cid |-> IF s = "pool" THEN objects[entry].cid ELSE NoCid,
                 position |-> NoPosition, index |-> One, read |-> NoCid]
<1>1. /\ r \notin served /\ served' = served \cup {r}
      /\ inflight' = inflight \cup {h}
      /\ UNCHANGED <<pool, supplyPositions, borrowPositions, custody, lent, repaid,
                     failures, applied, creates>>
  BY DEF Receive, ledger, money
<1>2. /\ objects[entry].cid \in Nat \cup {NoCid} /\ entry \in 1 .. Len(objects)
      /\ Len(objects) \in Nat \ {0}
  BY ObjectsFacts DEF PoolState, IInv
<1>3. h \in Handler
  BY <1>2, IndicesFacts DEF Handler
<1>4. h.id = r /\ h.op = op /\ h.amount = a /\ h.object = entry
  OBVIOUS
<1> HIDE DEF h
<1>5. TypeOK'
  BY <1>1, <1>3 DEF IInv, TypeOK
<1>6. \A k \in inflight : k.id # r
  BY <1>1 DEF IInv, CallsInv
<1>7. CallsInv'
  <2>1. \A k, l \in inflight' : k.id = l.id => k = l
    BY <1>1, <1>4, <1>6 DEF IInv, CallsInv
  <2>2. \A k \in inflight' : /\ k.id \in served'
                             /\ k.object \in 1 .. Len(objects')
                             /\ k.op \notin {"collateral", "load"} => k.amount \in Underlying
    BY <1>1, <1>2, <1>4 DEF IInv, CallsInv
  <2>3. objects' # <<>>
    BY <1>2
  <2> QED BY <2>1, <2>2, <2>3, <1>1 DEF IInv, CallsInv
<1>8. OnceInv'
  <2>1. r \notin applied
    BY <1>1 DEF IInv, CallsInv
  <2> QED BY <1>1, <1>4, <2>1 DEF IInv, OnceInv
<1> QED BY <1>1, <1>5, <1>7, <1>8 DEF IInv, Solvent

\* Calls that accrue interest as they arrive.
LEMMA AccruingCall ==
  ASSUME IInv, AccrueInterest(entry)
  PROVE  /\ objects' \in Seq(PoolState) /\ Len(objects') = Len(objects)
         /\ \A a \in Amounts : a \in Underlying
         /\ \A s \in Amounts : Worth(s, objects'[entry].supplyIndex) \in Underlying
<1>1. entry \in 1 .. Len(objects)
  BY ObjectsFacts DEF IInv
<1>2. /\ objects' \in Seq(PoolState) /\ Len(objects') = Len(objects)
      /\ objects'[entry] \in PoolState
  BY <1>1, AccrueObjects DEF IInv
<1>3. objects'[entry].supplyIndex \in Indices
  BY <1>2 DEF PoolState
<1> QED BY <1>2, <1>3 DEF Underlying

\* Steps that change only the handler itself.
LEMMA LocalInv ==
  ASSUME IInv, NEW h \in inflight, NEW g \in Handler, Become(h, g),
         UNCHANGED <<ledger, money, objects, applied, creates>>, failures' \in Nat,
         g.id = h.id, g.op = h.op, g.amount = h.amount, g.object \in 1 .. Len(objects),
         h.id \in applied =>
           /\ g.step \notin {"find_supply", "find_debt", "position", "call"}
           /\ g.step = "pool" => g.cid < pool.cid
  PROVE  IInv'
<1>1. Len(objects) \in Nat /\ objects # <<>>
  BY ObjectsFacts DEF IInv, CallsInv
<1>2. CallsInv' /\ inflight' \in SUBSET Handler /\ served' \in SUBSET Requests
  BY <1>1, BecomeCalls DEF IInv
<1>3. OnceInv'
  BY BecomeOnce DEF IInv, ledger
<1> QED BY <1>2, <1>3 DEF IInv, TypeOK, Solvent, ledger, money

LEMMA LeaveInv ==
  ASSUME IInv, NEW h \in inflight, Return(h),
         UNCHANGED <<ledger, lent, repaid, objects, applied, creates>>,
         failures' \in Nat, custody' \in Int
  PROVE  IInv'
<1>1. Len(objects) \in Nat /\ objects # <<>>
  BY ObjectsFacts DEF IInv, CallsInv
<1>2. CallsInv' /\ inflight' \in SUBSET Handler /\ served' \in SUBSET Requests
  BY <1>1, ReturnCalls DEF IInv
<1>3. OnceInv'
  BY ReturnOnce DEF IInv, ledger
<1> QED BY <1>2, <1>3 DEF IInv, TypeOK, Solvent, ledger

LEMMA FaultFacts == ASSUME TypeOK, Fault PROVE failures' \in Nat
BY DEF TypeOK, Fault

\* Handlers that only look, fail or return.
LEMMA LookInv ==
  ASSUME IInv, NEW h \in inflight,
         \/ FindSupply(h) \/ FindDebt(h) \/ CallPool(h) \/ PoolRejects(h)
         \/ QueryPool(h) \/ ReadPool(h) \/ Transfer(h) \/ HandlerFails(h)
  PROVE  IInv'
<1>0. /\ h \in Handler /\ h.object \in 1 .. Len(objects) /\ failures \in Nat
      /\ pool.cid \in Nat /\ custody \in Int /\ h.amount \in Int
      /\ h.cid \in Nat \cup {NoCid} /\ entry \in 1 .. Len(objects)
      /\ \A i \in 1 .. Len(objects) :
           /\ objects[i].cid \in Nat \cup {NoCid}
           /\ objects[i].borrowIndex \in Indices /\ objects[i].supplyIndex \in Indices
  <2>1. h \in Handler
    BY DEF IInv, TypeOK
  <2>2. h.amount \in Int /\ h.cid \in Nat \cup {NoCid}
    BY <2>1, HandlerFacts
  <2>3. h.object \in 1 .. Len(objects)
    BY DEF IInv, CallsInv
  <2>4. failures \in Nat /\ pool.cid \in Nat /\ custody \in Int
    BY DEF IInv, TypeOK
  <2> QED BY <2>1, <2>2, <2>3, <2>4, ObjectsFacts DEF IInv, PoolState
<1>1. CASE FindSupply(h)
  <2>1. h.id \notin applied
    BY <1>1 DEF FindSupply, IInv, OnceInv
  <2>2. CASE GoTo(h, "call")
    BY <1>0, <1>1, <2>1, <2>2, StepChange, LocalInv DEF FindSupply
  <2>3. ASSUME NEW p \in supplyPositions,
               Become(h, [h EXCEPT !.step = "position", !.position = p.cid,
                                   !.index = objects[h.object].supplyIndex])
        PROVE  IInv'
    <3> DEFINE g == [h EXCEPT !.step = "position", !.position = p.cid,
                              !.index = objects[h.object].supplyIndex]
    <3>1. p.cid \in Requests \X Nat
      BY DEF IInv, TypeOK, SupplyPosition
    <3>2. g \in Handler /\ g.id = h.id /\ g.op = h.op /\ g.amount = h.amount
          /\ g.object = h.object /\ g.step = "position"
      BY <1>0, <3>1 DEF Handler
    <3> HIDE DEF g
    <3> QED BY <1>0, <1>1, <2>1, <2>3, <3>2, LocalInv DEF FindSupply, g
  <2> QED BY <1>1, <2>2, <2>3 DEF FindSupply
<1>2. CASE FindDebt(h)
  <2>1. h.id \notin applied
    BY <1>2 DEF FindDebt, IInv, OnceInv
  <2>2. CASE Return(h)
    BY <1>0, <1>2, <2>2, LeaveInv DEF FindDebt, money
  <2>3. ASSUME NEW p \in borrowPositions,
               Become(h, [h EXCEPT !.step = "position", !.position = p.cid, !.object = entry,
                                   !.index = objects[entry].borrowIndex])
        PROVE  IInv'
    <3> DEFINE g == [h EXCEPT !.step = "position", !.position = p.cid, !.object = entry,
                              !.index = objects[entry].borrowIndex]
    <3>1. p.cid \in Requests \X Nat /\ entry \in Nat
      BY <1>0, ObjectsFacts DEF IInv, TypeOK, BorrowPosition
    <3>2. g \in Handler /\ g.id = h.id /\ g.op = h.op /\ g.amount = h.amount
          /\ g.object = entry /\ g.step = "position"
      BY <1>0, <3>1 DEF Handler
    <3> HIDE DEF g
    <3> QED BY <1>0, <1>2, <2>1, <2>3, <3>2, LocalInv DEF FindDebt, g
  <2> QED BY <1>2, <2>2, <2>3 DEF FindDebt
<1>3. CASE CallPool(h)
  <2> DEFINE g == [h EXCEPT !.step = "pool", !.cid = objects[h.object].cid]
  <2>1. h.id \notin applied
    BY <1>3 DEF CallPool, IInv, OnceInv
  <2>2. g \in Handler /\ g.id = h.id /\ g.op = h.op /\ g.amount = h.amount
        /\ g.object = h.object
    BY <1>0 DEF Handler
  <2> HIDE DEF g
  <2> QED BY <1>0, <1>3, <2>1, <2>2, LocalInv DEF CallPool, g
<1>4. CASE PoolRejects(h)
  BY <1>0, <1>4, LeaveInv DEF PoolRejects, money
<1>5. CASE QueryPool(h)
  <2>1. ASSUME NEW c \in Nat \cup {NoCid}, Become(h, [h EXCEPT !.step = "update", !.cid = c]),
               failures' \in Nat
        PROVE  IInv'
    <3> DEFINE g == [h EXCEPT !.step = "update", !.cid = c]
    <3>1. g \in Handler /\ g.id = h.id /\ g.op = h.op /\ g.amount = h.amount
          /\ g.object = h.object /\ g.step = "update"
      BY <1>0 DEF Handler
    <3> HIDE DEF g
    <3> QED BY <1>0, <1>5, <2>1, <3>1, LocalInv DEF QueryPool, g
  <2> QED BY <1>0, <1>5, <2>1, FaultFacts DEF QueryPool, IInv
<1>6. CASE ReadPool(h)
  <2>1. CASE Become(h, [h EXCEPT !.step = "install", !.read = pool.cid]) /\ UNCHANGED failures
    <3> DEFINE g == [h EXCEPT !.step = "install", !.read = pool.cid]
    <3>1. g \in Handler /\ g.id = h.id /\ g.op = h.op /\ g.amount = h.amount
          /\ g.object = h.object /\ g.step = "install"
      BY <1>0 DEF Handler
    <3> HIDE DEF g
    <3> QED BY <1>0, <1>6, <2>1, <3>1, LocalInv DEF ReadPool, g
  <2>2. CASE Return(h) /\ Fault
    BY <1>0, <1>6, <2>2, LeaveInv, FaultFacts DEF ReadPool, IInv, money
  <2>3. CASE GoTo(h, "transfer") /\ Fault
    BY <1>0, <1>6, <2>3, StepChange, LocalInv, FaultFacts DEF ReadPool, IInv
  <2> QED BY <1>6, <2>1, <2>2, <2>3 DEF ReadPool, AfterRefresh
<1>7. CASE Transfer(h)
  <2>1. failures' \in Nat /\ custody' \in Int
    BY <1>0, <1>7, FaultFacts DEF Transfer, IInv
  <2> QED BY <1>7, <2>1, LeaveInv DEF Transfer
<1>8. CASE HandlerFails(h)
  BY <1>0, <1>8, FaultFacts, LeaveInv DEF HandlerFails, IInv, money
<1> QED BY <1>1, <1>2, <1>3, <1>4, <1>5, <1>6, <1>7, <1>8

\* The contracts left when a position is reduced are positions again.
LEMMA ReducedSupply ==
  ASSUME TypeOK, NEW p \in supplyPositions, NEW h \in Handler
  PROVE  Reduced(supplyPositions, p, h) \in SUBSET SupplyPosition
<1>1. p \in SupplyPosition /\ h.amount \in Nat /\ h.index \in Indices /\ h.id \in Requests
  BY HandlerFacts DEF TypeOK
<1>2. Balance(p, h.index) \in Nat
  BY <1>1, BalanceNat DEF SupplyPosition
<1>3. ASSUME h.amount < Balance(p, h.index)
      PROVE  [p EXCEPT !.cid = <<h.id, 0>>, !.amount = Balance(p, h.index) - h.amount,
                       !.index = h.index] \in SupplyPosition
  <2>1. Balance(p, h.index) - h.amount \in Nat
    BY <1>1, <1>2, <1>3
  <2> QED BY <1>1, <2>1 DEF SupplyPosition
<1> QED BY <1>3 DEF Reduced, TypeOK

LEMMA ReducedDebt ==
  ASSUME TypeOK, NEW p \in borrowPositions, NEW h \in Handler
  PROVE  Reduced(borrowPositions, p, h) \in SUBSET BorrowPosition
<1>1. p \in BorrowPosition /\ h.amount \in Nat /\ h.index \in Indices /\ h.id \in Requests
  BY HandlerFacts DEF TypeOK
<1>2. Balance(p, h.index) \in Nat
  BY <1>1, BalanceNat DEF BorrowPosition
<1>3. ASSUME h.amount < Balance(p, h.index)
      PROVE  [p EXCEPT !.cid = <<h.id, 0>>, !.amount = Balance(p, h.index) - h.amount,
                       !.index = h.index] \in BorrowPosition
  <2>1. Balance(p, h.index) - h.amount \in Nat
    BY <1>1, <1>2, <1>3
  <2> QED BY <1>1, <2>1 DEF BorrowPosition
<1> QED BY <1>3 DEF Reduced, TypeOK

\* Handlers that exercise a choice of a position.
LEMMA PositionInv ==
  ASSUME IInv, NEW h \in inflight,
         WithdrawPosition(h) \/ RepayPosition(h) \/ CollateralizePosition(h)
  PROVE  IInv'
<1>0. h \in Handler /\ h.id \in Requests /\ h.amount \in Nat
  <2>1. h \in Handler
    BY DEF IInv, TypeOK
  <2> QED BY <2>1, HandlerFacts
<1>1. Len(objects) \in Nat /\ objects # <<>> /\ h.object \in 1 .. Len(objects)
  BY ObjectsFacts DEF IInv, CallsInv
<1>2. h.id \notin applied
  BY DEF IInv, OnceInv, WithdrawPosition, RepayPosition, CollateralizePosition
<1>3. ASSUME GoTo(h, "call") \/ Return(h), objects' = objects, applied' = applied, pool' = pool
      PROVE  /\ CallsInv' /\ OnceInv'
             /\ inflight' \in SUBSET Handler /\ served' \in SUBSET Requests
  <2>1. CASE Return(h)
    BY <1>1, <1>3, <2>1, ReturnCalls, ReturnOnce DEF IInv
  <2>2. CASE GoTo(h, "call")
    <3>1. PICK g \in Handler : /\ g.id = h.id /\ g.op = h.op /\ g.amount = h.amount
                               /\ g.object = h.object /\ Become(h, g)
      BY <1>0, <2>2, StepChange
    <3>2. CallsInv' /\ inflight' \in SUBSET Handler /\ served' \in SUBSET Requests
      <4>1. /\ objects' # <<>> /\ Len(objects') = Len(objects)
            /\ g.object \in 1 .. Len(objects') /\ applied' \subseteq applied \cup {h.id}
        BY <1>1, <1>3, <3>1
      <4>2. TypeOK /\ CallsInv
        BY DEF IInv
      <4> QED BY <1>1, <3>1, <4>1, <4>2, BecomeCalls
    <3>3. OnceInv'
      BY <1>2, <1>3, <3>1, BecomeOnce DEF IInv
    <3> QED BY <3>2, <3>3
  <2> QED BY <1>3, <2>1, <2>2
<1>4. CASE WithdrawPosition(h)
  <2>1. supplyPositions' \in SUBSET SupplyPosition
    BY <1>0, <1>4, ReducedSupply DEF WithdrawPosition, IInv, TypeOK
  <2>2. failures' \in Nat
    BY <1>4, FaultFacts DEF WithdrawPosition, IInv, TypeOK
  <2> QED BY <1>3, <1>4, <2>1, <2>2 DEF WithdrawPosition, IInv, TypeOK, Solvent, money
<1>5. CASE RepayPosition(h)
  <2>1. borrowPositions' \in SUBSET BorrowPosition
    BY <1>0, <1>5, ReducedDebt DEF RepayPosition, IInv, TypeOK
  <2>2. failures' \in Nat /\ repaid' \in Nat
    BY <1>0, <1>5, FaultFacts DEF RepayPosition, IInv, TypeOK
  <2> QED BY <1>3, <1>5, <2>1, <2>2 DEF RepayPosition, IInv, TypeOK, Solvent
<1>6. CASE CollateralizePosition(h)
  <2>1. \A p \in BorrowPosition : [p EXCEPT !.cid = <<h.id, 0>>] \in BorrowPosition
    BY <1>0 DEF BorrowPosition
  <2>2. borrowPositions' \in SUBSET BorrowPosition
    BY <1>6, <2>1 DEF CollateralizePosition, IInv, TypeOK
  <2> QED BY <1>3, <1>6, <2>2 DEF CollateralizePosition, IInv, TypeOK, Solvent, money
<1> QED BY <1>4, <1>5, <1>6

\* What the four choices of the pool have in common.
LEMMA ChoiceFacts ==
  ASSUME IInv, NEW h \in inflight, Choice(h)
  PROVE  /\ pool' \in [cid : Nat, supply : Nat, borrow : Nat] /\ pool'.cid = pool.cid + 1
         /\ pool'.borrow <= pool'.supply
         /\ supplyPositions' \in SUBSET SupplyPosition
         /\ h.amount \in Underlying /\ h.amount \in Nat
         /\ applied' = applied \cup {h.id} /\ lent' \in Nat
<1>1. h \in Handler /\ h.id \in Requests
  BY DEF IInv, TypeOK, Handler
<1>2. h.amount \in Underlying /\ h.amount \in Nat
  <2>1. h.op \notin {"collateral", "load"} => h.amount \in Underlying
    BY DEF IInv, CallsInv
  <2> QED BY <1>1, <2>1, HandlerFacts DEF Choice
<1>3. /\ pool.cid \in Nat /\ pool.supply \in Nat /\ pool.borrow \in Nat
      /\ pool.borrow <= pool.supply
      /\ pool = [cid |-> pool.cid, supply |-> pool.supply, borrow |-> pool.borrow]
  BY DEF IInv, TypeOK, Solvent
<1>4. supplyPositions \in SUBSET SupplyPosition
  BY DEF IInv, TypeOK
<1>5. CASE PoolDeposit(h)
  <2>1. pool' = [cid |-> pool.cid + 1, supply |-> pool.supply + h.amount,
                 borrow |-> pool.borrow]
    BY <1>3, <1>5 DEF PoolDeposit
  <2>2. [cid |-> <<h.id, 0>>, amount |-> h.amount, index |-> One] \in SupplyPosition
    BY <1>1, <1>2, IndicesFacts DEF SupplyPosition
  <2>3. applied' = applied \cup {h.id} /\ lent' \in Nat
    BY <1>2 DEF Choice, IInv, TypeOK
  <2> QED BY <1>2, <1>3, <1>4, <1>5, <2>1, <2>2, <2>3 DEF PoolDeposit
<1>6. CASE ProcessWithdraw(h)
  <2>1. pool' = [cid |-> pool.cid + 1, supply |-> pool.supply - h.amount,
                 borrow |-> pool.borrow]
    BY <1>3, <1>6 DEF ProcessWithdraw
  <2>2. applied' = applied \cup {h.id} /\ lent' \in Nat
    BY <1>2 DEF Choice, IInv, TypeOK
  <2> QED BY <1>2, <1>3, <1>4, <1>6, <2>1, <2>2 DEF ProcessWithdraw
<1>7. CASE RecordBorrow(h)
  <2>1. pool' = [cid |-> pool.cid + 1, supply |-> pool.supply,
                 borrow |-> pool.borrow + h.amount]
    BY <1>3, <1>7 DEF RecordBorrow
  <2>2. applied' = applied \cup {h.id} /\ lent' \in Nat
    BY <1>2 DEF Choice, IInv, TypeOK
  <2> QED BY <1>2, <1>3, <1>4, <1>7, <2>1, <2>2 DEF RecordBorrow
<1>8. CASE RecordRepay(h)
  <2>1. PICK b \in Nat : /\ b <= pool.borrow
                         /\ pool' = [cid |-> pool.cid + 1, supply |-> pool.supply, borrow |-> b]
    <3>1. CASE h.amount < pool.borrow
      <4>1. pool' = [cid |-> pool.cid + 1, supply |-> pool.supply,
                     borrow |-> pool.borrow - h.amount]
        BY <1>3, <1>8, <3>1 DEF RecordRepay
      <4> QED BY <1>2, <1>3, <3>1, <4>1
    <3>2. CASE ~(h.amount < pool.borrow)
      <4>1. pool' = [cid |-> pool.cid + 1, supply |-> pool.supply,
                     borrow |-> pool.borrow - pool.borrow]
        BY <1>3, <1>8, <3>2 DEF RecordRepay
      <4>2. pool.borrow - pool.borrow = 0
        BY <1>3
      <4> QED BY <1>3, <4>1, <4>2
    <3> QED BY <3>1, <3>2
  <2>2. applied' = applied \cup {h.id} /\ lent' \in Nat
    BY <1>2 DEF Choice, IInv, TypeOK
  <2> QED BY <1>2, <1>3, <1>4, <1>8, <2>1, <2>2 DEF RecordRepay
<1> QED BY <1>5, <1>6, <1>7, <1>8 DEF Choice

LEMMA ExerciseInv ==
  ASSUME IInv, NEW h \in inflight, ExercisePool(h)
  PROVE  IInv'
<1>0. h \in Handler /\ h.id \in Requests /\ h.id \in served
  BY DEF IInv, TypeOK, Handler, CallsInv
<1>1. /\ pool' \in [cid : Nat, supply : Nat, borrow : Nat]
      /\ pool'.cid \in Nat /\ pool'.cid = pool.cid + 1 /\ pool.cid \in Nat
      /\ pool'.borrow \in 0 .. pool'.supply
      /\ supplyPositions' \in SUBSET SupplyPosition
      /\ applied' = applied \cup {h.id} /\ lent' \in Nat
  BY ChoiceFacts DEF ExercisePool, IInv, TypeOK
<1>2. /\ h.cid = pool.cid /\ h.step = "pool"
      /\ UNCHANGED <<borrowPositions, custody, repaid, objects, creates>>
  BY DEF ExercisePool
<1>3. Len(objects) \in Nat /\ objects # <<>> /\ h.object \in 1 .. Len(objects)
  BY ObjectsFacts DEF IInv, CallsInv
<1>4. failures' \in Nat
  BY FaultFacts DEF ExercisePool, IInv, TypeOK
<1>5. \A k \in inflight : k.id = h.id => k = h
  BY DEF IInv, CallsInv
<1>6. \A k \in inflight : k.step = "pool" /\ k.id \in applied => k.cid < pool'.cid
  <2>1. \A k \in inflight : k.cid \in Int
    BY HandlerFacts DEF IInv, TypeOK
  <2> QED BY <1>1, <2>1 DEF IInv, OnceInv
<1>7. CASE Become(h, [h EXCEPT !.step = "query", !.cid = pool'.cid])
  <2> DEFINE g == [h EXCEPT !.step = "query", !.cid = pool'.cid]
  <2>1. g \in Handler /\ g.id = h.id /\ g.op = h.op /\ g.amount = h.amount
        /\ g.object = h.object /\ g.step = "query"
    BY <1>0, <1>1 DEF Handler
  <2>2. CallsInv' /\ inflight' \in SUBSET Handler /\ served' \in SUBSET Requests
    <3>1. /\ Become(h, g)
          /\ objects' # <<>> /\ Len(objects') = Len(objects)
          /\ g.object \in 1 .. Len(objects') /\ applied' \subseteq applied \cup {h.id}
      BY <1>1, <1>2, <1>3, <1>7, <2>1
    <3>2. TypeOK /\ CallsInv
      BY DEF IInv
    <3> HIDE DEF g
    <3> QED BY <1>3, <2>1, <3>1, <3>2, BecomeCalls
  <2>3. \A k \in inflight' : k = g \/ (k \in inflight /\ k.id # h.id)
    BY <1>5, <1>7 DEF Become
  <2>4. OnceInv'
    BY <1>1, <1>2, <1>6, <2>1, <2>3 DEF OnceInv, IInv
  <2> QED BY <1>1, <1>2, <1>4, <2>2, <2>4, <1>0 DEF IInv, TypeOK, Solvent
<1>8. CASE UNCHANGED <<inflight, served>>
  <2>1. CallsInv'
    BY <1>0, <1>1, <1>2, <1>8 DEF IInv, CallsInv
  <2>2. h.cid < pool'.cid
    BY <1>1, <1>2
  <2>3. OnceInv'
    BY <1>1, <1>2, <1>5, <1>6, <1>8, <2>2 DEF OnceInv, IInv
  <2> QED BY <1>1, <1>2, <1>4, <1>8, <2>1, <2>3, <1>0 DEF IInv, TypeOK, Solvent
<1> QED BY <1>7, <1>8 DEF ExercisePool

\* A handler that goes on or returns while the registry's objects change.
LEMMA ObjectsInv ==
  ASSUME IInv, NEW h \in inflight, NEW g \in Handler,
         g.id = h.id, g.op = h.op, g.amount = h.amount, g.object = h.object,
         g.step \in {"create", "refresh", "transfer"}, Become(h, g) \/ Return(h),
         objects' \in Seq(PoolState), Len(objects') \in Nat,
         Len(objects') >= Len(objects),
         UNCHANGED <<ledger, money, failures, applied, creates>>
  PROVE  IInv'
<1>0. h.object \in 1 .. Len(objects) /\ TypeOK /\ CallsInv /\ OnceInv
  BY DEF IInv, CallsInv
<1>1. Len(objects) \in Nat \ {0}
  BY ObjectsFacts, <1>0
<1>2. objects' # <<>> /\ applied' = applied /\ pool' = pool /\ g.object \in 1 .. Len(objects')
  BY <1>0, <1>1 DEF ledger
<1>3. /\ CallsInv' /\ OnceInv'
      /\ inflight' \in SUBSET Handler /\ served' \in SUBSET Requests
  <2>1. CASE Return(h)
    BY <1>0, <1>1, <1>2, <2>1, ReturnCalls, ReturnOnce
  <2>2. CASE Become(h, g)
    <3>1. CallsInv' /\ inflight' \in SUBSET Handler /\ served' \in SUBSET Requests
      BY <1>0, <1>1, <1>2, <2>2, BecomeCalls
    <3>2. OnceInv'
      BY <1>0, <1>2, <2>2, BecomeOnce
    <3> QED BY <3>1, <3>2
  <2> QED BY <2>1, <2>2
<1> QED BY <1>0, <1>3 DEF IInv, TypeOK, Solvent, ledger, money

\* Where a handler is after it updated its object.
LEMMA Updates ==
  ASSUME IInv, NEW h \in inflight, AfterUpdate(h)
  PROVE  \E g \in Handler :
           /\ g.id = h.id /\ g.op = h.op /\ g.amount = h.amount /\ g.object = h.object
           /\ g.step = IF h.op = "borrow" THEN "create" ELSE "refresh"
           /\ h.op # "repay" => Become(h, g)
           /\ h.op = "repay" => Return(h)
<1>1. h \in Handler /\ h.object \in 1 .. Len(objects)
  BY DEF IInv, TypeOK, CallsInv
<1>2. CASE h.op = "borrow"
  <2> DEFINE g == [h EXCEPT !.step = "create", !.cid = NoCid,
                            !.index = objects[h.object].borrowIndex]
  <2>1. objects[h.object].borrowIndex \in Indices
    BY <1>1, ObjectsFacts DEF IInv, PoolState
  <2>2. g \in Handler /\ g.id = h.id /\ g.op = h.op /\ g.amount = h.amount
        /\ g.object = h.object /\ g.step = "create"
    BY <1>1, <2>1 DEF Handler
  <2>3. Become(h, g)
    BY <1>2 DEF AfterUpdate
  <2> HIDE DEF g
  <2> QED BY <1>2, <2>2, <2>3
<1>3. CASE h.op # "borrow"
  <2>1. h.op # "repay" => GoTo(h, "refresh")
    BY <1>3 DEF AfterUpdate
  <2>2. h.op = "repay" => Return(h)
    BY <1>3 DEF AfterUpdate
  <2> QED BY <1>1, <1>3, <2>1, <2>2, StepChange
<1> QED BY <1>2, <1>3

LEMMA UpdateInv ==
  ASSUME IInv, NEW h \in inflight, UpdateObject(h)
  PROVE  IInv'
<1>0. h \in Handler /\ h.object \in 1 .. Len(objects) /\ h.cid \in Nat \cup {NoCid}
  BY HandlerFacts DEF IInv, TypeOK, CallsInv
<1>1. objects[h.object] \in PoolState /\ Len(objects) \in Nat
  BY <1>0, ObjectsFacts DEF IInv
<1>2. /\ objects' \in Seq(PoolState) /\ Len(objects') = Len(objects)
  <2> DEFINE o == [objects[h.object] EXCEPT !.cid = h.cid]
  <2>1. objects \in Seq(PoolState) /\ o \in PoolState
    BY <1>0, <1>1 DEF IInv, TypeOK, PoolState
  <2>2. objects' = [objects EXCEPT ![h.object] = o]
    BY DEF UpdateObject
  <2> HIDE DEF o
  <2> QED BY <1>0, <2>1, <2>2, ExceptSeq
<1>3. UNCHANGED <<ledger, money, failures, applied, creates>> /\ AfterUpdate(h)
  BY DEF UpdateObject
<1>4. PICK g \in Handler :
        /\ g.id = h.id /\ g.op = h.op /\ g.amount = h.amount /\ g.object = h.object
        /\ g.step \in {"create", "refresh"} /\ (Become(h, g) \/ Return(h))
  BY <1>3, Updates
<1> QED BY <1>1, <1>2, <1>3, <1>4, ObjectsInv

LEMMA InstallInv ==
  ASSUME IInv, NEW h \in inflight, InstallPool(h)
  PROVE  IInv'
<1>1. h \in Handler /\ Loaded(h.read) \in PoolState
  <2>1. h \in Handler
    BY DEF IInv, TypeOK
  <2> QED BY <2>1, HandlerFacts, IndicesFacts DEF Loaded, PoolState
<1>2. objects \in Seq(PoolState) /\ Len(objects) \in Nat
  BY ObjectsFacts DEF IInv, TypeOK
<1>3. objects' \in Seq(PoolState) /\ Len(objects') = Len(objects) + 1
  BY <1>1, <1>2, AppendProperties DEF InstallPool
<1>4. GoTo(h, "transfer") \/ Return(h)
  BY DEF InstallPool, AfterRefresh
<1>5. UNCHANGED <<ledger, money, failures, applied, creates>>
  BY DEF InstallPool
<1>6. PICK g \in Handler :
        /\ g.id = h.id /\ g.op = h.op /\ g.amount = h.amount /\ g.object = h.object
        /\ g.step = "transfer" /\ (Become(h, g) \/ Return(h))
  BY <1>1, <1>4, StepChange
<1> QED BY <1>2, <1>3, <1>5, <1>6, ObjectsInv

LEMMA CreateInv ==
  ASSUME IInv, NEW h \in inflight, CreatePosition(h)
  PROVE  IInv'
<1>0. h \in Handler /\ h.id \in Requests /\ h.amount \in Nat /\ h.index \in Indices
  <2>1. h \in Handler
    BY DEF IInv, TypeOK
  <2> QED BY <2>1, HandlerFacts
<1>1. creates[h.id] \in Nat /\ creates' \in [Requests -> Nat]
  BY <1>0 DEF CreatePosition, IInv, TypeOK
<1>2. borrowPositions' \in SUBSET BorrowPosition
  <2>1. [cid |-> <<h.id, creates[h.id]>>, positionId |-> h.id, amount |-> h.amount,
         index |-> h.index] \in BorrowPosition
    BY <1>0, <1>1 DEF BorrowPosition
  <2> QED BY <2>1 DEF CreatePosition, IInv, TypeOK
<1>3. failures' \in Nat
  BY FaultFacts DEF CreatePosition, IInv, TypeOK
<1>4. UNCHANGED <<pool, supplyPositions, money, objects, applied>>
  BY DEF CreatePosition
<1>5. /\ CallsInv' /\ OnceInv'
      /\ inflight' \in SUBSET Handler /\ served' \in SUBSET Requests
  <2>1. CASE Return(h)
    <3>1. Len(objects) \in Nat /\ objects # <<>>
      BY ObjectsFacts DEF IInv, CallsInv
    <3> QED BY <1>4, <2>1, <3>1, ReturnCalls, ReturnOnce DEF IInv
  <2>2. CASE UNCHANGED <<inflight, served>>
    BY <1>4, <2>2 DEF IInv, TypeOK, CallsInv, OnceInv
  <2> QED BY <2>1, <2>2 DEF CreatePosition
<1> QED BY <1>1, <1>2, <1>3, <1>4, <1>5 DEF IInv, TypeOK, Solvent, money

LEMMA AccrueInv == IInv /\ Accrue => IInv'
<1> SUFFICES ASSUME IInv, Accrue PROVE IInv'
  OBVIOUS
<1>1. PICK i \in {entry} \cup {h.object : h \in inflight} : AccrueInterest(i)
  BY DEF Accrue
<1>2. i \in 1 .. Len(objects) /\ Len(objects) \in Nat \ {0}
  BY <1>1, ObjectsFacts DEF IInv, CallsInv
<1>3. objects' \in Seq(PoolState) /\ Len(objects') = Len(objects)
  BY <1>1, <1>2, AccrueObjects DEF IInv
<1>4. objects' # <<>>
  BY <1>2, <1>3
<1>5. UNCHANGED <<ledger, money, inflight, served, failures, applied, creates>>
  BY DEF Accrue
<1> QED BY <1>3, <1>4, <1>5 DEF ledger, money, IInv, TypeOK, Solvent, CallsInv, OnceInv

LEMMA RestartInv == IInv /\ Restart => IInv'
<1> SUFFICES ASSUME IInv, Restart PROVE IInv'
  OBVIOUS
<1>1. objects' \in Seq(PoolState) /\ objects' # <<>>
  <2>1. Loaded(pool.cid) \in PoolState /\ Fallback \in PoolState
    BY IndicesFacts DEF Loaded, Fallback, PoolState, IInv, TypeOK
  <2>2. \A o \in PoolState : <<o>> \in Seq(PoolState) /\ <<o>> # <<>>
    OBVIOUS
  <2> QED BY <2>1, <2>2 DEF Restart
<1>2. failures' \in Nat
  BY FaultFacts DEF Restart, IInv
<1> QED BY <1>1, <1>2
     DEF Restart, ledger, money, IInv, TypeOK, Solvent, CallsInv, OnceInv

-----------------------------------------------------------------------------
(* Theorems *)

LEMMA NextInv == IInv /\ [Next]_vars => IInv'
<1> SUFFICES ASSUME IInv, [Next]_vars PROVE IInv'
  OBVIOUS
<1>0. /\ objects \in Seq(PoolState) /\ Amounts \subseteq Underlying
      /\ Underlying \subseteq Underlying \cup {0}
  BY DEF IInv, TypeOK, Underlying
<1>1. CASE Deposit
  BY <1>0, <1>1, AccruingCall, ReceiveInv DEF Deposit
<1>2. CASE Withdraw
  BY <1>0, <1>2, AccruingCall, ReceiveInv DEF Withdraw
<1>3. CASE RequestBorrow
  BY <1>0, <1>3, ReceiveInv DEF RequestBorrow
<1>4. CASE Repay
  BY <1>0, <1>4, ReceiveInv DEF Repay
<1>5. CASE LoadFromCanton
  BY <1>0, <1>5, ReceiveInv DEF LoadFromCanton
<1>6. ASSUME NEW h \in inflight, Handle(h) \/ HandlerFails(h) PROVE IInv'
  BY <1>6, LookInv, PositionInv, ExerciseInv, UpdateInv, InstallInv, CreateInv DEF Handle
<1>7. CASE Restart
  BY <1>7, RestartInv
<1>8. CASE AddCollateral
  BY <1>0, <1>8, ReceiveInv DEF AddCollateral
<1>9. CASE Accrue
  BY <1>9, AccrueInv
<1>10. CASE UNCHANGED vars
  BY <1>10 DEF vars, ledger, money, api, IInv, TypeOK, Solvent, CallsInv, OnceInv
<1> QED BY <1>1, <1>2, <1>3, <1>4, <1>5, <1>6, <1>7, <1>8, <1>9, <1>10 DEF Next

LEMMA InvariantHolds == Spec => []IInv
BY InitInv, NextInv, PTL DEF Spec

\* The ledger, the registry and the handlers hold values of their types.
THEOREM TypeCorrect == Spec => []TypeOK
<1>1. IInv => TypeOK
  BY DEF IInv
<1> QED BY <1>1, InvariantHolds, PTL

\* However calls overlap, fail and are submitted again, the pool never lends
\* more than was supplied nor pays out what is lent.
THEOREM PoolSolvent == Spec => []Solvent
<1>1. IInv => Solvent
  BY DEF IInv
<1> QED BY <1>1, InvariantHolds, PTL

\* A choice of the pool is one move of Book, by a call that has not moved it.
LEMMA ExerciseIsMove ==
  ASSUME IInv, NEW h \in inflight, ExercisePool(h)
  PROVE  PoolBook!BNext
<1>1. /\ h.id \in Requests /\ h.amount \in Underlying /\ h.amount \in Nat
      /\ applied' = applied \cup {h.id}
  <2>1. h \in Handler
    BY DEF IInv, TypeOK
  <2> QED BY <2>1, HandlerFacts, ChoiceFacts DEF ExercisePool
<1>2. PoolBook!Once(h.id)
  <2>1. h.id \notin applied
    <3>1. pool.cid \in Nat
      BY DEF IInv, TypeOK
    <3> QED BY <3>1 DEF IInv, OnceInv, ExercisePool
  <2> QED BY <1>1, <2>1 DEF PoolBook!Once
<1>3. /\ pool.cid \in Nat /\ pool.supply \in Nat /\ pool.borrow \in Nat
      /\ pool = [cid |-> pool.cid, supply |-> pool.supply, borrow |-> pool.borrow]
  BY DEF IInv, TypeOK
<1>4. \/ PoolBook!AddSupply(h.amount) \/ PoolBook!TakeSupply(h.amount)
      \/ PoolBook!Lend(h.amount) \/ PoolBook!GiveBack(h.amount)
  <2>1. CASE PoolDeposit(h)
    BY <1>3, <2>1 DEF PoolDeposit, PoolBook!AddSupply
  <2>2. CASE ProcessWithdraw(h)
    BY <1>3, <2>2 DEF ProcessWithdraw, PoolBook!TakeSupply
  <2>3. CASE RecordBorrow(h)
    BY <1>3, <2>3 DEF RecordBorrow, PoolBook!Lend
  <2>4. CASE RecordRepay(h)
    <3>1. pool'.supply = pool.supply
      BY <1>3, <2>4 DEF RecordRepay
    <3>2. pool'.borrow = pool.borrow - (IF h.amount < pool.borrow THEN h.amount ELSE pool.borrow)
      BY <1>3, <2>4 DEF RecordRepay
    <3>3. pool'.borrow = IF h.amount < pool.borrow THEN pool.borrow - h.amount ELSE 0
      BY <1>1, <1>3, <3>2
    <3> QED BY <3>1, <3>3 DEF PoolBook!GiveBack
  <2> QED BY <2>1, <2>2, <2>3, <2>4 DEF ExercisePool, Choice
<1> QED BY <1>1, <1>2, <1>4 DEF PoolBook!BNext

LEMMA StepIsMove == IInv /\ [Next]_vars => [PoolBook!BNext]_(PoolBook!bookVars)
<1> SUFFICES ASSUME IInv, [Next]_vars, ~PoolBook!BNext
             PROVE  UNCHANGED PoolBook!bookVars
  OBVIOUS
<1> USE DEF PoolBook!bookVars
<1>1. CASE Deposit
  BY <1>1 DEF Deposit, Receive, ledger
<1>2. CASE Withdraw
  BY <1>2 DEF Withdraw, Receive, ledger
<1>3. CASE RequestBorrow
  BY <1>3 DEF RequestBorrow, Receive, ledger
<1>4. CASE Repay
  BY <1>4 DEF Repay, Receive, ledger
<1>5. CASE LoadFromCanton
  BY <1>5 DEF LoadFromCanton, Receive, ledger
<1>6. ASSUME NEW h \in inflight, Handle(h) \/ HandlerFails(h)
      PROVE  UNCHANGED PoolBook!bookVars
  BY <1>6, ExerciseIsMove
     DEF Handle, HandlerFails, FindSupply, FindDebt, WithdrawPosition, RepayPosition,
         CollateralizePosition,
         CallPool, PoolRejects, QueryPool, UpdateObject, ReadPool, InstallPool,
         Transfer, CreatePosition, ledger
<1>7. CASE Restart
  BY <1>7 DEF Restart, ledger
<1>8. CASE AddCollateral
  BY <1>8 DEF AddCollateral, Receive, ledger
<1>9. CASE Accrue
  BY <1>9 DEF Accrue, ledger
<1>10. CASE UNCHANGED vars
  BY <1>10 DEF vars, ledger
<1> QED BY <1>1, <1>2, <1>3, <1>4, <1>5, <1>6, <1>7, <1>8, <1>9, <1>10 DEF Next

\* Every retry included, a call moves the pool at most once, and only as Book
\* allows.
THEOREM ImplementsBook == Spec => KeepsBook
<1>1. Init => PoolBook!BInit
  BY DEF Init, PoolBook!BInit
<1> QED BY <1>1, InvariantHolds, StepIsMove, PTL DEF Spec, KeepsBook, PoolBook!BSpec

-----------------------------------------------------------------------------
(* Sums of amounts, and what one call changes in them. *)

\* The part of x in the sum of S.
Share(x, S) == IF x \in S THEN x.amount ELSE 0

Summable(S) == IsFiniteSet(S) /\ \A x \in S : x.amount \in Nat

LEMMA AmountNat ==
  ASSUME NEW S, Summable(S)
  PROVE  Amount(S) \in Nat
<1> DEFINE f == [x \in S |-> x.amount]
<1>1. IsFiniteSet(S) /\ \A x \in S : f[x] \in Nat
  BY DEF Summable
<1> HIDE DEF f
<1>2. SumFunctionOnSet(f, S) \in Nat
  BY <1>1, SumNat
<1> QED BY <1>2 DEF Amount, f

LEMMA AmountEmpty == Amount({}) = 0
BY SumEmpty DEF Amount

LEMMA AmountRemove ==
  ASSUME NEW S, Summable(S), NEW y \in S
  PROVE  Amount(S) = y.amount + Amount(S \ {y})
<1> DEFINE f == [x \in S |-> x.amount]
           e == [x \in S \ {y} |-> x.amount]
<1>1. IsFiniteSet(S) /\ (\A x \in S : f[x] \in Int) /\ f[y] = y.amount
  BY DEF Summable
<1>2. \A x \in S \ {y} : f[x] \in Int /\ f[x] = e[x]
  BY DEF Summable
<1>3. IsFiniteSet(S \ {y})
  BY FS_Subset DEF Summable
<1> HIDE DEF f, e
<1>4. SumFunctionOnSet(f, S) = f[y] + SumFunctionOnSet(f, S \ {y})
  BY <1>1, SumRemove
<1>5. SumFunctionOnSet(f, S \ {y}) = SumFunctionOnSet(e, S \ {y})
  BY <1>2, <1>3, SumSame
<1> QED BY <1>1, <1>4, <1>5 DEF Amount, f, e

\* With one element gone, a sum has lost its share.
LEMMA AmountWithout ==
  ASSUME NEW S, Summable(S), NEW y
  PROVE  /\ Share(y, S) \in Nat /\ Amount(S \ {y}) \in Nat
         /\ Amount(S) = Share(y, S) + Amount(S \ {y})
<1>0. Amount(S \ {y}) \in Nat
  <2>1. Summable(S \ {y})
    BY FS_Subset DEF Summable
  <2> QED BY <2>1, AmountNat
<1>1. CASE y \in S
  BY <1>0, <1>1, AmountRemove DEF Share, Summable
<1>2. CASE y \notin S
  <2>1. S \ {y} = S /\ Amount(S) \in Nat
    BY <1>2, AmountNat
  <2>2. Amount(S \ {y}) = Amount(S)
    BY <2>1
  <2>3. Share(y, S) = 0
    BY <1>2 DEF Share
  <2> QED BY <1>0, <2>1, <2>2, <2>3
<1> QED BY <1>1, <1>2

\* The elements of U but h are those of V but g.
OneApart(U, h, V, g) == V \ {g} = U \ {h}

\* The sums of two sets that differ by one element each differ by its share.
LEMMA AmountMoves ==
  ASSUME NEW U, NEW h, NEW V, NEW g, Summable(U), Summable(V), OneApart(U, h, V, g)
  PROVE  /\ Amount(U) \in Nat /\ Amount(V) \in Nat
         /\ Share(h, U) \in Nat /\ Share(g, V) \in Nat
         /\ Amount(V) + Share(h, U) = Amount(U) + Share(g, V)
<1>1. /\ Share(h, U) \in Nat /\ Amount(U \ {h}) \in Nat
      /\ Amount(U) = Share(h, U) + Amount(U \ {h})
  BY AmountWithout
<1>2. /\ Share(g, V) \in Nat
      /\ Amount(V) = Share(g, V) + Amount(V \ {g})
  BY AmountWithout
<1>3. Amount(U) \in Nat /\ Amount(V) \in Nat
  BY AmountNat
<1>4. Amount(V \ {g}) = Amount(U \ {h})
  BY DEF OneApart
<1> QED BY <1>1, <1>2, <1>3, <1>4

\* One call moves: h becomes g, or is gone when g is not under way.
CallMoves(h, g) ==
  /\ inflight' \ {g} = inflight \ {h}
  /\ g.id = h.id
  /\ \A k \in inflight \cup inflight' : k.id = h.id => k \in {h, g}
  /\ applied \subseteq applied' /\ applied' \subseteq applied \cup {h.id}

LEMMA SharesMove ==
  ASSUME NEW h, NEW g, CallMoves(h, g)
  PROVE  /\ OneApart(Unrecorded, h, Unrecorded', g)
         /\ \A op : OneApart(Due(op), h, Due(op)', g)
<1>1. \A k \in inflight \ {h} : /\ k \in inflight' /\ k # g
  BY DEF CallMoves
<1>2. \A k \in inflight' \ {g} : k \in inflight /\ k # h
  BY DEF CallMoves
<1>3. \A k \in inflight \ {h} : k.id \in applied' <=> k.id \in applied
  BY <1>1 DEF CallMoves
<1>4. Unrecorded' \ {g} = Unrecorded \ {h}
  BY <1>1, <1>2, <1>3 DEF Unrecorded
<1>5. ASSUME NEW op PROVE Due(op)' \ {g} = Due(op) \ {h}
  BY <1>1, <1>2, <1>3 DEF Due
<1> QED BY <1>4, <1>5 DEF OneApart

\* The calls under way stay finitely many, and so do their sums.
LEMMA CallSum ==
  ASSUME TypeOK, TypeOK', IsFiniteSet(inflight), IsFiniteSet(inflight'), NEW h, NEW g,
         NEW U \in SUBSET inflight, NEW V \in SUBSET inflight', OneApart(U, h, V, g)
  PROVE  /\ Amount(U) \in Nat /\ Amount(V) \in Nat
         /\ Share(h, U) \in Nat /\ Share(g, V) \in Nat
         /\ Amount(V) + Share(h, U) = Amount(U) + Share(g, V)
<1>1. IsFiniteSet(U) /\ IsFiniteSet(V)
  BY FS_Subset
<1>2. \A k \in inflight \cup inflight' : k.amount \in Nat
  BY HandlerFacts DEF TypeOK
<1>3. Summable(U) /\ Summable(V)
  BY <1>1, <1>2 DEF Summable
<1> QED BY <1>3, AmountMoves

LEMMA CallsFinite ==
  ASSUME IsFiniteSet(inflight), NEW h, NEW g, CallMoves(h, g) PROVE IsFiniteSet(inflight')
<1>1. IsFiniteSet((inflight \ {h}) \cup {g})
  BY FS_Subset, FS_AddElement
<1>2. inflight' \subseteq (inflight \ {h}) \cup {g}
  BY DEF CallMoves
<1> QED BY <1>1, <1>2, FS_Subset

LEMMA UnrecordedNat ==
  ASSUME TypeOK, IsFiniteSet(inflight) PROVE Amount(Unrecorded) \in Nat
<1>1. IsFiniteSet(Unrecorded) /\ \A k \in Unrecorded : k.amount \in Nat
  <2>1. Unrecorded \subseteq inflight
    BY DEF Unrecorded
  <2> QED BY <2>1, FS_Subset, HandlerFacts DEF TypeOK
<1> QED BY <1>1, AmountNat DEF Summable

LEMMA UnrecordedMoves ==
  ASSUME TypeOK, TypeOK', IsFiniteSet(inflight), IsFiniteSet(inflight'),
         NEW h, NEW g, CallMoves(h, g)
  PROVE  /\ Amount(Unrecorded) \in Nat /\ Amount(Unrecorded') \in Nat
         /\ Share(h, Unrecorded) \in Nat /\ Share(g, Unrecorded') \in Nat
         /\ Amount(Unrecorded') + Share(h, Unrecorded)
              = Amount(Unrecorded) + Share(g, Unrecorded')
<1>1. Unrecorded \in SUBSET inflight /\ Unrecorded' \in SUBSET inflight'
  BY DEF Unrecorded
<1>2. OneApart(Unrecorded, h, Unrecorded', g)
  BY SharesMove
<1> QED BY <1>1, <1>2, CallSum

LEMMA DueMoves ==
  ASSUME TypeOK, TypeOK', IsFiniteSet(inflight), IsFiniteSet(inflight'),
         NEW h, NEW g, CallMoves(h, g), NEW op
  PROVE  /\ Amount(Due(op)) \in Nat /\ Amount(Due(op)') \in Nat
         /\ Share(h, Due(op)) \in Nat /\ Share(g, Due(op)') \in Nat
         /\ Amount(Due(op)') + Share(h, Due(op)) = Amount(Due(op)) + Share(g, Due(op)')
<1>1. Due(op) \in SUBSET inflight /\ Due(op)' \in SUBSET inflight'
  BY DEF Due
<1>2. OneApart(Due(op), h, Due(op)', g)
  BY SharesMove
<1> QED BY <1>1, <1>2, CallSum

\* What a call may change without breaking the invariant about sums: it goes on
\* in the order of its steps, ...
KeepsOrder(g) ==
  g \in inflight' =>
    /\ g.step \in Steps(g.op)
    /\ g.op # "load" /\ g.step \in {"query", "update", "create", "refresh", "install", "transfer"}
         => g.id \in applied'
    /\ failures' = 0 /\ g.step = "pool" => g.id \notin applied'

\* ... what is lent grows by no more than the pool's debt and what is repaid, ...
KeepsDebt(h, g) ==
  /\ lent' + Share(g, Unrecorded') + pool.borrow + repaid
       <= lent + Share(h, Unrecorded) + pool'.borrow + repaid'
  /\ \A p \in borrowPositions' : p.positionId \in applied'

\* ... and what the pool and the operator gain is what becomes due.
KeepsTokens(h, g) ==
  failures' = 0 =>
    pool'.supply + Share(g, Due("withdraw")') + custody + Share(h, Due("deposit"))
      = pool.supply + Share(h, Due("withdraw")) + custody' + Share(g, Due("deposit")')

LEMMA NumbersNat ==
  ASSUME TypeOK
  PROVE  /\ pool.supply \in Nat /\ pool.borrow \in Nat /\ custody \in Int
         /\ lent \in Nat /\ repaid \in Nat /\ failures \in Nat
BY DEF TypeOK

LEMMA BookMoves ==
  ASSUME IInv, IInv', BookInv, NEW h, NEW g, CallMoves(h, g), failures' = failures \/ Fault,
         KeepsOrder(g), KeepsDebt(h, g), KeepsTokens(h, g)
  PROVE  BookInv'
<1>1. TypeOK /\ TypeOK' /\ IsFiniteSet(inflight)
  BY DEF IInv, BookInv
<1>2. IsFiniteSet(inflight')
  BY <1>1, CallsFinite
<1>3. failures \in Nat /\ failures' \in Nat /\ (failures' = 0 => failures = 0)
  BY <1>1 DEF TypeOK, Fault
<1>4. \A k \in inflight' : k # g => k \in inflight /\ k # h /\ k.id # h.id
  BY DEF CallMoves
<1>5. \A k \in inflight' : k # g => (k.id \in applied' <=> k.id \in applied)
  BY <1>4 DEF CallMoves
<1>6. OrderInv'
  BY <1>3, <1>4, <1>5 DEF OrderInv, BookInv, KeepsOrder
<1>7. DebtInv'
  <2>1. PICK u \in Nat, u1 \in Nat, a \in Nat, a1 \in Nat :
          /\ u = Share(h, Unrecorded) /\ u1 = Share(g, Unrecorded')
          /\ a = Amount(Unrecorded) /\ a1 = Amount(Unrecorded') /\ a1 + u = a + u1
    BY <1>1, <1>2, UnrecordedMoves
  <2>2. PICK l \in Nat, l1 \in Nat, b \in Nat, b1 \in Nat, r \in Nat, r1 \in Nat :
          /\ l = lent /\ l1 = lent' /\ b = pool.borrow /\ b1 = pool'.borrow
          /\ r = repaid /\ r1 = repaid'
    BY <1>1 DEF TypeOK
  <2>3. l + a <= b + r
    BY <2>1, <2>2 DEF BookInv, DebtInv
  <2>4. l1 + u1 + b + r <= l + u + b1 + r1
    BY <2>1, <2>2 DEF KeepsDebt
  <2>5. l1 + a1 <= b1 + r1
    BY <2>1, <2>3, <2>4
  <2> QED BY <2>1, <2>2, <2>5 DEF DebtInv, KeepsDebt
<1>8. TokensFollowTheBook'
  <2> SUFFICES ASSUME failures' = 0
               PROVE  pool'.supply + Amount(Due("withdraw")') = custody' + Amount(Due("deposit")')
    BY DEF TokensFollowTheBook
  <2>1. PICK w \in Nat, w1 \in Nat, hw \in Nat, gw \in Nat :
          /\ w = Amount(Due("withdraw")) /\ w1 = Amount(Due("withdraw")')
          /\ hw = Share(h, Due("withdraw")) /\ gw = Share(g, Due("withdraw")')
          /\ w1 + hw = w + gw
    BY <1>1, <1>2, DueMoves
  <2>2. /\ Amount(Due("deposit")) \in Nat /\ Amount(Due("deposit")') \in Nat
        /\ Share(h, Due("deposit")) \in Nat /\ Share(g, Due("deposit")') \in Nat
        /\ Amount(Due("deposit")') + Share(h, Due("deposit"))
             = Amount(Due("deposit")) + Share(g, Due("deposit")')
    BY <1>1, <1>2, DueMoves
  <2>3. PICK d \in Nat, d1 \in Nat, hd \in Nat, gd \in Nat :
          /\ d = Amount(Due("deposit")) /\ d1 = Amount(Due("deposit")')
          /\ hd = Share(h, Due("deposit")) /\ gd = Share(g, Due("deposit")')
          /\ d1 + hd = d + gd
    BY <2>2
  <2>4. PICK s \in Nat, s1 \in Nat, c \in Int, c1 \in Int :
          s = pool.supply /\ s1 = pool'.supply /\ c = custody /\ c1 = custody'
    BY <1>1 DEF TypeOK
  <2>5. s + w = c + d
    BY <1>3, <2>1, <2>3, <2>4 DEF BookInv, TokensFollowTheBook
  <2>6. s1 + gw + c + hd = s + hw + c1 + gd
    BY <2>1, <2>3, <2>4 DEF KeepsTokens
  <2>7. w1 + hw = w + gw /\ d1 + hd = d + gd
    BY <2>1, <2>3
  <2>8. s1 + w1 = c1 + d1
    BY <2>5, <2>6, <2>7
  <2> QED BY <2>1, <2>3, <2>4, <2>8
<1> QED BY <1>2, <1>6, <1>7, <1>8 DEF BookInv

-----------------------------------------------------------------------------
(* Every action is a move of one call. *)

LEMMA BecomeMoves ==
  ASSUME IInv, NEW h \in inflight, NEW g, Become(h, g), g.id = h.id,
         applied \subseteq applied', applied' \subseteq applied \cup {h.id}
  PROVE  CallMoves(h, g) /\ g \in inflight'
<1>1. inflight' = (inflight \ {h}) \cup {g}
  BY DEF Become
<1>2. \A k \in inflight : k.id = h.id => k = h
  BY DEF IInv, CallsInv
<1>3. g \notin inflight \ {h}
  BY <1>2
<1>4. inflight' \ {g} = inflight \ {h}
  BY <1>1, <1>3
<1> QED BY <1>1, <1>2, <1>4 DEF CallMoves

LEMMA ReturnMoves ==
  ASSUME IInv, NEW h \in inflight, Return(h), applied' = applied
  PROVE  CallMoves(h, h) /\ h \notin inflight'
BY DEF Return, CallMoves, IInv, CallsInv

LEMMA StayMoves ==
  ASSUME IInv, NEW h \in inflight, UNCHANGED <<inflight, served>>,
         applied \subseteq applied', applied' \subseteq applied \cup {h.id}
  PROVE  CallMoves(h, h) /\ h \in inflight'
BY DEF CallMoves, IInv, CallsInv

\* A call that is gone has no share of any sum.
LEMMA GoneShares ==
  ASSUME NEW h, h \notin inflight'
  PROVE  /\ Share(h, Unrecorded') = 0
         /\ Share(h, Due("withdraw")') = 0 /\ Share(h, Due("deposit")') = 0
<1>1. h \notin Unrecorded' /\ h \notin Due("withdraw")' /\ h \notin Due("deposit")'
  BY DEF Unrecorded, Due
<1> QED BY <1>1 DEF Share

LEMMA SharesNat ==
  ASSUME TypeOK, NEW h \in inflight
  PROVE  /\ Share(h, Unrecorded) \in Nat
         /\ Share(h, Due("withdraw")) \in Nat /\ Share(h, Due("deposit")) \in Nat
<1>1. h.amount \in Nat
  BY HandlerFacts DEF TypeOK
<1> QED BY <1>1 DEF Share

\* Calls that go on and leave the money where it is.
LEMMA WalkBook ==
  ASSUME IInv, IInv', BookInv, NEW h \in inflight, NEW g, Become(h, g),
         g.id = h.id, g.op = h.op, g.amount = h.amount,
         UNCHANGED <<pool, borrowPositions, money, applied>>, failures' = failures \/ Fault,
         KeepsOrder(g),
         h.op = "repay" => (g.step \in {"call", "pool"} <=> h.step \in {"call", "pool"})
  PROVE  BookInv'
<1>0. /\ UNCHANGED <<pool, borrowPositions, custody, lent, repaid, applied>> /\ TypeOK
  BY DEF IInv, money
<1>1. CallMoves(h, g) /\ g \in inflight'
  BY <1>0, BecomeMoves
<1>2. /\ Share(g, Unrecorded') = Share(h, Unrecorded)
      /\ Share(g, Due("withdraw")') = Share(h, Due("withdraw"))
      /\ Share(g, Due("deposit")') = Share(h, Due("deposit"))
  <2>1. /\ g \in Unrecorded' <=> h \in Unrecorded
        /\ g \in Due("withdraw")' <=> h \in Due("withdraw")
        /\ g \in Due("deposit")' <=> h \in Due("deposit")
    BY <1>0, <1>1 DEF Unrecorded, Due
  <2> QED BY <2>1 DEF Share
<1>3. KeepsDebt(h, g)
  <2>1. lent + Share(h, Unrecorded) + pool.borrow + repaid \in Nat
    BY <1>0, SharesNat, NumbersNat
  <2> QED BY <1>0, <1>2, <2>1 DEF KeepsDebt, BookInv, DebtInv
<1>4. KeepsTokens(h, g)
  BY <1>0, <1>2 DEF KeepsTokens
<1> QED BY <1>1, <1>3, <1>4, BookMoves

\* Calls that return without moving the pool.
LEMMA LeaveBook ==
  ASSUME IInv, IInv', BookInv, NEW h \in inflight, Return(h),
         UNCHANGED <<pool, lent, applied>>, failures' = failures \/ Fault, repaid' >= repaid,
         \A p \in borrowPositions' : p.positionId \in applied,
         failures' = 0 =>
           custody' + Share(h, Due("withdraw")) = custody + Share(h, Due("deposit"))
  PROVE  BookInv'
<1>0. TypeOK /\ TypeOK'
  BY DEF IInv
<1>1. CallMoves(h, h) /\ h \notin inflight'
  BY ReturnMoves
<1>2. KeepsOrder(h)
  BY <1>1 DEF KeepsOrder
<1>3. KeepsDebt(h, h)
  <2>1. /\ Share(h, Unrecorded) \in Nat /\ pool.borrow \in Nat /\ lent \in Nat
        /\ repaid \in Nat /\ repaid' \in Nat
    BY <1>0, SharesNat, NumbersNat DEF TypeOK
  <2> QED BY <1>1, <2>1, GoneShares DEF KeepsDebt
<1>4. KeepsTokens(h, h)
  <2>1. /\ Share(h, Due("withdraw")) \in Nat /\ Share(h, Due("deposit")) \in Nat
        /\ pool.supply \in Nat /\ custody \in Int /\ custody' \in Int
    BY <1>0, SharesNat, NumbersNat DEF TypeOK
  <2>2. Share(h, Due("withdraw")') = 0 /\ Share(h, Due("deposit")') = 0
    BY <1>1, GoneShares
  <2> QED BY <2>1, <2>2 DEF KeepsTokens
<1> QED BY <1>1, <1>2, <1>3, <1>4, BookMoves

LEMMA ReceiveBook ==
  ASSUME IInv, IInv', BookInv, NEW r \in Requests, NEW a, NEW op, NEW s,
         Receive(r, op, a, s), s \in Steps(op),
         op # "load" => s \in {"find_supply", "find_debt", "call", "pool"},
         op = "repay" => s = "find_debt"
  PROVE  BookInv'
<1> DEFINE h == [id |-> r, op |-> op, amount |-> a, step |-> s, object |-> entry,
                 cid |-> IF s = "pool" THEN objects[entry].cid ELSE NoCid,
                 position |-> NoPosition, index |-> One, read |-> NoCid]
<1>1. /\ r \notin served /\ served' = served \cup {r} /\ inflight' = inflight \cup {h}
      /\ UNCHANGED <<pool, borrowPositions, custody, lent, repaid, failures, applied>>
  BY DEF Receive, ledger, money
<1>2. h.id = r /\ h.op = op /\ h.step = s
  OBVIOUS
<1> HIDE DEF h
<1>3. TypeOK /\ CallsInv
  BY DEF IInv
<1>4. (\A k \in inflight : k.id # r) /\ r \notin applied /\ h \notin inflight
  BY <1>1, <1>2, <1>3 DEF CallsInv
<1>5. CallMoves(h, h) /\ h \in inflight'
  BY <1>1, <1>2, <1>4 DEF CallMoves
<1>6. KeepsOrder(h)
  BY <1>1, <1>2, <1>4 DEF KeepsOrder
<1>7. Share(h, Unrecorded) = 0 /\ Share(h, Due("withdraw")) = 0 /\ Share(h, Due("deposit")) = 0
  BY <1>4 DEF Share, Unrecorded, Due
<1>8. /\ Share(h, Unrecorded') = 0
      /\ Share(h, Due("withdraw")') = 0 /\ Share(h, Due("deposit")') = 0
  <2>1. h \notin Unrecorded' /\ h \notin Due("withdraw")' /\ h \notin Due("deposit")'
    BY <1>1, <1>2, <1>4 DEF Unrecorded, Due
  <2> QED BY <2>1 DEF Share
<1>9. KeepsDebt(h, h) /\ KeepsTokens(h, h)
  <2>1. /\ pool.borrow \in Nat /\ pool.supply \in Nat /\ custody \in Int
        /\ lent \in Nat /\ repaid \in Nat
    BY <1>3, NumbersNat
  <2> QED BY <1>1, <1>7, <1>8, <2>1 DEF KeepsDebt, KeepsTokens, BookInv, DebtInv
<1> QED BY <1>1, <1>5, <1>6, <1>9, BookMoves

\* What the order of steps says of a call.
LEMMA CallFacts ==
  ASSUME IInv, BookInv, NEW h \in inflight
  PROVE  /\ h \in Handler /\ h.step \in Steps(h.op)
         /\ h.step \in {"find_supply", "find_debt", "position", "call"} => h.id \notin applied
         /\ failures = 0 /\ h.step = "pool" => h.id \notin applied
         /\ h.op # "load" /\ h.step \in {"query", "update", "create", "refresh", "install",
                                         "transfer"} => h.id \in applied
         /\ \A p \in borrowPositions : p.positionId \in applied
BY DEF IInv, TypeOK, OnceInv, BookInv, OrderInv, DebtInv

\* A call that is neither a deposit nor a withdrawal, or has not moved the pool,
\* has nothing due.
LEMMA NothingDue ==
  ASSUME NEW h, h.op \notin {"deposit", "withdraw"} \/ h.id \notin applied
  PROVE  Share(h, Due("withdraw")) = 0 /\ Share(h, Due("deposit")) = 0
<1>1. h \notin Due("withdraw") /\ h \notin Due("deposit")
  BY DEF Due
<1> QED BY <1>1 DEF Share

LEMMA QuietLeave ==
  ASSUME IInv, IInv', BookInv, NEW h \in inflight, Return(h),
         UNCHANGED <<pool, lent, applied>>, repaid' >= repaid,
         \A p \in borrowPositions' : p.positionId \in applied,
         \/ Fault
         \/ /\ UNCHANGED <<failures, custody>>
            /\ failures = 0 => h.op \notin {"deposit", "withdraw"} \/ h.id \notin applied
  PROVE  BookInv'
<1>1. failures \in Nat /\ custody \in Int
  BY DEF IInv, TypeOK
<1>2. CASE Fault
  <2>1. failures' # 0
    BY <1>1, <1>2 DEF Fault
  <2> QED BY <1>2, <2>1, LeaveBook
<1>3. CASE /\ UNCHANGED <<failures, custody>>
           /\ failures = 0 => h.op \notin {"deposit", "withdraw"} \/ h.id \notin applied
  <2>1. failures = 0 => Share(h, Due("withdraw")) = 0 /\ Share(h, Due("deposit")) = 0
    BY <1>3, NothingDue
  <2>2. failures' = 0 => custody' + Share(h, Due("withdraw")) = custody + Share(h, Due("deposit"))
    BY <1>1, <1>3, <2>1
  <2> QED BY <1>3, <2>2, LeaveBook
<1> QED BY <1>2, <1>3

\* Calls that end with the ledger as it was.
LEMMA EndBook ==
  ASSUME IInv, IInv', BookInv, NEW h \in inflight, Return(h),
         UNCHANGED <<ledger, money, applied>>,
         \/ Fault
         \/ /\ UNCHANGED failures
            /\ failures = 0 => h.op \notin {"deposit", "withdraw"} \/ h.id \notin applied
  PROVE  BookInv'
<1>1. repaid \in Nat /\ \A p \in borrowPositions : p.positionId \in applied
  BY CallFacts, NumbersNat DEF IInv
<1>2. UNCHANGED <<pool, borrowPositions, custody, lent, repaid, applied>>
  BY DEF ledger, money
<1> QED BY <1>1, <1>2, QuietLeave

LEMMA FindBook ==
  ASSUME IInv, IInv', BookInv, NEW h \in inflight, FindSupply(h) \/ FindDebt(h)
  PROVE  BookInv'
<1>0. /\ h \in Handler /\ h.step \in Steps(h.op) /\ h.step \in {"find_supply", "find_debt"}
      /\ h.id \notin applied
      /\ UNCHANGED <<ledger, money, objects, failures, applied, creates>>
  BY CallFacts DEF FindSupply, FindDebt
<1>1. ASSUME NEW g, Become(h, g), g.id = h.id, g.op = h.op, g.amount = h.amount,
             \/ g.step = "position"
             \/ g.step = "call" /\ h.step = "find_supply"
      PROVE  BookInv'
  <2>1. KeepsOrder(g)
    BY <1>0, <1>1 DEF KeepsOrder, Steps
  <2>2. h.op = "repay" => (g.step \in {"call", "pool"} <=> h.step \in {"call", "pool"})
    BY <1>0, <1>1 DEF Steps
  <2>3. UNCHANGED <<pool, borrowPositions, money, applied>> /\ failures' = failures
    BY <1>0 DEF ledger
  <2> QED BY <1>1, <2>1, <2>2, <2>3, WalkBook
<1>2. CASE Return(h)
  BY <1>0, <1>2, EndBook
<1>3. CASE FindSupply(h)
  <2>1. CASE GoTo(h, "call")
    <3>1. PICK g : g.id = h.id /\ g.op = h.op /\ g.amount = h.amount /\ g.step = "call"
                   /\ Become(h, g)
      BY <1>0, <2>1, StepChange
    <3> QED BY <1>1, <1>3, <3>1 DEF FindSupply
  <2>2. ASSUME NEW p, Become(h, [h EXCEPT !.step = "position", !.position = p.cid,
                                          !.index = objects[h.object].supplyIndex])
        PROVE  BookInv'
    <3> DEFINE g == [h EXCEPT !.step = "position", !.position = p.cid,
                              !.index = objects[h.object].supplyIndex]
    <3>1. g.id = h.id /\ g.op = h.op /\ g.amount = h.amount /\ g.step = "position" /\ Become(h, g)
      BY <1>0, <2>2 DEF Handler
    <3> HIDE DEF g
    <3> QED BY <1>1, <3>1
  <2> QED BY <1>3, <2>1, <2>2 DEF FindSupply
<1>4. CASE FindDebt(h)
  <2>1. ASSUME NEW p, Become(h, [h EXCEPT !.step = "position", !.position = p.cid, !.object = entry,
                                          !.index = objects[entry].borrowIndex])
        PROVE  BookInv'
    <3> DEFINE g == [h EXCEPT !.step = "position", !.position = p.cid, !.object = entry,
                              !.index = objects[entry].borrowIndex]
    <3>1. g.id = h.id /\ g.op = h.op /\ g.amount = h.amount /\ g.step = "position" /\ Become(h, g)
      BY <1>0, <2>1 DEF Handler
    <3> HIDE DEF g
    <3> QED BY <1>1, <3>1
  <2> QED BY <1>2, <1>4, <2>1 DEF FindDebt
<1> QED BY <1>3, <1>4

LEMMA CallPoolBook ==
  ASSUME IInv, IInv', BookInv, NEW h \in inflight, CallPool(h)
  PROVE  BookInv'
<1>0. /\ h \in Handler /\ h.step \in Steps(h.op) /\ h.step = "call" /\ h.id \notin applied
      /\ UNCHANGED <<pool, borrowPositions, money, failures, applied>>
  BY CallFacts DEF CallPool, ledger
<1> DEFINE g == [h EXCEPT !.step = "pool", !.cid = objects[h.object].cid]
<1>1. g.id = h.id /\ g.op = h.op /\ g.amount = h.amount /\ g.step = "pool" /\ Become(h, g)
  BY <1>0 DEF Handler, CallPool
<1> HIDE DEF g
<1>2. KeepsOrder(g)
  BY <1>0, <1>1 DEF KeepsOrder, Steps
<1> QED BY <1>0, <1>1, <1>2, WalkBook

\* Calls that wait for a query, or update an object.
LEMMA AfterChoiceBook ==
  ASSUME IInv, IInv', BookInv, NEW h \in inflight, NEW g, Become(h, g),
         g.id = h.id, g.op = h.op, g.amount = h.amount, g.step \in Steps(h.op),
         h.step \in {"query", "update", "refresh", "install"},
         g.step \in {"update", "create", "refresh", "install", "transfer"},
         UNCHANGED <<ledger, money, applied>>, failures' = failures \/ Fault
  PROVE  BookInv'
<1>1. KeepsOrder(g)
  BY CallFacts DEF KeepsOrder
<1>2. UNCHANGED <<pool, borrowPositions, money, applied>>
  BY DEF ledger
<1> QED BY <1>1, <1>2, WalkBook

LEMMA QueryBook ==
  ASSUME IInv, IInv', BookInv, NEW h \in inflight, QueryPool(h)
  PROVE  BookInv'
<1>0. /\ h \in Handler /\ h.step \in Steps(h.op) /\ h.step = "query"
      /\ UNCHANGED <<ledger, money, applied>> /\ (failures' = failures \/ Fault)
  BY CallFacts DEF QueryPool
<1>1. PICK c : Become(h, [h EXCEPT !.step = "update", !.cid = c])
  BY DEF QueryPool
<1> DEFINE g == [h EXCEPT !.step = "update", !.cid = c]
<1>2. g.id = h.id /\ g.op = h.op /\ g.amount = h.amount /\ g.step = "update" /\ Become(h, g)
  BY <1>0, <1>1 DEF Handler
<1> HIDE DEF g
<1>3. "update" \in Steps(h.op)
  BY <1>0 DEF Steps
<1> QED BY <1>0, <1>2, <1>3, AfterChoiceBook

LEMMA UpdateBook ==
  ASSUME IInv, IInv', BookInv, NEW h \in inflight, UpdateObject(h)
  PROVE  BookInv'
<1>0. /\ h \in Handler /\ h.step \in Steps(h.op) /\ h.step = "update"
      /\ UNCHANGED <<ledger, money, failures, applied>> /\ AfterUpdate(h)
  BY CallFacts DEF UpdateObject
<1>1. PICK g \in Handler :
        /\ g.id = h.id /\ g.op = h.op /\ g.amount = h.amount
        /\ g.step = IF h.op = "borrow" THEN "create" ELSE "refresh"
        /\ h.op # "repay" => Become(h, g)
        /\ h.op = "repay" => Return(h)
  BY <1>0, Updates
<1>2. CASE h.op = "repay"
  BY <1>0, <1>1, <1>2, EndBook
<1>3. CASE h.op # "repay"
  <2>1. g.step \in Steps(h.op)
    BY <1>0, <1>1, <1>3 DEF Steps, Handler
  <2> QED BY <1>0, <1>1, <1>3, <2>1, AfterChoiceBook
<1> QED BY <1>2, <1>3

LEMMA RefreshBook ==
  ASSUME IInv, IInv', BookInv, NEW h \in inflight, ReadPool(h) \/ InstallPool(h)
  PROVE  BookInv'
<1>0. /\ h \in Handler /\ h.step \in Steps(h.op) /\ h.step \in {"refresh", "install"}
      /\ UNCHANGED <<ledger, money, applied>> /\ (failures' = failures \/ Fault)
  BY CallFacts DEF ReadPool, InstallPool
<1>1. ASSUME Become(h, [h EXCEPT !.step = "install", !.read = pool.cid]) PROVE BookInv'
  <2> DEFINE g == [h EXCEPT !.step = "install", !.read = pool.cid]
  <2>1. g.id = h.id /\ g.op = h.op /\ g.amount = h.amount /\ g.step = "install" /\ Become(h, g)
    BY <1>0, <1>1 DEF Handler
  <2> HIDE DEF g
  <2>2. "install" \in Steps(h.op)
    BY <1>0 DEF Steps
  <2> QED BY <1>0, <2>1, <2>2, AfterChoiceBook
<1>2. ASSUME AfterRefresh(h), UNCHANGED failures \/ Fault PROVE BookInv'
  <2>1. CASE h.op = "load"
    <3>1. Return(h)
      BY <1>2, <2>1 DEF AfterRefresh
    <3> QED BY <1>0, <1>2, <2>1, <3>1, EndBook
  <2>2. CASE h.op # "load"
    <3>1. PICK g : g.id = h.id /\ g.op = h.op /\ g.amount = h.amount /\ g.step = "transfer"
                   /\ Become(h, g)
      BY <1>0, <1>2, <2>2, StepChange DEF AfterRefresh
    <3>2. "transfer" \in Steps(h.op)
      BY <1>0, <2>2 DEF Steps, Handler
    <3> QED BY <1>0, <3>1, <3>2, AfterChoiceBook
  <2> QED BY <2>1, <2>2
<1> QED BY <1>1, <1>2 DEF ReadPool, InstallPool

\* The transfer is what was due.
LEMMA TransferBook ==
  ASSUME IInv, IInv', BookInv, NEW h \in inflight, Transfer(h)
  PROVE  BookInv'
<1>0. /\ h \in Handler /\ h.step \in Steps(h.op) /\ h.step = "transfer" /\ Return(h)
      /\ UNCHANGED <<pool, borrowPositions, lent, repaid, applied>>
      /\ \A p \in borrowPositions : p.positionId \in applied
  BY CallFacts DEF Transfer, ledger
<1>1. custody \in Int /\ h.amount \in Nat /\ repaid \in Nat
  BY <1>0, HandlerFacts, NumbersNat DEF IInv
<1>2. h.op \in {"deposit", "withdraw"} /\ h.id \in applied
  BY <1>0, CallFacts DEF Steps, Handler
<1>3. CASE Fault
  BY <1>0, <1>1, <1>3, QuietLeave
<1>4. CASE UNCHANGED failures
           /\ custody' = IF h.op = "deposit" THEN custody + h.amount ELSE custody - h.amount
  <2>1. /\ Share(h, Due("deposit")) = IF h.op = "deposit" THEN h.amount ELSE 0
        /\ Share(h, Due("withdraw")) = IF h.op = "deposit" THEN 0 ELSE h.amount
    BY <1>2 DEF Share, Due
  <2>2. custody' + Share(h, Due("withdraw")) = custody + Share(h, Due("deposit"))
    BY <1>1, <1>4, <2>1
  <2> QED BY <1>0, <1>1, <1>4, <2>2, LeaveBook
<1> QED BY <1>3, <1>4 DEF Transfer

LEMMA FailBook ==
  ASSUME IInv, IInv', BookInv, NEW h \in inflight, PoolRejects(h) \/ HandlerFails(h)
  PROVE  BookInv'
<1>1. CASE PoolRejects(h)
  BY <1>1, CallFacts, EndBook DEF PoolRejects
<1>2. CASE HandlerFails(h)
  BY <1>2, EndBook DEF HandlerFails
<1> QED BY <1>1, <1>2

\* Whose positions the choices of positions leave.
LEMMA OwnersStay ==
  ASSUME IInv, BookInv, NEW h \in inflight, NEW p \in borrowPositions
  PROVE  /\ \A q \in Reduced(borrowPositions, p, h) : q.positionId \in applied
         /\ [p EXCEPT !.cid = <<h.id, 0>>].positionId \in applied
<1>1. p \in BorrowPosition /\ \A q \in borrowPositions : q.positionId \in applied
  BY CallFacts DEF IInv, TypeOK
<1>2. \A c, a, i : [p EXCEPT !.cid = c, !.amount = a, !.index = i].positionId = p.positionId
  BY <1>1 DEF BorrowPosition
<1>3. [p EXCEPT !.cid = <<h.id, 0>>].positionId = p.positionId
  BY <1>1 DEF BorrowPosition
<1>4. ASSUME NEW q \in Reduced(borrowPositions, p, h) PROVE q.positionId \in applied
  <2>1. \/ q \in borrowPositions
        \/ q = [p EXCEPT !.cid = <<h.id, 0>>, !.amount = Balance(p, h.index) - h.amount,
                         !.index = h.index]
    BY <1>4 DEF Reduced
  <2>2. CASE q \in borrowPositions
    BY <1>1, <2>2
  <2>3. CASE q = [p EXCEPT !.cid = <<h.id, 0>>, !.amount = Balance(p, h.index) - h.amount,
                           !.index = h.index]
    <3>1. q.positionId = p.positionId
      BY <1>2, <2>3
    <3> QED BY <1>1, <3>1
  <2> QED BY <2>1, <2>2, <2>3
<1> QED BY <1>1, <1>3, <1>4

LEMMA WithdrawPositionBook ==
  ASSUME IInv, IInv', BookInv, NEW h \in inflight, WithdrawPosition(h)
  PROVE  BookInv'
<1>0. /\ h \in Handler /\ h.op = "withdraw" /\ GoTo(h, "call") /\ h.id \notin applied
      /\ UNCHANGED <<pool, borrowPositions, money, applied>> /\ (failures' = failures \/ Fault)
  BY CallFacts DEF WithdrawPosition
<1>1. PICK g : g.id = h.id /\ g.op = h.op /\ g.amount = h.amount /\ g.step = "call"
               /\ Become(h, g)
  BY <1>0, StepChange
<1>2. KeepsOrder(g)
  BY <1>0, <1>1 DEF KeepsOrder, Steps
<1> QED BY <1>0, <1>1, <1>2, WalkBook

\* What leaves the position of a borrower is on its way to the pool's book.
LEMMA RepayPositionBook ==
  ASSUME IInv, IInv', BookInv, NEW h \in inflight, RepayPosition(h)
  PROVE  BookInv'
<1>0. /\ h \in Handler /\ h.step = "position" /\ h.op = "repay" /\ h.id \notin applied
      /\ UNCHANGED <<pool, custody, lent, applied>>
      /\ (failures' = failures \/ Fault) /\ TypeOK /\ TypeOK'
      /\ \A p \in borrowPositions : p.positionId \in applied
  BY CallFacts DEF RepayPosition, IInv
<1>1. /\ h.amount \in Nat /\ lent \in Nat /\ repaid \in Nat /\ pool.borrow \in Nat
      /\ pool.supply \in Nat /\ custody \in Int
  BY <1>0, HandlerFacts, NumbersNat
<1>2. CASE Return(h) /\ UNCHANGED <<borrowPositions, repaid, failures>>
  BY <1>0, <1>1, <1>2, QuietLeave
<1>3. ASSUME NEW p \in borrowPositions, borrowPositions' = Reduced(borrowPositions, p, h),
             repaid' = repaid + h.amount
      PROVE  BookInv'
  <2>1. \A q \in borrowPositions' : q.positionId \in applied
    BY <1>3, OwnersStay
  <2>2. CASE Return(h)
    <3>1. repaid' >= repaid
      BY <1>1, <1>3
    <3>2. Share(h, Due("withdraw")) = 0 /\ Share(h, Due("deposit")) = 0
      BY <1>0, NothingDue
    <3> QED BY <1>0, <1>1, <2>1, <2>2, <3>1, <3>2, LeaveBook
  <2>3. CASE GoTo(h, "call")
    <3>1. PICK g : g.id = h.id /\ g.op = h.op /\ g.amount = h.amount /\ g.step = "call"
                   /\ Become(h, g)
      BY <1>0, <2>3, StepChange
    <3>2. CallMoves(h, g) /\ g \in inflight'
      BY <1>0, <3>1, BecomeMoves
    <3>3. KeepsOrder(g)
      BY <1>0, <3>1 DEF KeepsOrder, Steps
    <3>4. Share(h, Unrecorded) = 0 /\ Share(g, Unrecorded') = h.amount
      <4>1. h \notin Unrecorded /\ g \in Unrecorded'
        BY <1>0, <3>1, <3>2 DEF Unrecorded
      <4> QED BY <3>1, <4>1 DEF Share
    <3>5. KeepsDebt(h, g)
      BY <1>0, <1>1, <1>3, <2>1, <3>4 DEF KeepsDebt
    <3>6. KeepsTokens(h, g)
      <4>1. /\ h \notin Due("withdraw") /\ h \notin Due("deposit")
            /\ g \notin Due("withdraw")' /\ g \notin Due("deposit")'
        BY <1>0, <3>1 DEF Due
      <4> QED BY <1>0, <1>1, <4>1 DEF KeepsTokens, Share
    <3> QED BY <1>0, <3>2, <3>3, <3>5, <3>6, BookMoves
  <2> QED BY <2>2, <2>3 DEF RepayPosition
<1> QED BY <1>2, <1>3 DEF RepayPosition

LEMMA CollateralizeBook ==
  ASSUME IInv, IInv', BookInv, NEW h \in inflight, CollateralizePosition(h)
  PROVE  BookInv'
<1>0. /\ h.op = "collateral" /\ Return(h)
      /\ UNCHANGED <<pool, custody, lent, repaid, failures, applied>> /\ repaid \in Nat
      /\ \A p \in borrowPositions : p.positionId \in applied
  BY CallFacts, NumbersNat DEF CollateralizePosition, money, IInv
<1>1. \A p \in borrowPositions' : p.positionId \in applied
  BY <1>0, OwnersStay DEF CollateralizePosition
<1>2. repaid' >= repaid
  BY <1>0
<1> QED BY <1>0, <1>1, <1>2, QuietLeave

\* What a choice of the pool does, by the call that exercises it.
LEMMA ChoiceEffect ==
  ASSUME TypeOK, NEW h \in inflight, Choice(h)
  PROVE  /\ h.op \in {"deposit", "withdraw", "borrow", "repay"} /\ h.amount \in Nat
         /\ pool'.supply = CASE h.op = "deposit" -> pool.supply + h.amount
                             [] h.op = "withdraw" -> pool.supply - h.amount
                             [] OTHER -> pool.supply
         /\ pool'.borrow = CASE h.op = "borrow" -> pool.borrow + h.amount
                             [] h.op = "repay" ->
                                  IF h.amount < pool.borrow THEN pool.borrow - h.amount ELSE 0
                             [] OTHER -> pool.borrow
         /\ lent' = IF h.op = "borrow" THEN lent + h.amount ELSE lent
         /\ applied' = applied \cup {h.id}
<1>1. /\ h.amount \in Nat /\ pool.cid \in Nat /\ pool.supply \in Nat /\ pool.borrow \in Nat
      /\ lent \in Nat
      /\ pool = [cid |-> pool.cid, supply |-> pool.supply, borrow |-> pool.borrow]
  BY HandlerFacts DEF TypeOK
<1>2. /\ lent' = IF h.op = "borrow" THEN lent + h.amount ELSE lent
      /\ applied' = applied \cup {h.id}
  BY <1>1 DEF Choice
<1>3. CASE h.op = "deposit" /\ PoolDeposit(h)
  BY <1>1, <1>2, <1>3 DEF PoolDeposit
<1>4. CASE h.op = "withdraw" /\ ProcessWithdraw(h)
  BY <1>1, <1>2, <1>4 DEF ProcessWithdraw
<1>5. CASE h.op = "borrow" /\ RecordBorrow(h)
  BY <1>1, <1>2, <1>5 DEF RecordBorrow
<1>6. CASE h.op = "repay" /\ RecordRepay(h)
  <2>1. pool'.borrow = pool.borrow - (IF h.amount < pool.borrow THEN h.amount ELSE pool.borrow)
    BY <1>1, <1>6 DEF RecordRepay
  <2>2. pool'.borrow = IF h.amount < pool.borrow THEN pool.borrow - h.amount ELSE 0
    BY <1>1, <2>1
  <2>3. pool'.supply = pool.supply
    BY <1>1, <1>6 DEF RecordRepay
  <2> QED BY <1>1, <1>2, <1>6, <2>2, <2>3
<1> QED BY <1>3, <1>4, <1>5, <1>6 DEF Choice

LEMMA ExerciseBook ==
  ASSUME IInv, IInv', BookInv, NEW h \in inflight, ExercisePool(h)
  PROVE  BookInv'
<1>1. /\ h.step = "pool" /\ h.cid = pool.cid /\ Choice(h)
      /\ UNCHANGED <<borrowPositions, custody, repaid>> /\ (failures' = failures \/ Fault)
  BY DEF ExercisePool
<1>2. TypeOK /\ h \in Handler /\ \A p \in borrowPositions : p.positionId \in applied
  BY CallFacts DEF IInv
<1>3. h.id \notin applied
  BY <1>1 DEF IInv, OnceInv, TypeOK
<1>4. /\ h.op \in {"deposit", "withdraw", "borrow", "repay"} /\ h.amount \in Nat
      /\ pool'.supply = CASE h.op = "deposit" -> pool.supply + h.amount
                          [] h.op = "withdraw" -> pool.supply - h.amount
                          [] OTHER -> pool.supply
      /\ pool'.borrow = CASE h.op = "borrow" -> pool.borrow + h.amount
                          [] h.op = "repay" ->
                               IF h.amount < pool.borrow THEN pool.borrow - h.amount ELSE 0
                          [] OTHER -> pool.borrow
      /\ lent' = IF h.op = "borrow" THEN lent + h.amount ELSE lent
      /\ applied' = applied \cup {h.id}
  BY <1>1, <1>2, ChoiceEffect
<1>5. /\ pool.borrow \in Nat /\ pool.supply \in Nat /\ custody \in Int
      /\ lent \in Nat /\ repaid \in Nat
  BY <1>2, NumbersNat
<1>6. /\ Share(h, Unrecorded) = IF h.op = "repay" THEN h.amount ELSE 0
      /\ Share(h, Due("withdraw")) = 0 /\ Share(h, Due("deposit")) = 0
  <2>1. h \in Unrecorded <=> h.op = "repay"
    BY <1>1, <1>3 DEF Unrecorded
  <2> QED BY <1>3, <2>1, NothingDue DEF Share
<1>7. ASSUME NEW g, CallMoves(h, g), g \in inflight', g.id = h.id, g.op = h.op,
             g.amount = h.amount, g.step = "query" \/ (g.step = "pool" /\ Fault)
      PROVE  BookInv'
  <2>1. failures' = 0 => failures = 0 /\ ~Fault
    BY <1>1, <1>2 DEF Fault, TypeOK
  <2>2. KeepsOrder(g)
    BY <1>1, <1>4, <1>7, <2>1 DEF KeepsOrder, Steps
  <2>3. Share(g, Unrecorded') = 0
    <3>1. g \notin Unrecorded'
      BY <1>4, <1>7 DEF Unrecorded
    <3> QED BY <3>1 DEF Share
  <2>4. /\ Share(g, Due("withdraw")') = IF h.op = "withdraw" THEN h.amount ELSE 0
        /\ Share(g, Due("deposit")') = IF h.op = "deposit" THEN h.amount ELSE 0
    <3>1. /\ g \in Due("withdraw")' <=> h.op = "withdraw"
          /\ g \in Due("deposit")' <=> h.op = "deposit"
      BY <1>4, <1>7 DEF Due
    <3> QED BY <1>7, <3>1 DEF Share
  <2>5. KeepsDebt(h, g)
    BY <1>1, <1>2, <1>4, <1>5, <1>6, <2>3 DEF KeepsDebt
  <2>6. KeepsTokens(h, g)
    BY <1>1, <1>4, <1>5, <1>6, <2>4 DEF KeepsTokens
  <2> QED BY <1>1, <1>7, <2>2, <2>5, <2>6, BookMoves
<1>8. ASSUME NEW c, Become(h, [h EXCEPT !.step = "query", !.cid = c]) PROVE BookInv'
  <2>1. PICK g : g = [h EXCEPT !.step = "query", !.cid = c]
    OBVIOUS
  <2>2. g.id = h.id /\ g.op = h.op /\ g.amount = h.amount /\ g.step = "query"
    BY <1>2, <2>1 DEF Handler
  <2>3. CallMoves(h, g) /\ g \in inflight'
    BY <1>4, <1>8, <2>1, <2>2, BecomeMoves
  <2> QED BY <1>7, <2>2, <2>3
<1>9. CASE UNCHANGED <<inflight, served>> /\ Fault
  <2>1. CallMoves(h, h) /\ h \in inflight'
    BY <1>4, <1>9, StayMoves
  <2> QED BY <1>1, <1>7, <1>9, <2>1
<1> QED BY <1>8, <1>9 DEF ExercisePool

\* Every contract created for a call is of a borrow in the book.
LEMMA CreateBook ==
  ASSUME IInv, IInv', BookInv, NEW h \in inflight, CreatePosition(h)
  PROVE  BookInv'
<1>1. /\ h.step = "create" /\ UNCHANGED <<pool, custody, lent, repaid, applied>>
      /\ (failures' = failures \/ Fault)
  BY DEF CreatePosition, money
<1>2. TypeOK /\ h \in Handler /\ h.step \in Steps(h.op)
  BY CallFacts DEF IInv
<1>3. h.op = "borrow" /\ h.id \in applied
  BY <1>1, <1>2, CallFacts DEF Steps, Handler
<1>4. \A p \in borrowPositions' : p.positionId \in applied
  BY <1>3, CallFacts DEF CreatePosition
<1>5. /\ pool.borrow \in Nat /\ pool.supply \in Nat /\ custody \in Int
      /\ lent \in Nat /\ repaid \in Nat
  BY <1>2, NumbersNat
<1>6. CASE Return(h) /\ UNCHANGED failures
  BY <1>1, <1>3, <1>4, <1>5, <1>6, QuietLeave
<1>7. CASE UNCHANGED <<inflight, served>> /\ Fault
  <2>1. CallMoves(h, h)
    BY <1>1, <1>7, StayMoves
  <2>2. KeepsOrder(h)
    BY <1>1, <1>2, <1>3 DEF KeepsOrder
  <2>3. /\ Share(h, Unrecorded) = 0 /\ Share(h, Unrecorded') = 0
        /\ Share(h, Due("withdraw")) = 0 /\ Share(h, Due("deposit")) = 0
        /\ Share(h, Due("withdraw")') = 0 /\ Share(h, Due("deposit")') = 0
    <3>1. /\ h \notin Unrecorded /\ h \notin Unrecorded'
          /\ h \notin Due("withdraw") /\ h \notin Due("deposit")
          /\ h \notin Due("withdraw")' /\ h \notin Due("deposit")'
      BY <1>1, <1>3 DEF Unrecorded, Due
    <3> QED BY <3>1 DEF Share
  <2>4. KeepsDebt(h, h) /\ KeepsTokens(h, h)
    BY <1>1, <1>4, <1>5, <2>3 DEF KeepsDebt, KeepsTokens
  <2> QED BY <1>1, <2>1, <2>2, <2>4, BookMoves
<1> QED BY <1>6, <1>7 DEF CreatePosition

\* Without calls under way, or with the same ones, nothing is due that was not.
LEMMA StillBook ==
  ASSUME IInv, BookInv, inflight' = {} \/ inflight' = inflight,
         UNCHANGED <<pool, borrowPositions, custody, lent, repaid, applied>>,
         failures' # 0 \/ (failures' = failures /\ inflight' = inflight)
  PROVE  BookInv'
<1>1. CASE inflight' = {} /\ failures' # 0
  <2>1. IsFiniteSet(inflight') /\ OrderInv' /\ TokensFollowTheBook'
    BY <1>1, FS_EmptySet DEF OrderInv, TokensFollowTheBook
  <2>2. Amount(Unrecorded') = 0
    <3>1. Unrecorded' = {}
      BY <1>1 DEF Unrecorded
    <3> QED BY <3>1, AmountEmpty
  <2>3. /\ Amount(Unrecorded) \in Nat /\ lent \in Nat /\ repaid \in Nat /\ pool.borrow \in Nat
    BY UnrecordedNat, NumbersNat DEF IInv, BookInv
  <2>4. DebtInv'
    BY <2>2, <2>3 DEF BookInv, DebtInv
  <2> QED BY <2>1, <2>4 DEF BookInv
<1>2. CASE inflight' = inflight
  <2>1. /\ Unrecorded' = Unrecorded
        /\ Due("withdraw")' = Due("withdraw") /\ Due("deposit")' = Due("deposit")
    BY <1>2 DEF Unrecorded, Due
  <2>2. DebtInv' /\ TokensFollowTheBook'
    BY <1>2, <2>1 DEF BookInv, DebtInv, TokensFollowTheBook
  <2>3. OrderInv'
    BY <1>2 DEF BookInv, OrderInv
  <2> QED BY <1>2, <2>2, <2>3 DEF BookInv
<1> QED BY <1>1, <1>2

LEMMA InitBook == Init => BookInv
<1> SUFFICES ASSUME Init PROVE BookInv
  OBVIOUS
<1>1. /\ inflight = {} /\ borrowPositions = {} /\ failures = 0 /\ lent = 0 /\ repaid = 0
      /\ pool.borrow = 0 /\ pool.supply = InitialSupply /\ custody = InitialSupply
  BY DEF Init
<1>2. Unrecorded = {} /\ Due("withdraw") = {} /\ Due("deposit") = {}
  BY <1>1 DEF Unrecorded, Due
<1>3. DebtInv /\ TokensFollowTheBook
  BY <1>1, <1>2, AmountEmpty DEF DebtInv, TokensFollowTheBook
<1> QED BY <1>1, <1>3, FS_EmptySet DEF BookInv, OrderInv

LEMMA NextBook == IInv /\ BookInv /\ [Next]_vars => BookInv'
<1> SUFFICES ASSUME IInv, BookInv, [Next]_vars PROVE BookInv'
  OBVIOUS
<1>0. IInv'
  BY NextInv
<1>1. CASE Deposit
  BY <1>0, <1>1, ReceiveBook DEF Deposit, Steps
<1>2. CASE Withdraw
  BY <1>0, <1>2, ReceiveBook DEF Withdraw, Steps
<1>3. CASE RequestBorrow
  BY <1>0, <1>3, ReceiveBook DEF RequestBorrow, Steps
<1>4. CASE Repay
  BY <1>0, <1>4, ReceiveBook DEF Repay, Steps
<1>5. CASE AddCollateral
  BY <1>0, <1>5, ReceiveBook DEF AddCollateral, Steps
<1>6. CASE LoadFromCanton
  BY <1>0, <1>6, ReceiveBook DEF LoadFromCanton, Steps
<1>7. ASSUME NEW h \in inflight, Handle(h) \/ HandlerFails(h) PROVE BookInv'
  BY <1>0, <1>7, FindBook, WithdrawPositionBook, RepayPositionBook, CollateralizeBook,
     CallPoolBook, ExerciseBook, FailBook, QueryBook, UpdateBook, RefreshBook, TransferBook,
     CreateBook DEF Handle
<1>8. CASE Restart
  <2>1. failures' # 0 /\ inflight' = {}
    BY <1>8 DEF Restart, Fault, IInv, TypeOK
  <2> QED BY <1>8, <2>1, StillBook DEF Restart, ledger, money
<1>9. CASE Accrue
  BY <1>9, StillBook DEF Accrue, ledger, money
<1>10. CASE UNCHANGED vars
  BY <1>10, StillBook DEF vars, ledger, money, api
<1> QED BY <1>1, <1>2, <1>3, <1>4, <1>5, <1>6, <1>7, <1>8, <1>9, <1>10 DEF Next

LEMMA BooksHold == Spec => [](IInv /\ BookInv)
<1>1. IInv /\ BookInv /\ [Next]_vars => (IInv /\ BookInv)'
  BY NextInv, NextBook
<1> QED BY <1>1, InitInv, InitBook, PTL DEF Spec

\* However calls overlap, fail, are sent again and die half way, the pool's book
\* gives up no more debt than borrowers repaid on their positions, and every
\* position is of a borrow that is in the book.
THEOREM NothingForgiven == Spec => []NothingIsForgiven
<1>1. IInv /\ BookInv => NothingIsForgiven
  <2> SUFFICES ASSUME IInv, BookInv PROVE NothingIsForgiven
    OBVIOUS
  <2>1. Amount(Unrecorded) \in Nat /\ lent \in Nat /\ repaid \in Nat /\ pool.borrow \in Nat
    BY UnrecordedNat, NumbersNat DEF IInv, BookInv
  <2> QED BY <2>1 DEF BookInv, DebtInv, NothingIsForgiven
<1> QED BY <1>1, BooksHold, PTL

\* Without failures, the operator's tokens and the pool's supply differ by the
\* calls whose transfer is still to come, however many calls overlap.
THEOREM CustodyFollows == Spec => []TokensFollowTheBook
<1>1. IInv /\ BookInv => TokensFollowTheBook
  BY DEF BookInv
<1> QED BY <1>1, BooksHold, PTL
=============================================================================
