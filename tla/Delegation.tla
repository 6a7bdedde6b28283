----------------------------- MODULE Delegation -----------------------------
(***************************************************************************)
(* Delegation of votes in the API.  delegate and undelegate change one row *)
(* of governance_delegations and then recalculate the voting power columns *)
(* of both users, each time with two sums read one after the other and one *)
(* UPDATE.  Nothing is a transaction, so calls interleave in between.      *)
(*                                                                         *)
(* Balances do not change here: no code of the API writes them.  A user    *)
(* without a row in dual_token_balances is outside `Holders`.  The columns *)
(* totalDelegatedOut and totalDelegatedIn are kept as the sets of rows     *)
(* they sum; effectiveVotingPower follows from them.                       *)
(***************************************************************************)
EXTENDS Integers, FiniteSetsExt

CONSTANTS Users,
          Holders,     \* users with a row in dual_token_balances
          Balance,     \* its balance column
          Requests,    \* the calls of a run; also the ids of the rows they insert
          MaxFailures  \* bound: statements that fail, processes that die

ASSUME DelegationAssumption ==
  /\ Holders \subseteq Users
  /\ IsFiniteSet(Holders)
  /\ Balance \in [Holders -> Nat]
  /\ MaxFailures \in Nat

VARIABLES
  delegations,  \* governance_delegations
  power,        \* power[u]: the rows summed in the columns of u
  inflight,     \* handlers awaiting a statement
  served,       \* calls already received
  failures,
  tangled,      \* history: users two calls worked on at once
  interrupted   \* history: users a failed call left without a recalculation

http == <<inflight, served>>
history == <<tangled, interrupted>>
vars == <<delegations, power, http, failures, history>>

Active == {d \in delegations : d.active}
From(u) == {d \in Active : d.from = u}
To(u) == {d \in Active : d.to = u}
Ids(rows) == {d.id : d \in rows}

Amounts(ids) ==
  LET rows == {d \in delegations : d.id \in ids}
  IN  SumFunctionOnSet([d \in rows |-> Balance[d.from]], rows)
Effective(u) ==
  LET sum == Balance[u] - Amounts(power[u].out) + Amounts(power[u].in)
  IN  IF sum < 0 THEN 0 ELSE sum

Init ==
  /\ delegations = {}
  /\ power = [u \in Holders |-> [out |-> {}, in |-> {}]]
  /\ inflight = {}
  /\ served = {}
  /\ failures = 0
  /\ tangled = {}
  /\ interrupted = {}

-----------------------------------------------------------------------------
WorksOn(h) == {h.from, h.to}

\* The users h has yet to recalculate because it changed a row of theirs.
Pending(h) == IF h.step \in {"sum_out", "sum_in", "store"} THEN h.todo ELSE {}

Accept(h) ==
  /\ h.id \notin served
  /\ served' = served \cup {h.id}
  /\ inflight' = inflight \cup {h}
  /\ tangled' = tangled \cup (WorksOn(h) \cap UNION {WorksOn(g) : g \in inflight})

Continue(h, next) ==
  /\ inflight' = (inflight \ {h}) \cup {next}
  /\ UNCHANGED <<served, tangled>>

Return(h) ==
  /\ inflight' = inflight \ {h}
  /\ UNCHANGED <<served, tangled>>

\* Mutant of Recalculate: a user without a balance row is recalculated, too.
RecalculateUnknown(h, todo) ==
  IF todo = {} THEN Return(h)
  ELSE Continue(h, [id |-> h.id, from |-> h.from, to |-> h.to,
                    step |-> "sum_out", todo |-> todo])

\* recalculateVotingPower of the users of `todo`, the delegator first; without
\* a balance row it returns at once.
Recalculate(h, todo) ==
  IF todo \cap Holders = {} THEN Return(h)
  ELSE Continue(h, [id |-> h.id, from |-> h.from, to |-> h.to,
                    step |-> "sum_out", todo |-> todo \cap Holders])

Current(h) == IF h.from \in h.todo THEN h.from ELSE h.to

\* Mutant of Delegate: the delegator's own delegation is not looked for.
DelegateAgain(r, u, v) ==
  /\ u # v
  /\ u \in Holders
  /\ Balance[u] > 0
  /\ Accept([id |-> r, from |-> u, to |-> v, step |-> "check_chain"])
  /\ UNCHANGED <<delegations, power, failures, interrupted>>

\* delegate up to the balance check; balances do not change.
Delegate(r, u, v) ==
  /\ u # v
  /\ From(u) = {}
  /\ u \in Holders
  /\ Balance[u] > 0
  /\ Accept([id |-> r, from |-> u, to |-> v, step |-> "check_chain"])
  /\ UNCHANGED <<delegations, power, failures, interrupted>>

CheckChain(h) ==
  /\ h.step = "check_chain"
  /\ IF From(h.to) = {} THEN Continue(h, [h EXCEPT !.step = "insert"])
                        ELSE Return(h)
  /\ UNCHANGED <<delegations, power, failures, interrupted>>

InsertDelegation(h) ==
  /\ h.step = "insert"
  /\ delegations' = delegations \cup
       {[id |-> h.id, from |-> h.from, to |-> h.to, active |-> TRUE]}
  /\ Recalculate(h, {h.from, h.to})
  /\ UNCHANGED <<power, failures, interrupted>>

\* undelegate: any active row may come first under LIMIT 1.
Undelegate(r, d) ==
  /\ d \in Active
  /\ Accept([id |-> r, from |-> d.from, to |-> d.to, step |-> "revoke", row |-> d.id])
  /\ UNCHANGED <<delegations, power, failures, interrupted>>

\* Mutant of Revoke: only the delegator is recalculated.
RevokeOneSided(h) ==
  /\ h.step = "revoke"
  /\ delegations' = {IF d.id = h.row THEN [d EXCEPT !.active = FALSE] ELSE d :
                       d \in delegations}
  /\ Recalculate(h, {h.from})
  /\ UNCHANGED <<power, failures, interrupted>>

\* The UPDATE by id alone.
Revoke(h) ==
  /\ h.step = "revoke"
  /\ delegations' = {IF d.id = h.row THEN [d EXCEPT !.active = FALSE] ELSE d :
                       d \in delegations}
  /\ Recalculate(h, {h.from, h.to})
  /\ UNCHANGED <<power, failures, interrupted>>

SumOut(h) ==
  /\ h.step = "sum_out"
  /\ Continue(h, [id |-> h.id, from |-> h.from, to |-> h.to, step |-> "sum_in",
                  todo |-> h.todo, out |-> Ids(From(Current(h)))])
  /\ UNCHANGED <<delegations, power, failures, interrupted>>

\* Mutant of SumIn: revoked delegations are summed, too.
SumInRevoked(h) ==
  /\ h.step = "sum_in"
  /\ Continue(h, [id |-> h.id, from |-> h.from, to |-> h.to, step |-> "store",
                  todo |-> h.todo, out |-> h.out,
                  in |-> Ids({d \in delegations : d.to = Current(h)})])
  /\ UNCHANGED <<delegations, power, failures, interrupted>>

SumIn(h) ==
  /\ h.step = "sum_in"
  /\ Continue(h, [id |-> h.id, from |-> h.from, to |-> h.to, step |-> "store",
                  todo |-> h.todo, out |-> h.out, in |-> Ids(To(Current(h)))])
  /\ UNCHANGED <<delegations, power, failures, interrupted>>

\* The UPDATE of the three columns; then the other user, if there is one left.
StorePower(h) ==
  /\ h.step = "store"
  /\ power' = [power EXCEPT ![Current(h)] = [out |-> h.out, in |-> h.in]]
  /\ interrupted' = interrupted \ {Current(h)}
  /\ Recalculate(h, h.todo \ {Current(h)})
  /\ UNCHANGED <<delegations, failures>>

\* A statement is rejected, or the process dies: nothing more is recalculated.
HandlerFails(h) ==
  /\ failures < MaxFailures
  /\ failures' = failures + 1
  /\ interrupted' = interrupted \cup Pending(h)
  /\ Return(h)
  /\ UNCHANGED <<delegations, power>>

Receive ==
  \E r \in Requests :
    \/ \E u, v \in Users : Delegate(r, u, v)
    \/ \E d \in delegations : Undelegate(r, d)

Handle(h) ==
  \/ CheckChain(h) \/ InsertDelegation(h) \/ Revoke(h)
  \/ SumOut(h) \/ SumIn(h) \/ StorePower(h)

Next == Receive \/ \E h \in inflight : Handle(h) \/ HandlerFails(h)

Spec == Init /\ [][Next]_vars

-----------------------------------------------------------------------------
(* Properties *)

Row == [id : Requests, from : Users, to : Users, active : BOOLEAN]
Handler ==
  [id : Requests, from : Users, to : Users, step : {"check_chain", "insert"}]
    \cup [id : Requests, from : Users, to : Users, step : {"revoke"}, row : Requests]
    \cup [id : Requests, from : Users, to : Users, step : {"sum_out"},
          todo : SUBSET Holders]
    \cup [id : Requests, from : Users, to : Users, step : {"sum_in"},
          todo : SUBSET Holders, out : SUBSET Requests]
    \cup [id : Requests, from : Users, to : Users, step : {"store"},
          todo : SUBSET Holders, out : SUBSET Requests, in : SUBSET Requests]

\* Every variable holds values of the tables' columns or of the handlers' locals.
TypeOK ==
  /\ delegations \in SUBSET Row
  /\ power \in [Holders -> [out : SUBSET Requests, in : SUBSET Requests]]
  /\ inflight \in SUBSET Handler
  /\ served \in SUBSET Requests
  /\ failures \in Nat
  /\ tangled \in SUBSET Users
  /\ interrupted \in SUBSET Users

Awaited == UNION {Pending(h) : h \in inflight}

\* The stored voting power of a user agrees with the delegations in force as
\* soon as no recalculation is outstanding: a failed call leaves it wrong only
\* until the next recalculation, and only calls that work on one user at the
\* same time can leave it wrong for good.
PowerIsRight ==
  \A u \in Holders \ (tangled \cup interrupted \cup Awaited) :
    power[u] = [out |-> Ids(From(u)), in |-> Ids(To(u))]

\* The check before the insert keeps a user to one delegation, whatever other
\* users do meanwhile and however often calls fail.
OneActiveDelegation ==
  \A u \in Users \ tangled : \A d, e \in From(u) : d = e

\* Between calls, delegation moves votes and makes none: the voting power of
\* all is not more than the balances of all, and no less if every delegatee
\* has a balance row of its own.
Quiet == inflight = {} /\ tangled = {} /\ interrupted = {}
Votes == SumFunctionOnSet([u \in Holders |-> Effective(u)], Holders)
Supply == SumFunctionOnSet(Balance, Holders)
VotesAreConserved ==
  Quiet => /\ Votes <= Supply
           /\ (\A d \in Active : d.to \in Holders) => Votes = Supply

(* The invariant the proofs go by induction on. *)

\* Rows and handlers keep the id of their call; a row keeps its two users.
IdInv ==
  /\ \A g, h \in inflight : g.id = h.id => g = h
  /\ \A h \in inflight : h.id \in served
  /\ \A d \in delegations : d.id \in served
  /\ \A d, e \in delegations : d.id = e.id => d = e
  /\ \A h \in inflight :
       /\ h.step \in {"check_chain", "insert"} => h.id \notin Ids(delegations)
       /\ h.step = "revoke" =>
            \E d \in delegations : d.id = h.row /\ d.from = h.from /\ d.to = h.to

\* Two handlers share only tangled users.
TangledInv ==
  \A g, h \in inflight : g # h => WorksOn(g) \cap WorksOn(h) \subseteq tangled

\* What a delegation call found before it inserts is still so.
CheckedInv ==
  \A h \in inflight :
    h.step \in {"check_chain", "insert"} /\ h.from \notin tangled => From(h.from) = {}

\* Sums already read are still those of the table.
ReadInv ==
  \A h \in inflight :
    /\ Pending(h) \subseteq WorksOn(h)
    /\ h.step \in {"sum_out", "sum_in", "store"} => h.todo # {}
    /\ h.step \in {"sum_in", "store"} /\ Current(h) \notin tangled
         => h.out = Ids(From(Current(h)))
    /\ h.step = "store" /\ Current(h) \notin tangled => h.in = Ids(To(Current(h)))

IInv == /\ TypeOK /\ IdInv /\ TangledInv /\ CheckedInv /\ ReadInv
        /\ PowerIsRight /\ OneActiveDelegation

\* Only users with a balance delegate, so every row has a weight.
WeightInv ==
  /\ IsFiniteSet(delegations)
  /\ \A d \in delegations : d.from \in Holders
  /\ \A h \in inflight : h.step \in {"check_chain", "insert"} => h.from \in Holders
=============================================================================
