-------------------------- MODULE DelegationProofs --------------------------
(* However many users and calls there are and whichever of them fail, a user
   no two calls worked on at once has one active delegation at most and, once
   the recalculations are done, the voting power the table of delegations says.

   The argument: a row only changes by a handler that works on both its users,
   so for an untangled user nothing changes between the check and the insert of
   a handler, nor between the sums it reads and their UPDATE.  When no call is
   under way, the powers of all users sum to their balances: every delegation is
   subtracted from one user and added to another (the sums of Sums). *)
EXTENDS Delegation, Sums

USE DelegationAssumption

Recalculating == {"sum_out", "sum_in", "store"}

\* The user recalculated next is one of those to do.
LEMMA CurrentToDo ==
  ASSUME NEW h \in Handler, h.step \in Recalculating, h.todo # {},
         Pending(h) \subseteq WorksOn(h)
  PROVE  Current(h) \in h.todo /\ Current(h) \in Holders /\ Current(h) \in WorksOn(h)
BY DEF Handler, Recalculating, Pending, WorksOn, Current

\* No call is in flight and nothing is stored at first.
LEMMA Initially == Init => IInv
<1> SUFFICES ASSUME Init PROVE IInv
  OBVIOUS
<1> USE DEF Init
<1>1. TypeOK
  BY DEF TypeOK
<1>2. PowerIsRight
  BY DEF PowerIsRight, Ids, From, To, Active
<1> QED
  BY <1>1, <1>2 DEF IInv, IdInv, TangledInv, CheckedInv, ReadInv, OneActiveDelegation,
                    Ids, From, Active

\* A new handler tangles the users it shares; the tables stay.
LEMMA Accepted ==
  ASSUME IInv, NEW h \in Handler, Accept(h),
         UNCHANGED <<delegations, power, failures, interrupted>>,
         \/ h.step = "check_chain" /\ From(h.from) = {}
         \/ h.step = "revoke" /\ \E d \in delegations :
              d.id = h.row /\ d.from = h.from /\ d.to = h.to
  PROVE  IInv'
<1> USE DEF IInv
<1>1. /\ inflight' = inflight \cup {h}
      /\ h.id \notin served /\ served' = served \cup {h.id}
      /\ tangled \subseteq tangled'
      /\ tangled' \subseteq tangled \cup WorksOn(h)
      /\ \A g \in inflight : WorksOn(g) \cap WorksOn(h) \subseteq tangled'
  BY DEF Accept
<1>2. Pending(h) = {} /\ h.id \in Requests /\ WorksOn(h) \subseteq Users
  BY DEF Pending, Handler, WorksOn
<1>3. /\ \A u : From(u)' = From(u) /\ To(u)' = To(u)
      /\ Ids(delegations)' = Ids(delegations)
      /\ \A g : Pending(g)' = Pending(g) /\ WorksOn(g)' = WorksOn(g) /\ Current(g)' = Current(g)
  BY DEF From, To, Active, Ids, Pending, WorksOn, Current
<1>4. TypeOK'
  BY <1>1, <1>2 DEF TypeOK
<1>5. IdInv'
  BY <1>1, <1>3 DEF IdInv, Ids
<1>6. TangledInv'
  BY <1>1, <1>3 DEF TangledInv
<1>7. CheckedInv'
  BY <1>1, <1>3 DEF CheckedInv
<1>8. ReadInv'
  <2> SUFFICES ASSUME NEW g \in inflight'
               PROVE  /\ Pending(g) \subseteq WorksOn(g)
                      /\ g.step \in Recalculating => g.todo # {}
                      /\ g.step \in {"sum_in", "store"} /\ Current(g) \notin tangled'
                           => g.out = Ids(From(Current(g)))
                      /\ g.step = "store" /\ Current(g) \notin tangled'
                           => g.in = Ids(To(Current(g)))
    BY <1>3 DEF ReadInv, Recalculating, Ids
  <2>1. CASE g = h
    BY <2>1, <1>2 DEF Recalculating
  <2>2. CASE g \in inflight
    BY <2>2, <1>1 DEF ReadInv, Recalculating
  <2> QED
    BY <2>1, <2>2, <1>1
<1>9. PowerIsRight'
  <2>1. Awaited' = Awaited
    BY <1>1, <1>2, <1>3 DEF Awaited
  <2> QED
    BY <2>1, <1>1, <1>3 DEF PowerIsRight, Ids
<1>10. OneActiveDelegation'
  BY <1>1, <1>3 DEF OneActiveDelegation
<1> QED
  BY <1>4, <1>5, <1>6, <1>7, <1>8, <1>9, <1>10

\* The conjuncts of the invariant, for one handler.
Known(h) ==
  /\ h.step \in {"check_chain", "insert"} => h.id \notin Ids(delegations)
  /\ h.step = "revoke" =>
       \E d \in delegations : d.id = h.row /\ d.from = h.from /\ d.to = h.to
Checked(h) ==
  h.step \in {"check_chain", "insert"} /\ h.from \notin tangled => From(h.from) = {}
Read(h) ==
  /\ Pending(h) \subseteq WorksOn(h)
  /\ h.step \in Recalculating => h.todo # {}
  /\ h.step \in {"sum_in", "store"} /\ Current(h) \notin tangled
       => h.out = Ids(From(Current(h)))
  /\ h.step = "store" /\ Current(h) \notin tangled => h.in = Ids(To(Current(h)))

\* A handler that only reads moves to a step whose conditions it meets.
LEMMA Moved ==
  ASSUME IInv, NEW h \in inflight, NEW next \in Handler, Continue(h, next),
         next.id = h.id, WorksOn(next) = WorksOn(h), Pending(next) = Pending(h),
         Known(next), Checked(next), Read(next),
         UNCHANGED <<delegations, power, failures, interrupted>>
  PROVE  IInv'
<1> USE DEF IInv
<1>1. /\ inflight' = (inflight \ {h}) \cup {next}
      /\ UNCHANGED <<served, tangled>>
  BY DEF Continue
<1>2. /\ \A u : From(u)' = From(u) /\ To(u)' = To(u)
      /\ Ids(delegations)' = Ids(delegations)
  BY DEF From, To, Active, Ids
<1>3. TypeOK'
  BY <1>1 DEF TypeOK
<1>4. IdInv'
  BY <1>1, <1>2 DEF IdInv, Known, Ids
<1>5. TangledInv'
  BY <1>1 DEF TangledInv, WorksOn
<1>6. CheckedInv'
  BY <1>1, <1>2 DEF CheckedInv, Checked
<1>7. ReadInv'
  BY <1>1, <1>2 DEF ReadInv, Read, Recalculating, Pending, WorksOn, Current, Ids
<1>8. PowerIsRight'
  <2>1. Awaited' = Awaited
    BY <1>1 DEF Awaited, Pending
  <2> QED
    BY <2>1, <1>1, <1>2 DEF PowerIsRight, Ids
<1>9. OneActiveDelegation'
  BY <1>1, <1>2 DEF OneActiveDelegation
<1> QED
  BY <1>3, <1>4, <1>5, <1>6, <1>7, <1>8, <1>9

\* A handler that is done, or fails, leaves what it still owed to `interrupted`.
LEMMA Gone ==
  ASSUME IInv, NEW h \in inflight, Return(h),
         Pending(h) \subseteq interrupted', interrupted \subseteq interrupted',
         interrupted' \subseteq Users, failures' \in Nat,
         UNCHANGED <<delegations, power>>
  PROVE  IInv'
<1> USE DEF IInv
<1>1. /\ inflight' = inflight \ {h}
      /\ UNCHANGED <<served, tangled>>
  BY DEF Return
<1>2. /\ \A u : From(u)' = From(u) /\ To(u)' = To(u)
      /\ Ids(delegations)' = Ids(delegations)
  BY DEF From, To, Active, Ids
<1>3. TypeOK'
  BY <1>1 DEF TypeOK
<1>4. IdInv'
  BY <1>1, <1>2 DEF IdInv, Ids
<1>5. TangledInv'
  BY <1>1 DEF TangledInv, WorksOn
<1>6. CheckedInv'
  BY <1>1, <1>2 DEF CheckedInv
<1>7. ReadInv'
  BY <1>1, <1>2 DEF ReadInv, Pending, WorksOn, Current, Ids
<1>8. PowerIsRight'
  <2>1. Awaited \subseteq Awaited' \cup Pending(h)
    BY <1>1 DEF Awaited, Pending
  <2> QED
    BY <2>1, <1>1, <1>2 DEF PowerIsRight, Ids
<1>9. OneActiveDelegation'
  BY <1>1, <1>2 DEF OneActiveDelegation
<1> QED
  BY <1>3, <1>4, <1>5, <1>6, <1>7, <1>8, <1>9

\* A handler changes a row of the two users it works on, and owes both a
\* recalculation from then on.
LEMMA Changed ==
  ASSUME IInv, NEW h \in inflight, h.step \in {"insert", "revoke"},
         Recalculate(h, {h.from, h.to}),
         delegations' \in SUBSET Row, Ids(delegations') \subseteq Ids(delegations) \cup {h.id},
         \A d, e \in delegations' : d.id = e.id => d = e,
         \A d \in delegations : \E e \in delegations' :
           e.id = d.id /\ e.from = d.from /\ e.to = d.to,
         \A u : u # h.from => From(u)' = From(u),
         \A u : u # h.to => To(u)' = To(u),
         h.from \notin tangled => \A d, e \in From(h.from)' : d = e,
         UNCHANGED <<power, failures, interrupted>>
  PROVE  IInv'
<1> USE DEF IInv
<1> DEFINE todo == {h.from, h.to} \cap Holders
           next == [id |-> h.id, from |-> h.from, to |-> h.to, step |-> "sum_out",
                    todo |-> todo]
<1>1. /\ UNCHANGED <<served, tangled>>
      /\ IF todo = {} THEN inflight' = inflight \ {h}
                      ELSE inflight' = (inflight \ {h}) \cup {next}
  BY DEF Recalculate, Return, Continue
<1>2. h \in Handler /\ h.from \in Users /\ h.to \in Users /\ h.id \in Requests
  BY DEF TypeOK, Handler
<1>3. next \in Handler
  BY <1>2 DEF Handler
<1>4. Pending(h) = {} /\ Pending(next) = todo /\ WorksOn(next) = WorksOn(h)
      /\ next.id = h.id
  BY DEF Pending, WorksOn
<1>5. \A g \in inflight \ {h} : \A u \in WorksOn(g) \ tangled : u \notin WorksOn(h)
  BY DEF TangledInv
<1>6. \A g \in inflight' : (todo # {} /\ g = next) \/ g \in inflight \ {h}
  BY <1>1
<1>7. TypeOK'
  BY <1>1, <1>3 DEF TypeOK
<1>8. IdInv'
  <2>1. \A d \in delegations' : d.id \in served'
    BY <1>1 DEF IdInv, Ids
  <2>2. \A g \in inflight' : Known(g)'
    <3> SUFFICES ASSUME NEW g \in inflight' PROVE Known(g)'
      OBVIOUS
    <3>1. CASE g = next
      BY <3>1 DEF Known
    <3>2. CASE g \in inflight \ {h}
      BY <3>2 DEF IdInv, Known, Ids
    <3> QED
      BY <3>1, <3>2, <1>6
  <2>3. \A f, g \in inflight' : f.id = g.id => f = g
    <3>1. \A g \in inflight \ {h} : g.id # h.id
      BY DEF IdInv
    <3>2. \A f, g \in inflight \ {h} : f.id = g.id => f = g
      BY DEF IdInv
    <3> HIDE DEF next
    <3> QED
      BY <3>1, <3>2, <1>4, <1>6
  <2>4. \A g \in inflight' : g.id \in served'
    BY <1>1, <1>4, <1>6 DEF IdInv
  <2> QED
    BY <2>1, <2>2, <2>3, <2>4 DEF IdInv, Known, Ids
<1>9. TangledInv'
  BY <1>1, <1>4, <1>6 DEF TangledInv, WorksOn
<1>10. CheckedInv'
  BY <1>1, <1>5, <1>6 DEF CheckedInv, WorksOn
<1>11. ReadInv'
  <2> SUFFICES ASSUME NEW g \in inflight' PROVE Read(g)'
    BY DEF ReadInv, Read, Recalculating
  <2>1. CASE todo # {} /\ g = next
    BY <2>1, <1>4, <1>1 DEF Read, Recalculating, Pending, WorksOn
  <2>2. CASE g \in inflight \ {h}
    <3>1. Read(g)
      BY <2>2 DEF ReadInv, Read, Recalculating
    <3>2. g \in Handler
      BY <2>2 DEF TypeOK
    <3>3. g.step \in {"sum_in", "store"} /\ Current(g) \notin tangled =>
            /\ From(Current(g))' = From(Current(g))
            /\ To(Current(g))' = To(Current(g))
      BY <3>1, <3>2, <2>2, <1>5, CurrentToDo DEF Read, Recalculating, WorksOn
    <3> QED
      BY <3>1, <3>3, <1>1 DEF Read, Ids, Pending, WorksOn, Current
  <2> QED
    BY <2>1, <2>2, <1>6
<1>12. PowerIsRight'
  <2>1. Awaited' = Awaited \cup todo
    BY <1>1, <1>4 DEF Awaited, Pending
  <2> SUFFICES ASSUME NEW u \in Holders, u \notin tangled, u \notin interrupted,
                      u \notin Awaited'
               PROVE  power[u] = [out |-> Ids(From(u)'), in |-> Ids(To(u)')]
    BY <1>1 DEF PowerIsRight, Ids
  <2>2. u \notin Awaited /\ u # h.from /\ u # h.to
    BY <2>1
  <2> QED
    BY <2>2 DEF PowerIsRight
<1>13. OneActiveDelegation'
  BY <1>1, <1>2 DEF OneActiveDelegation
<1> QED
  BY <1>7, <1>8, <1>9, <1>10, <1>11, <1>12, <1>13

\* The insert: the checks have kept the delegator without a delegation.
LEMMA Inserted ==
  ASSUME IInv, NEW h \in inflight, InsertDelegation(h)
  PROVE  IInv'
<1> USE DEF IInv
<1> DEFINE row == [id |-> h.id, from |-> h.from, to |-> h.to, active |-> TRUE]
<1>1. h.step = "insert" /\ delegations' = delegations \cup {row}
  BY DEF InsertDelegation
<1>2. h.id \in Requests /\ h.from \in Users /\ h.to \in Users
  BY DEF TypeOK, Handler
<1>3. delegations' \in SUBSET Row
  <2>1. row \in Row
    BY <1>2 DEF Row
  <2>2. delegations \subseteq Row
    BY DEF TypeOK
  <2> QED
    BY <2>1, <2>2, <1>1
<1>4. \A d \in delegations : d.id # h.id
  BY <1>1 DEF IdInv, Ids
<1>5. /\ Ids(delegations') \subseteq Ids(delegations) \cup {h.id}
      /\ \A d, e \in delegations' : d.id = e.id => d = e
  <2>1. \A d, e \in delegations : d.id = e.id => d = e
    BY DEF IdInv
  <2>2. row.id = h.id
    OBVIOUS
  <2> HIDE DEF row
  <2>3. Ids(delegations') \subseteq Ids(delegations) \cup {h.id}
    BY <2>2, <1>1 DEF Ids
  <2>4. \A d, e \in delegations' : d.id = e.id => d = e
    BY <2>1, <2>2, <1>1, <1>4
  <2> QED
    BY <2>3, <2>4
<1>6. /\ \A u : u # h.from => From(u)' = From(u)
      /\ \A u : u # h.to => To(u)' = To(u)
      /\ From(h.from)' = From(h.from) \cup {row}
  BY <1>1 DEF From, To, Active
<1>7. h.from \notin tangled => \A d, e \in From(h.from)' : d = e
  BY <1>1, <1>6 DEF CheckedInv
<1> QED
  BY <1>1, <1>3, <1>5, <1>6, <1>7, Changed DEF InsertDelegation

\* Revoking only takes a row away from those in force.
LEMMA Revoked ==
  ASSUME IInv, NEW h \in inflight, Revoke(h)
  PROVE  IInv'
<1> USE DEF IInv
<1> DEFINE Off(d) == IF d.id = h.row THEN [d EXCEPT !.active = FALSE] ELSE d
<1>1. h.step = "revoke" /\ delegations' = {Off(d) : d \in delegations}
  BY DEF Revoke
<1>2. \A d \in delegations : /\ Off(d) \in Row
                              /\ Off(d).id = d.id /\ Off(d).from = d.from /\ Off(d).to = d.to
                              /\ (Off(d).active => d.active /\ Off(d) = d)
                              /\ (d.id # h.row => Off(d) = d)
  BY DEF TypeOK, Row
<1>3. \A d \in delegations : d.id = h.row => d.from = h.from /\ d.to = h.to
  BY <1>1 DEF IdInv
<1>10. \A e \in delegations' : \E d \in delegations : e = Off(d)
  BY <1>1
<1>11. \A d \in delegations : Off(d) \in delegations'
  BY <1>1
<1> HIDE DEF Off
<1>12. \A e \in Active' : e \in Active
  BY <1>10, <1>2 DEF Active
<1>13. \A d \in Active : d.from # h.from \/ d.to # h.to => d \in Active'
  BY <1>11, <1>2, <1>3 DEF Active
<1>4. \A u : From(u)' \subseteq From(u)
  BY <1>12 DEF From
<1>5. /\ \A u : u # h.from => From(u)' = From(u)
      /\ \A u : u # h.to => To(u)' = To(u)
  BY <1>12, <1>13 DEF From, To
<1>6. h.from \notin tangled => \A d, e \in From(h.from)' : d = e
  BY <1>4 DEF OneActiveDelegation, TypeOK, Handler
<1>7. delegations' \in SUBSET Row
  BY <1>10, <1>2
<1>8. /\ Ids(delegations') \subseteq Ids(delegations) \cup {h.id}
      /\ \A d, e \in delegations' : d.id = e.id => d = e
      /\ \A d \in delegations : \E e \in delegations' :
           e.id = d.id /\ e.from = d.from /\ e.to = d.to
  <2>1. Ids(delegations') \subseteq Ids(delegations)
    BY <1>10, <1>2 DEF Ids
  <2>2. \A d, e \in delegations : d.id = e.id => d = e
    BY DEF IdInv
  <2> QED
    BY <2>1, <2>2, <1>10, <1>11, <1>2
<1> QED
  BY <1>1, <1>5, <1>6, <1>7, <1>8, Changed DEF Revoke

\* What is stored for an untangled user is what the table says.
LEMMA Stored ==
  ASSUME IInv, NEW h \in inflight, StorePower(h)
  PROVE  IInv'
<1> USE DEF IInv
<1> DEFINE user == Current(h)
           todo == h.todo \ {user}
           next == [id |-> h.id, from |-> h.from, to |-> h.to, step |-> "sum_out",
                    todo |-> todo]
<1>1. /\ h \in Handler /\ h.step = "store" /\ Read(h) /\ h.todo \subseteq Holders
      /\ user \in h.todo /\ user \in Holders /\ user \in WorksOn(h) /\ Pending(h) = h.todo
  BY CurrentToDo DEF TypeOK, StorePower, ReadInv, Read, Recalculating, Handler, Pending
<1>2. todo \cap Holders = todo
  BY <1>1
<1>3. /\ UNCHANGED <<delegations, failures, served, tangled>>
      /\ power' = [power EXCEPT ![user] = [out |-> h.out, in |-> h.in]]
      /\ interrupted' = interrupted \ {user}
      /\ IF todo = {} THEN inflight' = inflight \ {h}
                      ELSE inflight' = (inflight \ {h}) \cup {next}
  BY <1>2 DEF StorePower, Recalculate, Return, Continue
<1>4. next \in Handler /\ Pending(next) = todo /\ WorksOn(next) = WorksOn(h) /\ next.id = h.id
  BY <1>1 DEF Handler, Pending, WorksOn
<1>5. \A g \in inflight' : (todo # {} /\ g = next) \/ g \in inflight \ {h}
  BY <1>3
<1>6. /\ \A u : From(u)' = From(u) /\ To(u)' = To(u)
      /\ Ids(delegations)' = Ids(delegations)
  BY <1>3 DEF From, To, Active, Ids
<1>7. TypeOK'
  <2>1. h.out \subseteq Requests /\ h.in \subseteq Requests
    BY <1>1 DEF Handler
  <2> QED
    BY <2>1, <1>1, <1>3, <1>4 DEF TypeOK
<1>8. IdInv'
  <2>1. \A g \in inflight' : Known(g)
    BY <1>4, <1>5 DEF IdInv, Known
  <2>2. \A f, g \in inflight' : f.id = g.id => f = g
    BY <1>4, <1>5 DEF IdInv
  <2>3. \A g \in inflight' : g.id \in served
    BY <1>4, <1>5 DEF IdInv
  <2> QED
    BY <2>1, <2>2, <2>3, <1>3, <1>6 DEF IdInv, Known
<1>9. TangledInv'
  BY <1>3, <1>4, <1>5 DEF TangledInv, WorksOn
<1>10. CheckedInv'
  BY <1>3, <1>5, <1>6 DEF CheckedInv
<1>11. ReadInv'
  <2> SUFFICES ASSUME NEW g \in inflight' PROVE Read(g)
    BY <1>3, <1>6 DEF ReadInv, Read, Recalculating, Ids, Pending, WorksOn, Current
  <2>1. CASE todo # {} /\ g = next
    BY <2>1, <1>1, <1>4 DEF Read, Recalculating
  <2>2. CASE g \in inflight \ {h}
    BY <2>2 DEF ReadInv, Read, Recalculating
  <2> QED
    BY <2>1, <2>2, <1>5
<1>12. PowerIsRight'
  <2> SUFFICES ASSUME NEW u \in Holders, u \notin tangled, u \notin interrupted',
                      u \notin Awaited'
               PROVE  power'[u] = [out |-> Ids(From(u)), in |-> Ids(To(u))]
    BY <1>3, <1>6 DEF PowerIsRight, Ids
  <2>1. CASE u = user
    BY <2>1, <1>1, <1>3 DEF Read, TypeOK
  <2>2. CASE u # user
    <3>1. u \notin Awaited
      BY <2>2, <1>1, <1>3, <1>4 DEF Awaited, Pending
    <3>2. u \notin interrupted
      BY <2>2, <1>3
    <3> QED
      BY <2>2, <3>1, <3>2, <1>3 DEF PowerIsRight, TypeOK
  <2> QED
    BY <2>1, <2>2
<1>13. OneActiveDelegation'
  BY <1>3, <1>6 DEF OneActiveDelegation
<1> QED
  BY <1>7, <1>8, <1>9, <1>10, <1>11, <1>12, <1>13

\* Every step keeps the invariant.
LEMMA Inductive == IInv /\ [Next]_vars => IInv'
<1> SUFFICES ASSUME IInv, [Next]_vars PROVE IInv'
  OBVIOUS
<1>0. /\ inflight \subseteq Handler /\ served \subseteq Requests
      /\ delegations \subseteq Row /\ interrupted \subseteq Users
  BY DEF IInv, TypeOK
<1>1. ASSUME NEW r \in Requests, NEW u \in Users, NEW v \in Users, Delegate(r, u, v)
      PROVE  IInv'
  <2> DEFINE h == [id |-> r, from |-> u, to |-> v, step |-> "check_chain"]
  <2>1. h \in Handler
    BY DEF Handler
  <2> QED
    BY <2>1, <1>1, Accepted DEF Delegate
<1>2. ASSUME NEW r \in Requests, NEW d \in delegations, Undelegate(r, d)
      PROVE  IInv'
  <2> DEFINE h == [id |-> r, from |-> d.from, to |-> d.to, step |-> "revoke", row |-> d.id]
  <2>1. h \in Handler
    BY <1>0 DEF Handler, Row
  <2> QED
    BY <2>1, <1>2, Accepted DEF Undelegate
<1>3. ASSUME NEW h \in inflight, CheckChain(h) PROVE IInv'
  <2>1. CASE From(h.to) = {}
    <3> DEFINE next == [h EXCEPT !.step = "insert"]
    <3>1. /\ next \in Handler /\ next.id = h.id /\ next.from = h.from
          /\ WorksOn(next) = WorksOn(h) /\ Pending(next) = Pending(h)
          /\ next.step = "insert" /\ h.step = "check_chain"
      BY <1>0, <1>3 DEF CheckChain, Handler, WorksOn, Pending
    <3>2. Known(next) /\ Checked(next) /\ Read(next)
      BY <3>1 DEF IInv, IdInv, CheckedInv, ReadInv, Known, Checked, Read, Recalculating
    <3> QED
      BY <2>1, <3>1, <3>2, <1>3, Moved DEF CheckChain
  <2>2. CASE From(h.to) # {}
    <3>1. Pending(h) = {}
      BY <1>3 DEF CheckChain, Pending
    <3>2. interrupted' \subseteq Users /\ failures' \in Nat
      BY <1>0, <1>3 DEF CheckChain, IInv, TypeOK
    <3> QED
      BY <2>2, <3>1, <3>2, <1>3, Gone DEF CheckChain
  <2> QED
    BY <2>1, <2>2
<1>4. ASSUME NEW h \in inflight, SumOut(h) PROVE IInv'
  <2> DEFINE next == [id |-> h.id, from |-> h.from, to |-> h.to, step |-> "sum_in",
                      todo |-> h.todo, out |-> Ids(From(Current(h)))]
  <2>1. /\ h \in Handler /\ h.step = "sum_out"
        /\ Pending(h) \subseteq WorksOn(h) /\ h.todo # {}
    BY <1>0, <1>4 DEF SumOut, IInv, ReadInv
  <2>2. Ids(From(Current(h))) \subseteq Requests
    BY <1>0 DEF Ids, From, Active, Row
  <2>3. /\ next \in Handler /\ WorksOn(next) = WorksOn(h) /\ Pending(next) = Pending(h)
        /\ Current(next) = Current(h)
    BY <2>1, <2>2 DEF Handler, WorksOn, Pending, Current
  <2>4. Known(next) /\ Checked(next) /\ Read(next)
    BY <2>1, <2>3 DEF Known, Checked, Read, Recalculating
  <2> QED
    BY <2>3, <2>4, <1>4, Moved DEF SumOut
<1>5. ASSUME NEW h \in inflight, SumIn(h) PROVE IInv'
  <2> DEFINE next == [id |-> h.id, from |-> h.from, to |-> h.to, step |-> "store",
                      todo |-> h.todo, out |-> h.out, in |-> Ids(To(Current(h)))]
  <2>1. /\ h \in Handler /\ h.step = "sum_in"
        /\ Pending(h) \subseteq WorksOn(h) /\ h.todo # {}
        /\ Current(h) \notin tangled => h.out = Ids(From(Current(h)))
    BY <1>0, <1>5 DEF SumIn, IInv, ReadInv
  <2>2. Ids(To(Current(h))) \subseteq Requests
    BY <1>0 DEF Ids, To, Active, Row
  <2>3. /\ next \in Handler /\ WorksOn(next) = WorksOn(h) /\ Pending(next) = Pending(h)
        /\ Current(next) = Current(h)
    BY <2>1, <2>2 DEF Handler, WorksOn, Pending, Current
  <2>4. Known(next) /\ Checked(next) /\ Read(next)
    BY <2>1, <2>3 DEF Known, Checked, Read, Recalculating
  <2> QED
    BY <2>3, <2>4, <1>5, Moved DEF SumIn
<1>6. ASSUME NEW h \in inflight, HandlerFails(h) PROVE IInv'
  <2>1. Pending(h) \subseteq Users
    BY <1>0 DEF Pending, Handler, DelegationAssumption
  <2>2. interrupted' \subseteq Users /\ failures' \in Nat
    BY <1>0, <1>6, <2>1 DEF HandlerFails, IInv, TypeOK
  <2> QED
    BY <2>2, <1>6, Gone DEF HandlerFails
<1>7. CASE UNCHANGED vars
  <2> USE <1>7 DEF vars, http, history, IInv
  <2>1. /\ \A u : From(u)' = From(u) /\ To(u)' = To(u)
        /\ Ids(delegations)' = Ids(delegations) /\ Awaited' = Awaited
    BY DEF From, To, Active, Ids, Awaited, Pending
  <2>2. TypeOK' /\ TangledInv'
    BY DEF TypeOK, TangledInv, WorksOn
  <2>3. IdInv' /\ CheckedInv'
    BY <2>1 DEF IdInv, CheckedInv
  <2>4. ReadInv'
    BY <2>1 DEF ReadInv, Pending, WorksOn, Current, Ids
  <2>5. PowerIsRight' /\ OneActiveDelegation'
    BY <2>1 DEF PowerIsRight, OneActiveDelegation, Ids
  <2> QED
    BY <2>2, <2>3, <2>4, <2>5
<1> QED
  BY <1>1, <1>2, <1>3, <1>4, <1>5, <1>6, <1>7, Inserted, Revoked, Stored
     DEF Next, Receive, Handle

\* The invariant holds in every reachable state.
THEOREM DelegationInvariant == Spec => []IInv
BY Initially, Inductive, PTL DEF Spec

\* Columns and locals keep their types.
THEOREM TypeCorrect == Spec => []TypeOK
<1>1. IInv => TypeOK
  BY DEF IInv
<1> QED
  BY <1>1, DelegationInvariant, PTL

\* The voting power of a user is what the delegations in force make it, unless
\* a recalculation is outstanding, was lost to a failure, or overlapped another
\* call on the user.
THEOREM SettledPowerIsRight == Spec => []PowerIsRight
<1>1. IInv => PowerIsRight
  BY DEF IInv
<1> QED
  BY <1>1, DelegationInvariant, PTL

\* A user delegates to one other at most, as long as calls on the user take turns.
THEOREM DelegatesOnce == Spec => []OneActiveDelegation
<1>1. IInv => OneActiveDelegation
  BY DEF IInv
<1> QED
  BY <1>1, DelegationInvariant, PTL

-----------------------------------------------------------------------------
(* Sums of votes. *)

LEMMA WeightsInitially == Init => WeightInv
BY FS_EmptySet DEF Init, WeightInv

\* New rows come from calls that found a balance; revoking keeps the users.
LEMMA WeightsInductive == IInv /\ WeightInv /\ [Next]_vars => WeightInv'
<1> SUFFICES ASSUME IInv, WeightInv, [Next]_vars PROVE WeightInv'
  OBVIOUS
<1>0. inflight \subseteq Handler /\ delegations \subseteq Row
  BY DEF IInv, TypeOK
<1>1. ASSUME NEW r \in Requests, NEW u \in Users, NEW v \in Users, Delegate(r, u, v)
      PROVE  WeightInv'
  BY <1>1 DEF Delegate, Accept, WeightInv
<1>2. ASSUME NEW r \in Requests, NEW d \in delegations, Undelegate(r, d)
      PROVE  WeightInv'
  BY <1>2 DEF Undelegate, Accept, WeightInv
<1>3. ASSUME NEW h \in inflight, CheckChain(h) PROVE WeightInv'
  <2>1. PICK next : next = [h EXCEPT !.step = "insert"]
    OBVIOUS
  <2>2. next.from = h.from /\ h.from \in Holders
    BY <1>0, <1>3, <2>1 DEF CheckChain, Handler, WeightInv
  <2>3. /\ delegations' = delegations
        /\ inflight' \subseteq inflight \cup {next}
    BY <1>3, <2>1 DEF CheckChain, Continue, Return
  <2> QED BY <2>2, <2>3 DEF WeightInv
<1>4. ASSUME NEW T \in SUBSET inflight, NEW next, next.step \notin {"check_chain", "insert"},
             inflight' = T \/ inflight' = T \cup {next},
             IsFiniteSet(delegations'), \A d \in delegations' : d.from \in Holders
      PROVE  WeightInv'
  BY <1>4 DEF WeightInv
<1>5. ASSUME NEW h \in inflight, NEW todo, Recalculate(h, todo), IsFiniteSet(delegations'),
             \A d \in delegations' : d.from \in Holders
      PROVE  WeightInv'
  <2>1. PICK next : next = [id |-> h.id, from |-> h.from, to |-> h.to, step |-> "sum_out",
                            todo |-> todo \cap Holders]
    OBVIOUS
  <2>2. PICK T \in SUBSET inflight : T = inflight \ {h}
    OBVIOUS
  <2>3. inflight' = T \/ inflight' = T \cup {next}
    BY <1>5, <2>1, <2>2 DEF Recalculate, Return, Continue
  <2>4. next.step \notin {"check_chain", "insert"}
    BY <2>1
  <2> QED BY <1>4, <1>5, <2>3, <2>4
<1>6. ASSUME NEW h \in inflight, InsertDelegation(h) PROVE WeightInv'
  <2>1. PICK row : row = [id |-> h.id, from |-> h.from, to |-> h.to, active |-> TRUE]
    OBVIOUS
  <2>2. delegations' = delegations \cup {row} /\ row.from \in Holders
    BY <1>6, <2>1 DEF InsertDelegation, WeightInv
  <2>3. IsFiniteSet(delegations') /\ \A d \in delegations' : d.from \in Holders
    BY <2>2, FS_AddElement DEF WeightInv
  <2> QED BY <1>5, <1>6, <2>3 DEF InsertDelegation
<1>7. ASSUME NEW h \in inflight, Revoke(h) PROVE WeightInv'
  <2> DEFINE Off(d) == IF d.id = h.row THEN [d EXCEPT !.active = FALSE] ELSE d
  <2>1. delegations' = {Off(d) : d \in delegations}
    BY <1>7 DEF Revoke
  <2>2. \A d \in delegations : Off(d).from = d.from
    BY <1>0 DEF Row
  <2>3. IsFiniteSet(delegations')
    <3>1. [d \in delegations |-> Off(d)] \in Surjection(delegations, delegations')
      BY <2>1 DEF Surjection
    <3> QED BY <3>1, FS_Surjection DEF WeightInv
  <2>4. \A d \in delegations' : d.from \in Holders
    BY <2>1, <2>2 DEF WeightInv
  <2> QED BY <1>5, <1>7, <2>3, <2>4 DEF Revoke
<1>8. ASSUME NEW h \in inflight, SumOut(h) \/ SumIn(h) PROVE WeightInv'
  BY <1>8 DEF SumOut, SumIn, Continue, WeightInv
<1>9. ASSUME NEW h \in inflight, StorePower(h) PROVE WeightInv'
  <2>1. IsFiniteSet(delegations') /\ \A d \in delegations' : d.from \in Holders
    BY <1>9 DEF StorePower, WeightInv
  <2> QED BY <1>5, <1>9, <2>1 DEF StorePower
<1>10. ASSUME NEW h \in inflight, HandlerFails(h) PROVE WeightInv'
  BY <1>10 DEF HandlerFails, Return, WeightInv
<1>11. CASE UNCHANGED vars
  BY <1>11 DEF vars, http, WeightInv
<1> QED
  BY <1>1, <1>2, <1>3, <1>6, <1>7, <1>8, <1>9, <1>10, <1>11 DEF Next, Receive, Handle

\* What every row moves from its delegator to its delegatee.
Weight == [d \in delegations |-> Balance[d.from]]
WeightOf(rows) == SumFunctionOnSet(Weight, rows)

LEMMA WeightIsNat == WeightInv => \A d \in delegations : Weight[d] \in Nat
BY DEF WeightInv, Weight

\* A set of ids stands for its rows, since no two rows have the same id.
LEMMA AmountsOfIds ==
  ASSUME IInv, WeightInv, NEW T \in SUBSET delegations
  PROVE  Amounts(Ids(T)) = WeightOf(T)
<1>1. {d \in delegations : d.id \in Ids(T)} = T
  BY DEF IInv, IdInv, Ids
<1>2. PICK f : f = [d \in T |-> Balance[d.from]]
  OBVIOUS
<1>3. \A d \in T : Weight[d] \in Int /\ Weight[d] = f[d]
  BY <1>2, WeightIsNat DEF Weight
<1>4. IsFiniteSet(T)
  BY FS_Subset DEF WeightInv
<1>5. SumFunctionOnSet(Weight, T) = SumFunctionOnSet(f, T)
  BY <1>3, <1>4, SumSame
<1> QED BY <1>1, <1>2, <1>5 DEF Amounts, WeightOf

LEMMA WeightNat ==
  ASSUME WeightInv, NEW T \in SUBSET delegations
  PROVE  WeightOf(T) \in Nat
<1>1. IsFiniteSet(T) /\ \A d \in T : Weight[d] \in Nat
  BY FS_Subset, WeightIsNat DEF WeightInv
<1> QED BY <1>1, SumNat DEF WeightOf

\* A user gives away its balance at most, and the stored power says which votes
\* it has given and received.
LEMMA PowerBetweenCalls ==
  ASSUME IInv, WeightInv, Quiet, NEW u \in Holders
  PROVE  /\ WeightOf(From(u)) \in Nat /\ WeightOf(To(u)) \in Nat
         /\ Effective(u) \in Nat
         /\ Effective(u) + WeightOf(From(u)) = Balance[u] + WeightOf(To(u))
<1>1. From(u) \in SUBSET delegations /\ To(u) \in SUBSET delegations
  BY DEF From, To, Active
<1>2. WeightOf(From(u)) \in Nat /\ WeightOf(To(u)) \in Nat
  BY <1>1, WeightNat
<1>3. Awaited = {}
  BY DEF Quiet, Awaited
<1>4. power[u].out = Ids(From(u)) /\ power[u].in = Ids(To(u))
  <2>1. power[u] = [out |-> Ids(From(u)), in |-> Ids(To(u))]
    BY <1>3 DEF IInv, PowerIsRight, Quiet
  <2> QED BY <2>1
<1>5. Amounts(power[u].out) = WeightOf(From(u)) /\ Amounts(power[u].in) = WeightOf(To(u))
  BY <1>1, <1>4, AmountsOfIds
<1>6. Balance[u] \in Nat
  OBVIOUS
<1>7. WeightOf(From(u)) <= Balance[u]
  <2>1. CASE From(u) = {}
    BY <1>6, <2>1, SumEmpty DEF WeightOf
  <2>2. CASE From(u) # {}
    <3>1. PICK d : d \in From(u)
      BY <2>2
    <3>2. From(u) = {d} /\ d \in delegations /\ d.from = u
      BY <3>1 DEF IInv, OneActiveDelegation, Quiet, From, Active
    <3>3. Weight[d] = Balance[u]
      BY <3>2 DEF Weight
    <3>4. SumFunctionOnSet(Weight, {d}) = Weight[d] + SumFunctionOnSet(Weight, {d} \ {d})
      <4>1. IsFiniteSet({d})
        BY <3>2, FS_Subset DEF WeightInv
      <4>2. d \in {d} /\ \A x \in {d} : Weight[x] \in Int
        BY <1>6, <3>3
      <4> QED BY <4>1, <4>2, SumRemove
    <3>5. {d} \ {d} = {}
      OBVIOUS
    <3> QED BY <1>6, <3>2, <3>3, <3>4, <3>5, SumEmpty DEF WeightOf
  <2> QED BY <2>1, <2>2
<1>8. PICK b \in Nat, o \in Nat, i \in Nat :
        b = Balance[u] /\ o = WeightOf(From(u)) /\ i = WeightOf(To(u))
  BY <1>2, <1>6
<1>9. Effective(u) = b - o + i
  <2>1. b - o + i >= 0
    BY <1>7, <1>8
  <2> QED BY <1>5, <1>8, <2>1 DEF Effective
<1> QED BY <1>7, <1>8, <1>9

\* What all have is what they hold, less what they gave, and what they got.
LEMMA VotesBalance ==
  ASSUME IInv, WeightInv, Quiet
  PROVE  /\ Votes \in Int /\ Supply \in Int
         /\ Votes + WeightOf({d \in Active : d.from \in Holders})
              = Supply + WeightOf({d \in Active : d.to \in Holders})
<1>1. PICK e, o, i, s :
        /\ e = [u \in Holders |-> Effective(u)]
        /\ o = [u \in Holders |-> WeightOf(From(u))]
        /\ i = [u \in Holders |-> WeightOf(To(u))]
        /\ s = [u \in Holders |-> Effective(u) + WeightOf(From(u))]
  OBVIOUS
<1>2. \A u \in Holders : /\ e[u] \in Int /\ o[u] \in Int /\ i[u] \in Int
                         /\ Balance[u] \in Int
                         /\ s[u] = e[u] + o[u] /\ s[u] = Balance[u] + i[u]
  BY <1>1, PowerBetweenCalls
<1>3. SumFunctionOnSet(s, Holders) = SumFunctionOnSet(e, Holders) + SumFunctionOnSet(o, Holders)
  BY <1>2, SumPlus
<1>4. SumFunctionOnSet(s, Holders)
        = SumFunctionOnSet(Balance, Holders) + SumFunctionOnSet(i, Holders)
  BY <1>2, SumPlus
<1>5. /\ SumFunctionOnSet(e, Holders) \in Int /\ SumFunctionOnSet(o, Holders) \in Int
      /\ SumFunctionOnSet(i, Holders) \in Int /\ SumFunctionOnSet(Balance, Holders) \in Int
  BY <1>2, SumInt
<1>6. IsFiniteSet(Active) /\ \A d \in Active : Weight[d] \in Int
  BY FS_Subset, WeightIsNat DEF Active, WeightInv
<1>7. SumFunctionOnSet(o, Holders) = WeightOf({d \in Active : d.from \in Holders})
  <2>1. PICK A, G : /\ A = {d \in Active : d.from \in Holders}
                    /\ G = [u \in Holders |-> From(u)]
    OBVIOUS
  <2>2. IsFiniteSet(A) /\ \A d \in A : Weight[d] \in Int
    BY <1>6, <2>1, FS_Subset
  <2>3. /\ \A u \in Holders : G[u] \in SUBSET A /\ o[u] = SumFunctionOnSet(Weight, G[u])
        /\ \A u, v \in Holders : u # v => G[u] \cap G[v] = {}
        /\ \A d \in A : \E u \in Holders : d \in G[u]
    BY <1>1, <2>1 DEF From, WeightOf
  <2>4. IsFiniteSet(Holders)
    OBVIOUS
  <2>5. SumFunctionOnSet(o, Holders) = SumFunctionOnSet(Weight, A)
    BY <2>2, <2>3, <2>4, SumGroups
  <2> QED BY <2>1, <2>5 DEF WeightOf
<1>8. SumFunctionOnSet(i, Holders) = WeightOf({d \in Active : d.to \in Holders})
  <2>1. PICK A, G : /\ A = {d \in Active : d.to \in Holders}
                    /\ G = [u \in Holders |-> To(u)]
    OBVIOUS
  <2>2. IsFiniteSet(A) /\ \A d \in A : Weight[d] \in Int
    BY <1>6, <2>1, FS_Subset
  <2>3. /\ \A u \in Holders : G[u] \in SUBSET A /\ i[u] = SumFunctionOnSet(Weight, G[u])
        /\ \A u, v \in Holders : u # v => G[u] \cap G[v] = {}
        /\ \A d \in A : \E u \in Holders : d \in G[u]
    BY <1>1, <2>1 DEF To, WeightOf
  <2>4. IsFiniteSet(Holders)
    OBVIOUS
  <2>5. SumFunctionOnSet(i, Holders) = SumFunctionOnSet(Weight, A)
    BY <2>2, <2>3, <2>4, SumGroups
  <2> QED BY <2>1, <2>5 DEF WeightOf
<1> QED BY <1>1, <1>3, <1>4, <1>5, <1>7, <1>8 DEF Votes, Supply

\* Between calls, unless one failed or overlapped another on a user, delegation
\* moves votes and makes none.
THEOREM VotesConserved == Spec => []VotesAreConserved
<1>1. IInv /\ WeightInv => VotesAreConserved
  <2> SUFFICES ASSUME IInv, WeightInv, Quiet
               PROVE  /\ Votes <= Supply
                      /\ (\A d \in Active : d.to \in Holders) => Votes = Supply
    BY DEF VotesAreConserved
  <2> DEFINE Here == {d \in Active : d.to \in Holders}
             Lost == {d \in Active : d.to \notin Holders}
  <2>1. {d \in Active : d.from \in Holders} = Here \cup Lost /\ Here \cap Lost = {}
    BY DEF WeightInv, Active
  <2>2. IsFiniteSet(Here) /\ IsFiniteSet(Lost) /\ \A d \in Here \cup Lost : Weight[d] \in Int
    BY FS_Subset, WeightIsNat DEF Active, WeightInv
  <2>3. WeightOf(Here) \in Nat /\ WeightOf(Lost) \in Nat
    BY WeightNat DEF Active
  <2>4. /\ Votes \in Int /\ Supply \in Int
        /\ Votes + WeightOf(Here \cup Lost) = Supply + WeightOf(Here)
    BY <2>1, VotesBalance
  <2>5. (\A d \in Active : d.to \in Holders) => Lost = {}
    OBVIOUS
  <2> HIDE DEF Here, Lost
  <2>6. WeightOf(Here \cup Lost) = WeightOf(Here) + WeightOf(Lost)
    BY <2>1, <2>2, SumUnion DEF WeightOf
  <2>7. Lost = {} => WeightOf(Lost) = 0
    BY SumEmpty DEF WeightOf
  <2>8. PICK v \in Int, s \in Int, p \in Nat, l \in Nat :
          /\ v = Votes /\ s = Supply /\ p = WeightOf(Here) /\ l = WeightOf(Lost)
    BY <2>3, <2>4
  <2>9. v + (p + l) = s + p /\ (Lost = {} => l = 0)
    BY <2>4, <2>6, <2>7, <2>8
  <2>10. v <= s /\ (l = 0 => v = s)
    BY <2>9
  <2> QED BY <2>5, <2>8, <2>9, <2>10
<1>2. IInv /\ WeightInv /\ [Next]_vars => (IInv /\ WeightInv)'
  BY Inductive, WeightsInductive
<1> QED BY <1>1, <1>2, Initially, WeightsInitially, PTL DEF Spec
=============================================================================
