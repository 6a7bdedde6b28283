--------------------------- MODULE WebhooksProofs ---------------------------
(* For any events, endpoints, limits and any failures: an endpoint that failed
   too often does not stay active behind the workers' backs, a decision to
   deactivate stands unless the counter was set back, and attempts are bounded.

   The argument: a worker that takes the counter over the limit is the one that
   deactivates, the row only becomes active again with the counter set back, and
   whoever sets it back while a worker decides is recorded in `overtaken`. *)
EXTENDS Webhooks, TLAPS

USE WebhooksAssumption

\* Nothing but the job changes for the others.
OnlyJob(x, e) ==
  \A y \in Events, f \in Endpoints : <<y, f>> # <<x, e>> => jobs'[y][f] = jobs[y][f]

\* The three ways a job changes touch that job alone.
LEMMA Jobs ==
  ASSUME TypeOK, NEW x \in Events, NEW e \in Endpoints, NEW at \in Places
  PROVE  /\ Move(x, e, at) =>
              /\ jobs' \in [Events -> [Endpoints -> Job]]
              /\ jobs'[x][e] = [jobs[x][e] EXCEPT !.at = at]
              /\ OnlyJob(x, e)
         /\ Throw(x, e) /\ jobs[x][e].made < Attempts =>
              /\ jobs' \in [Events -> [Endpoints -> Job]]
              /\ jobs'[x][e] = Thrown(jobs[x][e])
              /\ OnlyJob(x, e)
         /\ WorkerDies(x, e) =>
              /\ jobs' \in [Events -> [Endpoints -> Job]]
              /\ jobs'[x][e] = [jobs[x][e] EXCEPT !.stalled = TRUE,
                   !.at = IF jobs[x][e].stalled THEN "failed" ELSE "waiting"]
              /\ OnlyJob(x, e)
<1> USE DEF Job
<1>1. /\ jobs \in [Events -> [Endpoints -> Job]]
      /\ jobs[x] \in [Endpoints -> Job] /\ jobs[x][e] \in Job
  BY DEF TypeOK
<1>2. ASSUME Move(x, e, at)
      PROVE  /\ jobs' \in [Events -> [Endpoints -> Job]]
             /\ jobs'[x][e] = [jobs[x][e] EXCEPT !.at = at]
             /\ OnlyJob(x, e)
  BY <1>1, <1>2 DEF Move, Places, OnlyJob
<1>3. ASSUME Throw(x, e), jobs[x][e].made < Attempts
      PROVE  /\ jobs' \in [Events -> [Endpoints -> Job]]
             /\ jobs'[x][e] = Thrown(jobs[x][e])
             /\ OnlyJob(x, e)
  <2> DEFINE new == Thrown(jobs[x][e])
  <2>1. jobs' = [jobs EXCEPT ![x] = [jobs[x] EXCEPT ![e] = new]]
    BY <1>1, <1>3 DEF Throw, Thrown
  <2>2. new \in Job
    BY <1>1, <1>3 DEF Places, Thrown
  <2> HIDE DEF new, Job
  <2>3. /\ jobs' \in [Events -> [Endpoints -> Job]]
        /\ jobs'[x][e] = new
        /\ OnlyJob(x, e)
    BY <1>1, <2>1, <2>2 DEF OnlyJob
  <2> QED
    BY <2>3 DEF new
<1>4. ASSUME WorkerDies(x, e)
      PROVE  /\ jobs' \in [Events -> [Endpoints -> Job]]
             /\ jobs'[x][e] = [jobs[x][e] EXCEPT !.stalled = TRUE,
                  !.at = IF jobs[x][e].stalled THEN "failed" ELSE "waiting"]
             /\ OnlyJob(x, e)
  BY <1>1, <1>4 DEF WorkerDies, Places, OnlyJob
<1> QED
  BY <1>2, <1>3, <1>4

\* A job that is not the decider leaves the deciders as they are.
LEMMA Deciders ==
  ASSUME NEW x \in Events, NEW e \in Endpoints, OnlyJob(x, e)
  PROVE  /\ \A f \in Endpoints \ {e} : Deactivating(f)' <=> Deactivating(f)
         /\ jobs[x][e].at # "deactivate" => (Deactivating(e) => Deactivating(e)')
         /\ jobs'[x][e].at # "deactivate" => (Deactivating(e)' => Deactivating(e))
BY DEF Deactivating, OnlyJob


\* An UPDATE of one column keeps the type of the table.
LEMMA Rows ==
  ASSUME TypeOK, NEW e \in Endpoints
  PROVE  /\ \A state \in {"none", "active", "inactive", "deleted"} :
              [endpoints EXCEPT ![e].state = state] \in [Endpoints -> Row]
         /\ \A count \in Nat : [endpoints EXCEPT ![e].count = count] \in [Endpoints -> Row]
         /\ [endpoints EXCEPT ![e] = [state |-> "active", count |-> 0]] \in [Endpoints -> Row]
         /\ [endpoints EXCEPT ![e].count = @ + 1] \in [Endpoints -> Row]
         /\ endpoints[e].count \in Nat
<1>1. endpoints \in [Endpoints -> Row] /\ endpoints[e] \in Row
  BY DEF TypeOK
<1>2. /\ \A state \in {"none", "active", "inactive", "deleted"} :
           [endpoints[e] EXCEPT !.state = state] \in Row
      /\ \A count \in Nat : [endpoints[e] EXCEPT !.count = count] \in Row
      /\ [state |-> "active", count |-> 0] \in Row
      /\ endpoints[e].count \in Nat
  BY <1>1 DEF Row
<1>3. \A count \in Nat : [endpoints EXCEPT ![e].count = count] \in [Endpoints -> Row]
  BY <1>1, <1>2
<1>4. [endpoints EXCEPT ![e].count = @ + 1] \in [Endpoints -> Row]
  <2>1. endpoints[e].count + 1 \in Nat
    BY <1>2
  <2>2. [endpoints EXCEPT ![e].count = endpoints[e].count + 1] \in [Endpoints -> Row]
    BY <2>1, <1>3
  <2> QED
    BY <2>2
<1> QED
  BY <1>1, <1>2, <1>3, <1>4

\* Columns and jobs keep their types.
LEMMA TypeStep ==
  ASSUME TypeOK, AttemptsInv, Next
  PROVE  TypeOK'
<1> USE DEF TypeOK, history, bus, Fail
<1>1. ASSUME NEW e \in Endpoints, CountEndpoints(e) \/ InsertEndpoint(e) \/ Delete(e)
      PROVE  TypeOK'
  <2>1. endpoints' \in [Endpoints -> Row]
    <3>1. [endpoints EXCEPT ![e].state = "deleted"] \in [Endpoints -> Row]
      BY Rows
    <3>2. [endpoints EXCEPT ![e] = [state |-> "active", count |-> 0]] \in [Endpoints -> Row]
      BY Rows
    <3> QED
      BY <1>1, <3>1, <3>2 DEF CountEndpoints, InsertEndpoint, Delete
  <2> QED
    BY <1>1, <2>1 DEF CountEndpoints, InsertEndpoint, Delete
<1>2. ASSUME NEW e \in Endpoints, NEW active \in BOOLEAN, Update(e, active)
      PROVE  TypeOK'
  <2>1. endpoints' \in [Endpoints -> Row]
    <3>1. [endpoints EXCEPT ![e].state = "inactive"] \in [Endpoints -> Row]
      BY Rows
    <3>2. [endpoints EXCEPT ![e] = [state |-> "active", count |-> 0]] \in [Endpoints -> Row]
      BY Rows
    <3> QED
      BY <1>2, <3>1, <3>2 DEF Update
  <2>2. lapsed' \subseteq Endpoints /\ overtaken' \subseteq Endpoints
    BY <1>2 DEF Update, Overtake
  <2>3. /\ changes' \in Nat
        /\ UNCHANGED <<creating, emitted, todo, jobs, requests, accepted, disturbed, failures>>
    BY <1>2 DEF Update
  <2> QED
    BY <2>1, <2>2, <2>3
<1>3. ASSUME NEW x \in Events, Emit(x) \/ EmissionFails(x)
      PROVE  TypeOK'
  <2>1. todo' \subseteq Events \X Endpoints
    <3>1. CASE Emit(x)
      BY <3>1 DEF Emit
    <3>2. CASE EmissionFails(x)
      BY <3>2 DEF EmissionFails
    <3> QED
      BY <1>3, <3>1, <3>2
  <2>2. failures' \in Nat
    BY <1>3 DEF Emit, EmissionFails
  <2> QED
    BY <1>3, <2>1, <2>2 DEF Emit, EmissionFails
<1>4. ASSUME NEW x \in Events, NEW e \in Endpoints,
             AddJob(x, e) \/ Work(x, e) \/ WorkerDies(x, e)
      PROVE  TypeOK'
  <2>1. CASE AddJob(x, e)
    <3>1. Move(x, e, "waiting") /\ "waiting" \in Places
      BY <2>1 DEF AddJob, Move, Places
    <3> QED
      BY <2>1, <3>1, Jobs DEF AddJob
  <2>2. CASE Start(x, e)
    <3>1. requests' \in [Events -> [Endpoints -> Nat]]
      BY <2>2 DEF Start
    <3> QED
      BY <2>2, <3>1, Jobs DEF Start, Places
  <2>3. CASE Accept(x, e)
    <3>1. accepted' \in [Events -> [Endpoints -> Nat]]
      BY <2>3 DEF Accept
    <3>2. "reset" \in Places /\ "count" \in Places
      BY DEF Places
    <3>3. jobs' \in [Events -> [Endpoints -> Job]]
      BY <2>3, <3>2, Jobs DEF Accept
    <3>4. disturbed' \subseteq Events \X Endpoints /\ failures' \in Nat
      BY <2>3 DEF Accept
    <3> QED
      BY <2>3, <3>1, <3>3, <3>4 DEF Accept
  <2>4. CASE Refuse(x, e)
    BY <2>4, Jobs DEF Refuse, Places
  <2>5. CASE ResetFailureCount(x, e)
    <3>1. "completed" \in Places
      BY DEF Places
    <3>2. jobs' \in [Events -> [Endpoints -> Job]]
      BY <2>5, <3>1, Jobs DEF ResetFailureCount
    <3>3. endpoints' \in [Endpoints -> Row]
      <4>1. [endpoints EXCEPT ![e].count = 0] \in [Endpoints -> Row]
        BY Rows
      <4> QED
        BY <2>5, <4>1 DEF ResetFailureCount, Reset
    <3>4. lapsed' \subseteq Endpoints /\ overtaken' \subseteq Endpoints /\ failures' \in Nat
      BY <2>5 DEF ResetFailureCount, Reset, Overtake
    <3>5. UNCHANGED <<creating, emitted, todo, requests, accepted, disturbed, changes>>
      BY <2>5 DEF ResetFailureCount
    <3> QED
      BY <3>2, <3>3, <3>4, <3>5
  <2>6. CASE IncrementFailureCount(x, e)
    <3>1. jobs[x][e].made < Attempts
      BY <2>6 DEF IncrementFailureCount, AttemptsInv
    <3>2. "deactivate" \in Places
      BY DEF Places
    <3>3. jobs' \in [Events -> [Endpoints -> Job]]
      BY <2>6, <3>1, <3>2, Jobs DEF IncrementFailureCount
    <3>4. endpoints' \in [Endpoints -> Row] /\ failures' \in Nat
      <4>1. [endpoints EXCEPT ![e].count = @ + 1] \in [Endpoints -> Row]
        BY Rows
      <4>2. endpoints' = endpoints \/ endpoints' = [endpoints EXCEPT ![e].count = @ + 1]
        BY <2>6 DEF IncrementFailureCount
      <4>3. failures' = failures \/ failures' = failures + 1
        BY <2>6 DEF IncrementFailureCount
      <4>4. endpoints \in [Endpoints -> Row]
        OBVIOUS
      <4>5. endpoints' \in [Endpoints -> Row]
        BY <4>1, <4>2, <4>4
      <4>6. failures' \in Nat
        BY <4>3
      <4> QED
        BY <4>5, <4>6
    <3>5. UNCHANGED <<creating, emitted, todo, requests, accepted, disturbed, lapsed,
                      overtaken, changes>>
      BY <2>6 DEF IncrementFailureCount
    <3> QED
      BY <3>3, <3>4, <3>5
  <2>7. CASE Deactivate(x, e)
    <3>1. jobs[x][e].made < Attempts
      BY <2>7 DEF Deactivate, AttemptsInv
    <3>2. jobs' \in [Events -> [Endpoints -> Job]]
      BY <2>7, <3>1, Jobs DEF Deactivate, Places
    <3>3. endpoints' \in [Endpoints -> Row]
      <4>1. [endpoints EXCEPT ![e].state = "inactive"] \in [Endpoints -> Row]
        BY Rows
      <4> QED
        BY <2>7, <4>1 DEF Deactivate
    <3>4. lapsed' \subseteq Endpoints /\ failures' \in Nat
      BY <2>7 DEF Deactivate
    <3>5. UNCHANGED <<creating, emitted, todo, requests, accepted, disturbed, overtaken,
                      changes>>
      BY <2>7 DEF Deactivate
    <3> QED
      BY <3>2, <3>3, <3>4, <3>5
  <2>8. CASE WorkerDies(x, e)
    <3>1. jobs' \in [Events -> [Endpoints -> Job]]
      BY <2>8, Jobs DEF WorkerDies, Places
    <3> QED
      BY <2>8, <3>1 DEF WorkerDies
  <2> QED
    BY <1>4, <2>1, <2>2, <2>3, <2>4, <2>5, <2>6, <2>7, <2>8 DEF Work
<1> QED
  BY <1>1, <1>2, <1>3, <1>4 DEF Next, Owner

\* What a step does to its job, field by field.
Keeps(x, e) == /\ jobs'[x][e].made = jobs[x][e].made
               /\ jobs'[x][e].stalled = jobs[x][e].stalled
Attempted(x, e) == /\ jobs'[x][e].made = jobs[x][e].made + 1
                   /\ jobs'[x][e].stalled = jobs[x][e].stalled
                   /\ jobs'[x][e].at = IF jobs[x][e].made + 1 < Attempts
                                         THEN "waiting" ELSE "failed"

\* A step of the queue or a worker goes on with its own job alone.
LEMMA WorkOnJob ==
  ASSUME TypeOK, AttemptsInv, NEW x \in Events, NEW e \in Endpoints,
         AddJob(x, e) \/ Work(x, e) \/ WorkerDies(x, e)
  PROVE  /\ OnlyJob(x, e)
         /\ AddJob(x, e) => jobs[x][e] = NoJob /\ jobs'[x][e].at = "waiting" /\ Keeps(x, e)
         /\ Start(x, e) => jobs'[x][e].at = "request" /\ Keeps(x, e)
         /\ Accept(x, e) => jobs'[x][e].at \in {"reset", "count"} /\ Keeps(x, e)
         /\ Refuse(x, e) => jobs'[x][e].at = "count" /\ Keeps(x, e)
         /\ ResetFailureCount(x, e) => jobs'[x][e].at = "completed" /\ Keeps(x, e)
         /\ IncrementFailureCount(x, e) =>
              (jobs'[x][e].at = "deactivate" /\ Keeps(x, e)) \/ Attempted(x, e)
         /\ Deactivate(x, e) => Attempted(x, e)
         /\ WorkerDies(x, e) =>
              /\ jobs'[x][e].made = jobs[x][e].made
              /\ jobs'[x][e].stalled = TRUE
              /\ jobs'[x][e].at = IF jobs[x][e].stalled THEN "failed" ELSE "waiting"
<1>1. jobs[x][e] \in Job
  BY DEF TypeOK
<1>2. ASSUME NEW at \in Places, Move(x, e, at)
      PROVE  OnlyJob(x, e) /\ jobs'[x][e].at = at /\ Keeps(x, e)
  <2>1. jobs'[x][e] = [jobs[x][e] EXCEPT !.at = at]
    BY <1>2, Jobs DEF Move
  <2>2. OnlyJob(x, e)
    BY <1>2, Jobs
  <2> QED
    BY <1>1, <2>1, <2>2 DEF Job, Keeps
<1>3. ASSUME Throw(x, e), jobs[x][e].at \in {"count", "deactivate"}
      PROVE  OnlyJob(x, e) /\ Attempted(x, e)
  <2>1. jobs[x][e].made < Attempts
    BY <1>3 DEF AttemptsInv
  <2>2. "none" \in Places
    BY DEF Places
  <2>3. jobs'[x][e] = Thrown(jobs[x][e]) /\ OnlyJob(x, e)
    BY <1>3, <2>1, <2>2, Jobs
  <2> QED
    BY <2>3 DEF Thrown, Attempted
<1>4. WorkerDies(x, e) =>
        /\ OnlyJob(x, e)
        /\ jobs'[x][e].made = jobs[x][e].made
        /\ jobs'[x][e].stalled = TRUE
        /\ jobs'[x][e].at = IF jobs[x][e].stalled THEN "failed" ELSE "waiting"
  <2>1. "none" \in Places
    BY DEF Places
  <2> SUFFICES ASSUME WorkerDies(x, e)
               PROVE  /\ OnlyJob(x, e)
                      /\ jobs'[x][e].made = jobs[x][e].made
                      /\ jobs'[x][e].stalled = TRUE
                      /\ jobs'[x][e].at = IF jobs[x][e].stalled THEN "failed" ELSE "waiting"
    OBVIOUS
  <2>2. /\ jobs'[x][e] = [jobs[x][e] EXCEPT !.stalled = TRUE,
             !.at = IF jobs[x][e].stalled THEN "failed" ELSE "waiting"]
        /\ OnlyJob(x, e)
    BY <2>1, Jobs
  <2> QED
    BY <1>1, <2>2 DEF Job
<1>5. {"waiting", "request", "reset", "count", "deactivate", "completed"} \subseteq Places
  BY DEF Places
<1>6. AddJob(x, e) => Move(x, e, "waiting") /\ jobs[x][e] = NoJob
  BY DEF AddJob, Move, AttemptsInv
<1>7. Start(x, e) => Move(x, e, "request")
  BY DEF Start
<1>8. Accept(x, e) => Move(x, e, "reset") \/ Move(x, e, "count")
  BY DEF Accept
<1>9. Refuse(x, e) => Move(x, e, "count")
  BY DEF Refuse
<1>10. ResetFailureCount(x, e) => Move(x, e, "completed")
  BY DEF ResetFailureCount
<1>11. IncrementFailureCount(x, e) =>
         jobs[x][e].at = "count" /\ (Move(x, e, "deactivate") \/ Throw(x, e))
  BY DEF IncrementFailureCount
<1>12. Deactivate(x, e) => jobs[x][e].at = "deactivate" /\ Throw(x, e)
  BY DEF Deactivate
<1>13. /\ AddJob(x, e) => OnlyJob(x, e) /\ jobs'[x][e].at = "waiting" /\ Keeps(x, e)
       /\ Start(x, e) => OnlyJob(x, e) /\ jobs'[x][e].at = "request" /\ Keeps(x, e)
       /\ Accept(x, e) =>
            OnlyJob(x, e) /\ jobs'[x][e].at \in {"reset", "count"} /\ Keeps(x, e)
       /\ Refuse(x, e) => OnlyJob(x, e) /\ jobs'[x][e].at = "count" /\ Keeps(x, e)
       /\ ResetFailureCount(x, e) =>
            OnlyJob(x, e) /\ jobs'[x][e].at = "completed" /\ Keeps(x, e)
  BY <1>2, <1>5, <1>6, <1>7, <1>8, <1>9, <1>10
<1>14. /\ IncrementFailureCount(x, e) =>
            OnlyJob(x, e) /\ ((jobs'[x][e].at = "deactivate" /\ Keeps(x, e)) \/ Attempted(x, e))
       /\ Deactivate(x, e) => OnlyJob(x, e) /\ Attempted(x, e)
  BY <1>2, <1>3, <1>5, <1>11, <1>12
<1> QED
  BY <1>4, <1>6, <1>13, <1>14 DEF Work

\* The attempts of a job stay bounded.
LEMMA AttemptsStep ==
  ASSUME TypeOK, AttemptsInv, Next
  PROVE  AttemptsInv'
<1> DEFINE begun(at) == at \in {"request", "reset", "count", "deactivate", "completed"}
           Good(j, sent, due, out) ==
             /\ j.at \notin {"none", "failed"} => j.made < Attempts
             /\ sent <= (IF j.at = "failed" THEN Attempts ELSE j.made)
                  + (IF j.stalled THEN 1 ELSE 0) + (IF begun(j.at) THEN 1 ELSE 0)
             /\ due => j = NoJob
             /\ j.at # "none" \/ due => out
             /\ j.at = "none" => j = NoJob
<1>1. \A y \in Events, f \in Endpoints :
        Good(jobs[y][f], requests[y][f], <<y, f>> \in todo, y \in emitted)
  BY DEF AttemptsInv
<1>2. SUFFICES ASSUME NEW y \in Events, NEW f \in Endpoints
               PROVE  Good(jobs'[y][f], requests'[y][f], <<y, f>> \in todo', y \in emitted')
  BY DEF AttemptsInv
<1>3. CASE Owner
  <2>1. UNCHANGED <<jobs, requests, todo, emitted>>
    BY <1>3 DEF Owner, CountEndpoints, InsertEndpoint, Delete, Update, bus, history
  <2> QED
    BY <1>1, <2>1
<1>4. ASSUME NEW x \in Events, Emit(x) \/ EmissionFails(x)
      PROVE  Good(jobs'[y][f], requests'[y][f], <<y, f>> \in todo', y \in emitted')
  <2>1. UNCHANGED <<jobs, requests>> /\ emitted \subseteq emitted'
    BY <1>4 DEF Emit, EmissionFails, history
  <2>2. <<y, f>> \in todo' => <<y, f>> \in todo \/ (y = x /\ x \notin emitted /\ x \in emitted')
    BY <1>4 DEF Emit, EmissionFails
  <2>3. Good(jobs[y][f], requests[y][f], <<y, f>> \in todo, y \in emitted)
    BY <1>1
  <2>4. y \notin emitted => jobs[y][f] = NoJob
    BY <2>3
  <2> QED
    BY <2>1, <2>2, <2>3, <2>4
<1>5. ASSUME NEW x \in Events, NEW e \in Endpoints,
             AddJob(x, e) \/ Work(x, e) \/ WorkerDies(x, e)
      PROVE  Good(jobs'[y][f], requests'[y][f], <<y, f>> \in todo', y \in emitted')
  <2>1. /\ emitted' = emitted
        /\ todo' \subseteq todo
        /\ AddJob(x, e) => <<x, e>> \in todo /\ <<x, e>> \notin todo'
    BY <1>5 DEF AddJob, Work, Start, Accept, Refuse, ResetFailureCount,
                IncrementFailureCount, Deactivate, WorkerDies, bus
  <2>2. OnlyJob(x, e)
    BY <1>5, WorkOnJob
  <2>3. requests'[y][f] = IF Start(x, e) /\ <<y, f>> = <<x, e>>
                            THEN requests[y][f] + 1 ELSE requests[y][f]
    <3>1. CASE Start(x, e)
      BY <3>1 DEF Start, TypeOK
    <3>2. CASE ~Start(x, e)
      BY <1>5, <3>2 DEF AddJob, Work, Accept, Refuse, ResetFailureCount,
                IncrementFailureCount, Deactivate, WorkerDies, history
    <3> QED
      BY <3>1, <3>2
  <2>4. Good(jobs[y][f], requests[y][f], <<y, f>> \in todo, y \in emitted)
    BY <1>1
  <2>5. CASE <<y, f>> # <<x, e>>
    BY <2>1, <2>2, <2>3, <2>4, <2>5 DEF OnlyJob
  <2>6. CASE <<y, f>> = <<x, e>>
    <3>1. y = x /\ f = e
      BY <2>6
    <3>2. jobs[x][e] \in Job /\ jobs'[x][e] \in Job /\ requests[x][e] \in Nat
      BY TypeStep DEF TypeOK
    <3>3. /\ jobs[x][e].made \in 0..Attempts /\ jobs'[x][e].made \in 0..Attempts
          /\ jobs[x][e].stalled \in BOOLEAN /\ jobs'[x][e].stalled \in BOOLEAN
      BY <3>2 DEF Job
    <3>4. CASE AddJob(x, e)
      <4>1. jobs[x][e] = NoJob /\ jobs'[x][e].at = "waiting" /\ Keeps(x, e)
        BY <3>4, WorkOnJob
      <4>2. ~Start(x, e)
        BY <4>1 DEF Start, NoJob
      <4> QED
        BY <2>1, <2>3, <2>4, <3>1, <3>3, <3>4, <4>1, <4>2 DEF NoJob, Keeps
    <3>5. CASE ~AddJob(x, e)
      <4>1. jobs[x][e].at # "none"
        BY <1>5, <3>5 DEF Work, Start, Accept, Refuse, ResetFailureCount,
                IncrementFailureCount, Deactivate, WorkerDies, Running
      <4>2. <<x, e>> \notin todo /\ x \in emitted
        BY <2>4, <3>1, <4>1 DEF NoJob
      <4>3. SUFFICES /\ jobs'[x][e].at # "none"
                     /\ jobs'[x][e].at # "failed" => jobs'[x][e].made < Attempts
                     /\ requests'[x][e] <=
                          (IF jobs'[x][e].at = "failed" THEN Attempts ELSE jobs'[x][e].made)
                            + (IF jobs'[x][e].stalled THEN 1 ELSE 0)
                            + (IF begun(jobs'[x][e].at) THEN 1 ELSE 0)
        BY <2>1, <3>1, <4>2
      <4>4. CASE Start(x, e)
        <5>1. jobs[x][e].at = "waiting" /\ jobs'[x][e].at = "request" /\ Keeps(x, e)
          BY <1>5, <4>4, WorkOnJob DEF Start
        <5> QED
          BY <2>3, <2>4, <3>1, <3>2, <3>3, <4>4, <5>1 DEF Keeps
      <4>5. CASE Accept(x, e) \/ Refuse(x, e) \/ ResetFailureCount(x, e)
        <5>1. /\ jobs[x][e].at \in {"request", "reset"}
              /\ jobs'[x][e].at \in {"reset", "count", "completed"} /\ Keeps(x, e)
          BY <1>5, <4>5, WorkOnJob DEF Accept, Refuse, ResetFailureCount
        <5> QED
          BY <2>3, <2>4, <3>1, <3>2, <3>3, <5>1 DEF Keeps, Start
      <4>6. CASE IncrementFailureCount(x, e) \/ Deactivate(x, e)
        <5>1. /\ jobs[x][e].at \in {"count", "deactivate"}
              /\ (jobs'[x][e].at = "deactivate" /\ Keeps(x, e)) \/ Attempted(x, e)
          BY <1>5, <4>6, WorkOnJob DEF IncrementFailureCount, Deactivate
        <5>2. requests'[x][e] = requests[x][e] /\ jobs[x][e].made < Attempts
          BY <2>3, <2>4, <3>1, <5>1 DEF Start
        <5> QED
          BY <2>4, <3>1, <3>2, <3>3, <5>1, <5>2 DEF Keeps, Attempted
      <4>7. CASE WorkerDies(x, e)
        <5>1. /\ jobs[x][e].at \in {"request", "reset", "count", "deactivate"}
              /\ jobs'[x][e].made = jobs[x][e].made
              /\ jobs'[x][e].stalled = TRUE
              /\ jobs'[x][e].at = IF jobs[x][e].stalled THEN "failed" ELSE "waiting"
          BY <1>5, <4>7, WorkOnJob DEF WorkerDies, Running
        <5>2. requests'[x][e] = requests[x][e] /\ jobs[x][e].made < Attempts
          BY <2>3, <2>4, <3>1, <5>1 DEF Start
        <5> QED
          BY <2>4, <3>1, <3>2, <3>3, <5>1, <5>2
      <4> QED
        BY <1>5, <3>5, <4>4, <4>5, <4>6, <4>7 DEF Work
    <3> QED
      BY <3>1, <3>4, <3>5
  <2> QED
    BY <2>5, <2>6
<1> QED
  BY <1>3, <1>4, <1>5 DEF Next

\* A step of the queue or a worker changes at most its own endpoint's row, and
\* only the steps named below change a row at all.
LEMMA WorkOnRow ==
  ASSUME TypeOK, NEW x \in Events, NEW e \in Endpoints,
         AddJob(x, e) \/ Work(x, e) \/ WorkerDies(x, e)
  PROVE  /\ \A f \in Endpoints \ {e} : endpoints'[f] = endpoints[f]
         /\ endpoints'[e].state = endpoints[e].state \/ endpoints'[e].state = "inactive"
         /\ endpoints[e].state = "none" => endpoints'[e] = endpoints[e]
         /\ creating' = creating
         /\ \A f \in Endpoints \ {e} :
              (f \in lapsed => f \in lapsed') /\ (f \in overtaken => f \in overtaken')
<1>1. endpoints \in [Endpoints -> Row] /\ endpoints[e] \in Row
  BY DEF TypeOK
<1>2. CASE AddJob(x, e) \/ Start(x, e) \/ Accept(x, e) \/ Refuse(x, e) \/ WorkerDies(x, e)
  <2>1. UNCHANGED <<endpoints, creating, overtaken>> /\ lapsed \subseteq lapsed'
    BY <1>2 DEF AddJob, Start, Accept, Refuse, WorkerDies, history
  <2> QED
    BY <2>1
<1>3. CASE ResetFailureCount(x, e)
  <2>1. /\ \/ endpoints' = endpoints
           \/ Exists(e) /\ endpoints' = [endpoints EXCEPT ![e].count = 0]
        /\ creating' = creating
        /\ lapsed' = lapsed \/ lapsed' = lapsed \ {e}
        /\ overtaken \subseteq overtaken'
    BY <1>3 DEF ResetFailureCount, Reset, Overtake
  <2> QED
    BY <1>1, <2>1 DEF Exists, Row
<1>4. CASE IncrementFailureCount(x, e)
  <2>1. /\ \/ endpoints' = endpoints
           \/ Exists(e) /\ endpoints' = [endpoints EXCEPT ![e].count = @ + 1]
        /\ UNCHANGED <<creating, lapsed, overtaken>>
    BY <1>4 DEF IncrementFailureCount, history
  <2> QED
    BY <1>1, <2>1 DEF Exists, Row
<1>5. CASE Deactivate(x, e)
  <2>1. /\ \/ endpoints' = endpoints
           \/ Exists(e) /\ endpoints' = [endpoints EXCEPT ![e].state = "inactive"]
        /\ UNCHANGED <<creating, overtaken>>
        /\ lapsed' = lapsed \ {e} \/ lapsed' = lapsed \cup {e}
    BY <1>5 DEF Deactivate
  <2> QED
    BY <1>1, <2>1 DEF Exists, Row
<1> QED
  BY <1>2, <1>3, <1>4, <1>5 DEF Work

\* Nothing is sent to a row that is not there yet.
LEMMA CreationStep ==
  ASSUME TypeOK, AttemptsInv, CreationInv, Next
  PROVE  CreationInv'
<1>1. endpoints \in [Endpoints -> Row]
  BY DEF TypeOK
<1>2. ASSUME NEW e \in Endpoints, CountEndpoints(e) \/ InsertEndpoint(e) \/ Delete(e)
      PROVE  CreationInv'
  <2>1. UNCHANGED <<jobs, todo>>
    BY <1>2 DEF CountEndpoints, InsertEndpoint, Delete, bus
  <2>2. creating' \subseteq creating \cup {e} /\ creating' \subseteq Endpoints
    BY <1>2 DEF CountEndpoints, InsertEndpoint, Delete, TypeOK
  <2>3. /\ \A f \in Endpoints \ {e} : endpoints'[f] = endpoints[f]
        /\ endpoints'[e].state = "none" => endpoints[e].state = "none"
        /\ e \in creating' => endpoints'[e].state = "none"
    <3>1. CASE CountEndpoints(e)
      BY <3>1 DEF CountEndpoints
    <3>2. CASE InsertEndpoint(e)
      <4>1. /\ endpoints' = [endpoints EXCEPT ![e] = [state |-> "active", count |-> 0]]
            /\ e \notin creating' /\ endpoints[e].state = "none"
        BY <3>2 DEF InsertEndpoint, CreationInv
      <4> QED
        BY <1>1, <4>1
    <3>3. CASE Delete(e)
      <4>1. /\ endpoints' = [endpoints EXCEPT ![e].state = "deleted"]
            /\ creating' = creating /\ endpoints[e].state # "none"
        BY <3>3 DEF Delete, Exists
      <4>2. e \notin creating
        BY <4>1 DEF CreationInv
      <4>3. endpoints[e] \in Row
        BY <1>1
      <4> QED
        BY <1>1, <4>1, <4>2, <4>3 DEF Row
    <3> QED
      BY <1>2, <3>1, <3>2, <3>3
  <2> QED
    BY <2>1, <2>2, <2>3 DEF CreationInv
<1>3. ASSUME NEW e \in Endpoints, NEW active \in BOOLEAN, Update(e, active)
      PROVE  CreationInv'
  <2>1. UNCHANGED <<jobs, todo, creating>>
    BY <1>3 DEF Update, bus
  <2>2. /\ \A f \in Endpoints \ {e} : endpoints'[f] = endpoints[f]
        /\ endpoints[e].state # "none" /\ endpoints'[e].state # "none"
    BY <1>1, <1>3 DEF Update, Exists, Row
  <2> QED
    BY <2>1, <2>2 DEF CreationInv, TypeOK
<1>4. ASSUME NEW x \in Events, Emit(x) \/ EmissionFails(x)
      PROVE  CreationInv'
  <2>1. UNCHANGED <<endpoints, creating, jobs>>
    BY <1>4 DEF Emit, EmissionFails
  <2>2. \A y \in Events, f \in Endpoints :
          <<y, f>> \in todo' => <<y, f>> \in todo \/ endpoints[f].state = "active"
    BY <1>4 DEF Emit, EmissionFails
  <2> QED
    BY <2>1, <2>2 DEF CreationInv
<1>5. ASSUME NEW x \in Events, NEW e \in Endpoints,
             AddJob(x, e) \/ Work(x, e) \/ WorkerDies(x, e)
      PROVE  CreationInv'
  <2>1. todo' \subseteq todo
    BY <1>5 DEF AddJob, Work, Start, Accept, Refuse, ResetFailureCount,
                IncrementFailureCount, Deactivate, WorkerDies, bus
  <2>2. <<x, e>> \in todo \/ jobs[x][e].at # "none"
    BY <1>5 DEF AddJob, Work, Start, Accept, Refuse, ResetFailureCount,
                IncrementFailureCount, Deactivate, WorkerDies, Running
  <2>3. endpoints[e].state # "none"
    BY <2>2 DEF CreationInv
  <2>4. OnlyJob(x, e)
    BY <1>5, WorkOnJob
  <2>5. /\ creating' = creating
        /\ \A f \in Endpoints \ {e} : endpoints'[f] = endpoints[f]
        /\ endpoints'[e].state # "none"
    BY <1>5, <2>3, WorkOnRow
  <2>6. e \notin creating
    BY <2>3 DEF CreationInv
  <2> QED
    BY <2>1, <2>4, <2>5, <2>6 DEF CreationInv, OnlyJob, TypeOK
<1> QED
  BY <1>2, <1>3, <1>4, <1>5 DEF Next, Owner

\* A failing endpoint is being deactivated, unless that UPDATE was lost.
LEMMA FailingStep ==
  ASSUME TypeOK, AttemptsInv, FailingIsDeactivated, Next
  PROVE  FailingIsDeactivated'
<1> DEFINE Failing(e) == endpoints[e].state = "active"
                           /\ endpoints[e].count >= MaxConsecutiveFailures
<1>1. SUFFICES ASSUME NEW g \in Endpoints, Failing(g)'
               PROVE  Deactivating(g)' \/ g \in lapsed'
  BY DEF FailingIsDeactivated
<1>2. endpoints \in [Endpoints -> Row] /\ endpoints[g] \in Row
  BY DEF TypeOK
<1>3. Failing(g) => Deactivating(g) \/ g \in lapsed
  BY DEF FailingIsDeactivated
<1>4. ASSUME NEW e \in Endpoints, CountEndpoints(e) \/ InsertEndpoint(e) \/ Delete(e)
      PROVE  Deactivating(g)' \/ g \in lapsed'
  <2>1. UNCHANGED <<jobs, lapsed>>
    BY <1>4 DEF CountEndpoints, InsertEndpoint, Delete, history
  <2>2. \/ endpoints' = endpoints
        \/ endpoints' = [endpoints EXCEPT ![e] = [state |-> "active", count |-> 0]]
        \/ endpoints' = [endpoints EXCEPT ![e].state = "deleted"]
    BY <1>4 DEF CountEndpoints, InsertEndpoint, Delete
  <2>3. endpoints'[g] = endpoints[g]
    BY <1>1, <1>2, <2>2 DEF Row
  <2> QED
    BY <1>1, <1>3, <2>1, <2>3 DEF Deactivating
<1>5. ASSUME NEW e \in Endpoints, NEW active \in BOOLEAN, Update(e, active)
      PROVE  Deactivating(g)' \/ g \in lapsed'
  <2>1. /\ jobs' = jobs
        /\ lapsed' = lapsed \/ lapsed' = lapsed \ {e}
        /\ \/ endpoints' = [endpoints EXCEPT ![e] = [state |-> "active", count |-> 0]]
           \/ endpoints' = [endpoints EXCEPT ![e].state = "inactive"]
    BY <1>5 DEF Update
  <2>2. endpoints'[g] = endpoints[g] /\ g # e
    BY <1>1, <1>2, <2>1 DEF Row
  <2> QED
    BY <1>1, <1>3, <2>1, <2>2 DEF Deactivating
<1>6. ASSUME NEW x \in Events, Emit(x) \/ EmissionFails(x)
      PROVE  Deactivating(g)' \/ g \in lapsed'
  <2>1. UNCHANGED <<endpoints, jobs, lapsed>>
    BY <1>6 DEF Emit, EmissionFails, history
  <2> QED
    BY <1>1, <1>3, <2>1 DEF Deactivating
<1>7. ASSUME NEW x \in Events, NEW e \in Endpoints,
             AddJob(x, e) \/ Work(x, e) \/ WorkerDies(x, e)
      PROVE  Deactivating(g)' \/ g \in lapsed'
  <2>1. OnlyJob(x, e)
    BY <1>7, WorkOnJob
  <2>2. CASE g # e
    <3>1. endpoints'[g] = endpoints[g] /\ (g \in lapsed => g \in lapsed')
      BY <1>7, <2>2, WorkOnRow
    <3>2. Deactivating(g)' <=> Deactivating(g)
      BY <2>1, <2>2, Deciders
    <3> QED
      BY <1>1, <1>3, <3>1, <3>2
  <2>3. CASE g = e
    <3>1. CASE AddJob(x, e) \/ Start(x, e) \/ Accept(x, e) \/ Refuse(x, e)
      <4>1. UNCHANGED <<endpoints, lapsed>>
        BY <3>1 DEF AddJob, Start, Accept, Refuse, history
      <4>2. jobs[x][e].at # "deactivate"
        <5>1. AddJob(x, e) => jobs[x][e] = NoJob
          BY <1>7, WorkOnJob
        <5> QED
          BY <3>1, <5>1 DEF NoJob, Start, Accept, Refuse
      <4>3. Deactivating(e) => Deactivating(e)'
        BY <2>1, <4>2, Deciders
      <4> QED
        BY <1>1, <1>3, <2>3, <4>1, <4>3
    <3>2. CASE ResetFailureCount(x, e)
      <4>1. jobs[x][e].at # "deactivate"
        BY <3>2 DEF ResetFailureCount
      <4>2. Deactivating(e) => Deactivating(e)'
        BY <2>1, <4>1, Deciders
      <4>3. endpoints' = endpoints /\ lapsed' = lapsed
        <5>1. \/ endpoints' = [endpoints EXCEPT ![e].count = 0]
              \/ endpoints' = endpoints /\ lapsed' = lapsed
          BY <3>2 DEF ResetFailureCount, Reset
        <5> QED
          BY <1>1, <1>2, <2>3, <5>1 DEF Row
      <4> QED
        BY <1>1, <1>3, <2>3, <4>2, <4>3
    <3>3. CASE IncrementFailureCount(x, e)
      <4>1. jobs[x][e].at # "deactivate" /\ lapsed' = lapsed
        BY <3>3 DEF IncrementFailureCount, history
      <4>2. Deactivating(e) => Deactivating(e)'
        BY <2>1, <4>1, Deciders
      <4>3. endpoints' = endpoints \/ Move(x, e, "deactivate")
        BY <1>1, <2>3, <3>3 DEF IncrementFailureCount
      <4>4. Move(x, e, "deactivate") => Deactivating(e)'
        <5>1. jobs \in [Events -> [Endpoints -> Job]] /\ jobs[x][e] \in Job
          BY DEF TypeOK
        <5>2. Move(x, e, "deactivate") => jobs'[x][e].at = "deactivate"
          BY <5>1 DEF Move, Job
        <5> QED
          BY <5>2 DEF Deactivating
      <4> QED
        BY <1>1, <1>3, <2>3, <4>1, <4>2, <4>3, <4>4
    <3>4. CASE Deactivate(x, e)
      <4>1. \/ lapsed' = lapsed \cup {e}
            \/ endpoints'[e].state # "active"
        BY <1>2, <2>3, <3>4 DEF Deactivate, Exists, Row
      <4> QED
        BY <1>1, <2>3, <4>1
    <3>5. CASE WorkerDies(x, e)
      <4>1. /\ endpoints' = endpoints /\ lapsed \subseteq lapsed'
            /\ jobs[x][e].at = "deactivate" => e \in lapsed'
        BY <3>5 DEF WorkerDies
      <4>2. jobs[x][e].at # "deactivate" => (Deactivating(e) => Deactivating(e)')
        BY <2>1, Deciders
      <4> QED
        BY <1>1, <1>3, <2>3, <4>1, <4>2
    <3> QED
      BY <1>7, <3>1, <3>2, <3>3, <3>4, <3>5 DEF Work
  <2> QED
    BY <2>2, <2>3
<1> QED
  BY <1>4, <1>5, <1>6, <1>7 DEF Next, Owner

\* Whoever takes the counter below the limit while a worker decides is recorded.
LEMMA DecisionStep ==
  ASSUME TypeOK, AttemptsInv, CreationInv, DecisionStands, Next
  PROVE  DecisionStands'
<1> DEFINE Enough(e) == endpoints[e].count >= MaxConsecutiveFailures \/ e \in overtaken
<1>1. SUFFICES ASSUME NEW g \in Endpoints, Exists(g)', Deactivating(g)'
               PROVE  Enough(g)'
  BY DEF DecisionStands
<1>2. endpoints \in [Endpoints -> Row] /\ endpoints[g] \in Row
  BY DEF TypeOK
<1>3. Exists(g) /\ Deactivating(g) => Enough(g)
  BY DEF DecisionStands
<1>4. ASSUME NEW e \in Endpoints, CountEndpoints(e) \/ InsertEndpoint(e) \/ Delete(e)
      PROVE  Enough(g)'
  <2>1. jobs' = jobs /\ overtaken' = overtaken
    BY <1>4 DEF CountEndpoints, InsertEndpoint, Delete, history
  <2>2. Deactivating(g)
    BY <1>1, <2>1 DEF Deactivating
  <2>3. endpoints[g].state # "none" /\ g \notin creating
    BY <2>2 DEF CreationInv, Deactivating
  <2>4. \/ endpoints' = endpoints
        \/ g # e /\ endpoints' = [endpoints EXCEPT ![e] = [state |-> "active", count |-> 0]]
        \/ endpoints' = [endpoints EXCEPT ![e].state = "deleted"]
    BY <1>4, <2>3 DEF CountEndpoints, InsertEndpoint, Delete
  <2>5. endpoints'[g] = endpoints[g]
    BY <1>1, <1>2, <2>4 DEF Exists, Row
  <2> QED
    BY <1>1, <1>3, <2>1, <2>2, <2>5 DEF Exists
<1>5. ASSUME NEW e \in Endpoints, NEW active \in BOOLEAN, Update(e, active)
      PROVE  Enough(g)'
  <2>1. /\ jobs' = jobs /\ Exists(e)
        /\ \/ /\ endpoints' = [endpoints EXCEPT ![e] = [state |-> "active", count |-> 0]]
              /\ Overtake(e)
           \/ endpoints' = [endpoints EXCEPT ![e].state = "inactive"] /\ overtaken' = overtaken
    BY <1>5 DEF Update
  <2>2. Deactivating(g) /\ overtaken \subseteq overtaken'
    BY <1>1, <2>1 DEF Deactivating, Overtake
  <2>3. CASE g # e
    BY <1>1, <1>2, <1>3, <2>1, <2>2, <2>3 DEF Exists
  <2>4. CASE g = e
    <3>1. Exists(g) /\ Enough(g)
      BY <1>3, <2>1, <2>2, <2>4
    <3>2. CASE endpoints' = [endpoints EXCEPT ![e].state = "inactive"]
      BY <1>2, <2>2, <2>4, <3>1, <3>2 DEF Row
    <3>3. CASE Overtake(e)
      BY <2>2, <2>4, <3>3 DEF Overtake
    <3> QED
      BY <2>1, <3>2, <3>3
  <2> QED
    BY <2>3, <2>4
<1>6. ASSUME NEW x \in Events, Emit(x) \/ EmissionFails(x)
      PROVE  Enough(g)'
  <2>1. UNCHANGED <<endpoints, jobs, overtaken>>
    BY <1>6 DEF Emit, EmissionFails, history
  <2> QED
    BY <1>1, <1>3, <2>1 DEF Deactivating, Exists
<1>7. ASSUME NEW x \in Events, NEW e \in Endpoints,
             AddJob(x, e) \/ Work(x, e) \/ WorkerDies(x, e)
      PROVE  Enough(g)'
  <2>1. OnlyJob(x, e)
    BY <1>7, WorkOnJob
  <2>2. CASE g # e
    <3>1. endpoints'[g] = endpoints[g] /\ (g \in overtaken => g \in overtaken')
      BY <1>7, <2>2, WorkOnRow
    <3>2. Deactivating(g)
      BY <1>1, <2>1, <2>2, Deciders
    <3> QED
      BY <1>1, <1>3, <3>1, <3>2 DEF Exists
  <2>3. CASE g = e /\ jobs'[x][e].at # "deactivate"
    <3>1. Deactivating(e)
      BY <1>1, <2>1, <2>3, Deciders
    <3>2. Exists(e)
      <4>1. \/ endpoints[e].state = endpoints'[e].state
            \/ endpoints'[e].state = "inactive"
        BY <1>7, WorkOnRow
      <4>2. endpoints[e].state = "none" => endpoints'[e] = endpoints[e]
        BY <1>7, WorkOnRow
      <4>3. endpoints[e].state = "deleted" => endpoints' = endpoints
        BY <1>7 DEF Work, AddJob, Start, Accept, Refuse, WorkerDies, ResetFailureCount,
                    Reset, IncrementFailureCount, Deactivate, Exists
      <4> QED
        BY <1>1, <1>2, <2>3, <4>1, <4>2, <4>3 DEF Exists, Row
    <3>3. Enough(e)
      BY <1>3, <2>3, <3>1, <3>2
    <3>4. CASE ResetFailureCount(x, e)
      <4>1. \/ endpoints' = endpoints /\ overtaken' = overtaken
            \/ Overtake(e)
        BY <3>4 DEF ResetFailureCount, Reset
      <4> QED
        BY <2>3, <3>1, <3>3, <4>1 DEF Overtake
    <3>5. CASE IncrementFailureCount(x, e)
      <4>1. /\ overtaken' = overtaken
            /\ \/ endpoints' = endpoints
               \/ endpoints' = [endpoints EXCEPT ![e].count = @ + 1]
        BY <3>5 DEF IncrementFailureCount, history
      <4>2. endpoints[e].count \in Nat /\ MaxConsecutiveFailures \in Nat
        BY <1>2, <2>3, WebhooksAssumption DEF Row
      <4>3. endpoints'[e].count \in {endpoints[e].count, endpoints[e].count + 1}
        BY <1>2, <2>3, <4>1 DEF Row
      <4> QED
        BY <2>3, <3>3, <4>1, <4>2, <4>3
    <3>6. CASE ~ResetFailureCount(x, e) /\ ~IncrementFailureCount(x, e)
      <4>1. /\ overtaken' = overtaken
            /\ \/ endpoints' = endpoints
               \/ endpoints' = [endpoints EXCEPT ![e].state = "inactive"]
        BY <1>7, <3>6 DEF Work, AddJob, Start, Accept, Refuse, WorkerDies, Deactivate, history
      <4>2. endpoints'[e].count = endpoints[e].count
        BY <1>2, <2>3, <4>1 DEF Row
      <4> QED
        BY <2>3, <3>3, <4>1, <4>2
    <3> QED
      BY <3>4, <3>5, <3>6
  <2>4. CASE g = e /\ jobs'[x][e].at = "deactivate"
    <3>1. IncrementFailureCount(x, e)
      BY <1>7, <2>4, WorkOnJob DEF Work, Attempted
    <3>2. ~Throw(x, e)
      <4> SUFFICES ASSUME Throw(x, e) PROVE FALSE
        OBVIOUS
      <4>1. jobs[x][e].made < Attempts
        BY <3>1 DEF IncrementFailureCount, AttemptsInv
      <4>2. "none" \in Places
        BY DEF Places
      <4>3. jobs'[x][e] = Thrown(jobs[x][e])
        BY <4>1, <4>2, Jobs
      <4> QED
        BY <2>4, <4>3 DEF Thrown
    <3>3. endpoints'[e].count >= MaxConsecutiveFailures
      BY <3>1, <3>2 DEF IncrementFailureCount
    <3> QED
      BY <2>4, <3>3
  <2> QED
    BY <2>2, <2>3, <2>4
<1> QED
  BY <1>4, <1>5, <1>6, <1>7 DEF Next, Owner

\* An event is taken when its job goes on to the reset, and not again.
LEMMA AcceptedStep ==
  ASSUME TypeOK, AttemptsInv, AcceptedOnce, Next
  PROVE  AcceptedOnce'
<1> DEFINE Once(j, n) == n = IF j.at \in {"reset", "completed"} THEN 1 ELSE 0
<1>1. SUFFICES ASSUME NEW y \in Events, NEW f \in Endpoints, <<y, f>> \notin disturbed'
               PROVE  Once(jobs'[y][f], accepted'[y][f])
  BY DEF AcceptedOnce
<1>2. <<y, f>> \notin disturbed => Once(jobs[y][f], accepted[y][f])
  BY DEF AcceptedOnce
<1>3. CASE Owner
  <2>1. UNCHANGED <<jobs, accepted, disturbed>>
    BY <1>3 DEF Owner, CountEndpoints, InsertEndpoint, Delete, Update, history
  <2> QED
    BY <1>1, <1>2, <2>1
<1>4. ASSUME NEW x \in Events, Emit(x) \/ EmissionFails(x)
      PROVE  Once(jobs'[y][f], accepted'[y][f])
  <2>1. UNCHANGED <<jobs, accepted, disturbed>>
    BY <1>4 DEF Emit, EmissionFails, history
  <2> QED
    BY <1>1, <1>2, <2>1
<1>5. ASSUME NEW x \in Events, NEW e \in Endpoints,
             AddJob(x, e) \/ Work(x, e) \/ WorkerDies(x, e)
      PROVE  Once(jobs'[y][f], accepted'[y][f])
  <2>1. disturbed \subseteq disturbed'
    BY <1>5 DEF AddJob, Work, Start, Accept, Refuse, ResetFailureCount,
                IncrementFailureCount, Deactivate, WorkerDies, history
  <2>2. Once(jobs[y][f], accepted[y][f]) /\ accepted[y][f] \in Nat
    BY <1>1, <1>2, <2>1 DEF TypeOK
  <2>3. OnlyJob(x, e)
    BY <1>5, WorkOnJob
  <2>4. CASE Accept(x, e)
    <3>1. accepted' = [accepted EXCEPT ![x][e] = @ + 1]
      BY <2>4 DEF Accept
    <3>2. CASE <<y, f>> = <<x, e>>
      <4>1. y = x /\ f = e
        BY <3>2
      <4>2. accepted'[y][f] = 1
        BY <2>2, <2>4, <3>1, <4>1 DEF Accept, TypeOK
      <4>3. Move(x, e, "reset")
        BY <1>1, <2>4, <4>1 DEF Accept
      <4>4. jobs'[x][e].at = "reset"
        BY <4>3 DEF Move, TypeOK, Job
      <4> QED
        BY <4>1, <4>2, <4>4
    <3>3. CASE <<y, f>> # <<x, e>>
      <4>1. accepted'[y][f] = accepted[y][f]
        BY <3>1, <3>3 DEF TypeOK
      <4> QED
        BY <2>2, <2>3, <3>3, <4>1 DEF OnlyJob
    <3> QED
      BY <3>2, <3>3
  <2>5. CASE ~Accept(x, e)
    <3>1. accepted' = accepted
      BY <1>5, <2>5 DEF AddJob, Work, Start, Refuse, ResetFailureCount,
                        IncrementFailureCount, Deactivate, WorkerDies, history
    <3>2. CASE <<y, f>> # <<x, e>>
      BY <2>2, <2>3, <3>1, <3>2 DEF OnlyJob
    <3>3. CASE <<y, f>> = <<x, e>>
      <4>1. y = x /\ f = e
        BY <3>3
      <4>2. ~WorkerDies(x, e)
        BY <1>1, <4>1 DEF WorkerDies
      <4>3. \/ /\ jobs[x][e].at \in {"reset", "completed"}
               /\ jobs'[x][e].at \in {"reset", "completed"}
            \/ /\ jobs[x][e].at \notin {"reset", "completed"}
               /\ jobs'[x][e].at \notin {"reset", "completed"}
        <5>1. AddJob(x, e) =>
                jobs[x][e].at = "none" /\ jobs'[x][e].at = "waiting"
          <6>1. AddJob(x, e) => jobs[x][e] = NoJob /\ jobs'[x][e].at = "waiting"
            BY <1>5, WorkOnJob
          <6> QED
            BY <6>1 DEF NoJob
        <5>2. /\ Start(x, e) =>
                   jobs[x][e].at = "waiting" /\ jobs'[x][e].at = "request"
              /\ Refuse(x, e) =>
                   jobs[x][e].at = "request" /\ jobs'[x][e].at = "count"
              /\ ResetFailureCount(x, e) =>
                   jobs[x][e].at = "reset" /\ jobs'[x][e].at = "completed"
          BY <1>5, WorkOnJob DEF Start, Refuse, ResetFailureCount
        <5>3. IncrementFailureCount(x, e) \/ Deactivate(x, e) =>
                /\ jobs[x][e].at \in {"count", "deactivate"}
                /\ jobs'[x][e].at \in {"deactivate", "waiting", "failed"}
          BY <1>5, WorkOnJob DEF IncrementFailureCount, Deactivate, Attempted
        <5> QED
          BY <1>5, <2>5, <4>2, <5>1, <5>2, <5>3 DEF Work
      <4> QED
        BY <2>2, <3>1, <4>1, <4>3
    <3> QED
      BY <3>2, <3>3
  <2> QED
    BY <2>4, <2>5
<1> QED
  BY <1>3, <1>4, <1>5 DEF Next

-----------------------------------------------------------------------------
\* The invariant holds at the start.
LEMMA Initially == Init => IInv
<1> SUFFICES ASSUME Init PROVE IInv
  OBVIOUS
<1>1. TypeOK
  <2>1. NoJob \in Job
    BY DEF NoJob, Job, Places
  <2>2. [state |-> "none", count |-> 0] \in Row
    BY DEF Row
  <2> HIDE DEF NoJob
  <2> QED
    BY <2>1, <2>2 DEF Init, TypeOK
<1>2. AttemptsInv /\ CreationInv
  BY DEF Init, AttemptsInv, CreationInv, NoJob
<1>3. FailingIsDeactivated /\ DecisionStands /\ AcceptedOnce
  BY DEF Init, FailingIsDeactivated, DecisionStands, AcceptedOnce, Exists, NoJob
<1> QED
  BY <1>1, <1>2, <1>3 DEF IInv

\* And every step keeps it.
LEMMA Inductive == IInv /\ [Next]_vars => IInv'
<1> SUFFICES ASSUME IInv, [Next]_vars PROVE IInv'
  OBVIOUS
<1>1. CASE Next
  BY <1>1, TypeStep, AttemptsStep, CreationStep, FailingStep, DecisionStep, AcceptedStep
     DEF IInv
<1>2. CASE UNCHANGED vars
  <2>1. UNCHANGED <<endpoints, creating, emitted, todo, jobs, requests, accepted, disturbed,
                    lapsed, overtaken, failures, changes>>
    BY <1>2 DEF vars, bus, history
  <2>2. TypeOK' /\ AttemptsInv' /\ CreationInv'
    BY <2>1 DEF IInv, TypeOK, AttemptsInv, CreationInv
  <2>3. FailingIsDeactivated' /\ DecisionStands' /\ AcceptedOnce'
    BY <2>1 DEF IInv, FailingIsDeactivated, DecisionStands, AcceptedOnce, Deactivating, Exists
  <2> QED
    BY <2>2, <2>3 DEF IInv
<1> QED
  BY <1>1, <1>2

\* Spec keeps the inductive invariant.
THEOREM WebhooksInvariant == Spec => []IInv
BY Initially, Inductive, PTL DEF Spec

\* Columns and jobs keep their types, for any number of workers and failures.
THEOREM TypeCorrect == Spec => []TypeOK
<1>1. IInv => TypeOK
  BY DEF IInv
<1> QED
  BY <1>1, WebhooksInvariant, PTL

\* An endpoint at its limit of failures does not stay active: some worker is
\* about to deactivate it, or the UPDATE that would have done so was lost.
THEOREM FailingEndpointsAreDeactivated == Spec => []FailingIsDeactivated
<1>1. IInv => FailingIsDeactivated
  BY DEF IInv
<1> QED
  BY <1>1, WebhooksInvariant, PTL

\* Only a success or the owner can make a decision to deactivate stale.
THEOREM DecisionsStand == Spec => []DecisionStands
<1>1. IInv => DecisionStands
  BY DEF IInv
<1> QED
  BY <1>1, WebhooksInvariant, PTL

\* The errors the channel swallows never make a taken event a retry.
THEOREM UndisturbedEventsAreAcceptedOnce == Spec => []AcceptedOnce
<1>1. IInv => AcceptedOnce
  BY DEF IInv
<1> QED
  BY <1>1, WebhooksInvariant, PTL

\* Requests per job are bounded by its attempts and one stall.
THEOREM RequestsAreBounded == Spec => []RetriesEnd
<1>1. IInv => RetriesEnd
  <2> SUFFICES ASSUME IInv, NEW x \in Events, NEW e \in Endpoints
               PROVE  requests[x][e] <= Attempts + (IF jobs[x][e].stalled THEN 1 ELSE 0)
    BY DEF RetriesEnd
  <2>1. jobs[x][e] \in Job /\ requests[x][e] \in Nat
    BY DEF IInv, TypeOK
  <2>2. jobs[x][e].made \in 0..Attempts
    BY <2>1 DEF Job
  <2> DEFINE once == IF jobs[x][e].stalled THEN 1 ELSE 0
             begun == IF jobs[x][e].at \in
                           {"request", "reset", "count", "deactivate", "completed"}
                        THEN 1 ELSE 0
  <2>3. /\ jobs[x][e].at \notin {"none", "failed"} => jobs[x][e].made < Attempts
        /\ jobs[x][e].at = "none" => jobs[x][e].made = 0
        /\ requests[x][e] <= (IF jobs[x][e].at = "failed" THEN Attempts ELSE jobs[x][e].made)
             + once + begun
    <3>1. AttemptsInv
      BY DEF IInv
    <3>2. jobs[x][e].at = "none" => jobs[x][e] = NoJob
      BY <3>1 DEF AttemptsInv
    <3>3. jobs[x][e].at = "none" => jobs[x][e].made = 0
      BY <3>2 DEF NoJob
    <3> QED
      BY <3>1, <3>3 DEF AttemptsInv
  <2>4. /\ once \in {0, 1} /\ begun \in {0, 1}
        /\ jobs[x][e].at \in {"none", "failed"} => begun = 0
    OBVIOUS
  <2> HIDE DEF once, begun
  <2>5. requests[x][e] <= Attempts + once
    BY <2>1, <2>2, <2>3, <2>4
  <2> QED
    BY <2>5 DEF once
<1> QED
  BY <1>1, WebhooksInvariant, PTL
=============================================================================
