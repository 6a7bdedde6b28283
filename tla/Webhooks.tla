------------------------------ MODULE Webhooks ------------------------------
(***************************************************************************)
(* Delivery of events to the webhook endpoints of a party.  The bus adds a *)
(* job per active endpoint to a queue; workers send requests, count the    *)
(* failures in a row on the endpoint's row and deactivate it at the limit; *)
(* the owner reactivates, pauses or deletes it meanwhile.  The row is      *)
(* written by single UPDATEs, the decision to deactivate is taken from the *)
(* value one of them returned.                                             *)
(*                                                                         *)
(* BullMQ is external: a job whose processor throws is retried until       *)
(* Attempts are made, one whose worker died is given to another once.      *)
(***************************************************************************)
EXTENDS Integers, FiniteSets

CONSTANTS Events,
          Endpoints,     \* ids of rows; a deleted id is not used again
          MaxConsecutiveFailures,
          Attempts,      \* attempts of defaultJobOptions
          Concurrency,   \* jobs that workers process at once
          MaxWebhooks,   \* MAX_WEBHOOKS_PER_USER
          MaxFailures,   \* bound: lost answers, failed statements, dead workers
          MaxChanges     \* bound: requests of the owner after creation

ASSUME WebhooksAssumption ==
  /\ MaxConsecutiveFailures \in Nat \ {0}
  /\ Attempts \in Nat \ {0}
  /\ Concurrency \in Nat \ {0}
  /\ MaxWebhooks \in Nat
  /\ MaxFailures \in Nat
  /\ MaxChanges \in Nat

VARIABLES
  endpoints,  \* rows of webhook_endpoints by id: none, or deleted, or the row
  creating,   \* POST /webhooks that passed the count
  emitted,    \* events the bus has read the endpoints for
  todo,       \* <<x, e>>: the bus has yet to add the job of event x for endpoint e
  jobs,       \* jobs[x][e]: the job of event x for endpoint e
  requests,   \* requests[x][e]: requests sent for the job
  accepted,   \* accepted[x][e]: times the receiver took the event (2xx)
  disturbed,  \* history: jobs with a lost answer or a dead worker
  lapsed,     \* history: endpoints whose deactivation was not carried out
  overtaken,  \* history: endpoints reset while a deactivation was decided
  failures, changes

history == <<requests, accepted, disturbed, lapsed, overtaken>>
bus == <<emitted, todo>>
vars == <<endpoints, creating, bus, jobs, history, failures, changes>>

Exists(e) == endpoints[e].state \in {"active", "inactive"}
Existing == {e \in Endpoints : Exists(e)}
NoJob == [at |-> "none", made |-> 0, stalled |-> FALSE]
Running == {j \in Events \X Endpoints :
              jobs[j[1]][j[2]].at \in {"request", "reset", "count", "deactivate"}}
Deactivating(e) == \E x \in Events : jobs[x][e].at = "deactivate"

Init ==
  /\ endpoints = [e \in Endpoints |-> [state |-> "none", count |-> 0]]
  /\ creating = {}
  /\ emitted = {}
  /\ todo = {}
  /\ jobs = [x \in Events |-> [e \in Endpoints |-> NoJob]]
  /\ requests = [x \in Events |-> [e \in Endpoints |-> 0]]
  /\ accepted = [x \in Events |-> [e \in Endpoints |-> 0]]
  /\ disturbed = {}
  /\ lapsed = {}
  /\ overtaken = {}
  /\ failures = 0
  /\ changes = 0

Fail == failures < MaxFailures /\ failures' = failures + 1

-----------------------------------------------------------------------------
(* The owner. *)

\* POST /webhooks up to the count, which is not held against other requests.
CountEndpoints(e) ==
  /\ endpoints[e].state = "none" /\ e \notin creating
  /\ Cardinality(Existing) < MaxWebhooks
  /\ creating' = creating \cup {e}
  /\ UNCHANGED <<endpoints, bus, jobs, history, failures, changes>>

InsertEndpoint(e) ==
  /\ e \in creating
  /\ creating' = creating \ {e}
  /\ endpoints' = [endpoints EXCEPT ![e] = [state |-> "active", count |-> 0]]
  /\ UNCHANGED <<bus, jobs, history, failures, changes>>

\* What setting the counter back does to the decisions taken from it.
Overtake(e) == overtaken' = IF Deactivating(e) THEN overtaken \cup {e} ELSE overtaken

\* Mutant of Update: the counter is kept on reactivation.
UpdateKeepsCount(e, active) ==
  /\ changes < MaxChanges /\ changes' = changes + 1
  /\ Exists(e)
  /\ endpoints' = [endpoints EXCEPT ![e].state = IF active THEN "active" ELSE "inactive"]
  /\ UNCHANGED <<creating, bus, jobs, history, failures>>

\* PUT /webhooks/:id with isActive.
Update(e, active) ==
  /\ changes < MaxChanges /\ changes' = changes + 1
  /\ Exists(e)
  /\ IF active
       THEN /\ endpoints' = [endpoints EXCEPT ![e] = [state |-> "active", count |-> 0]]
            /\ lapsed' = lapsed \ {e}
            /\ Overtake(e)
       ELSE /\ endpoints' = [endpoints EXCEPT ![e].state = "inactive"]
            /\ UNCHANGED <<lapsed, overtaken>>
  /\ UNCHANGED <<creating, bus, jobs, requests, accepted, disturbed, failures>>

\* DELETE /webhooks/:id; jobs carry url and secret and are sent all the same.
Delete(e) ==
  /\ changes < MaxChanges /\ changes' = changes + 1
  /\ Exists(e)
  /\ endpoints' = [endpoints EXCEPT ![e].state = "deleted"]
  /\ UNCHANGED <<creating, bus, jobs, history, failures>>

-----------------------------------------------------------------------------
(* The bus. *)

\* getActiveWebhooks.
Emit(x) ==
  /\ x \notin emitted
  /\ emitted' = emitted \cup {x}
  /\ todo' = todo \cup {<<x, e>> : e \in {f \in Endpoints : endpoints[f].state = "active"}}
  /\ UNCHANGED <<endpoints, creating, jobs, history, failures, changes>>

\* One webhookQueue.add of the loop.
AddJob(x, e) ==
  /\ <<x, e>> \in todo
  /\ todo' = todo \ {<<x, e>>}
  /\ jobs' = [jobs EXCEPT ![x][e].at = "waiting"]
  /\ UNCHANGED <<endpoints, creating, emitted, history, failures, changes>>

\* An add is rejected, or the process dies: the rest of the loop is left out.
EmissionFails(x) ==
  /\ \E e \in Endpoints : <<x, e>> \in todo
  /\ Fail
  /\ todo' = {j \in todo : j[1] # x}
  /\ UNCHANGED <<endpoints, creating, emitted, jobs, history, changes>>

-----------------------------------------------------------------------------
(* The workers. *)

Move(x, e, at) == jobs' = [jobs EXCEPT ![x][e].at = at]

\* Mutant of Thrown: one attempt too many.
ThrownLate(j) ==
  [at |-> IF j.made < Attempts THEN "waiting" ELSE "failed",
   made |-> j.made + 1, stalled |-> j.stalled]

\* The processor throws: one attempt more is made, the job waits if any is left.
Thrown(j) ==
  [at |-> IF j.made + 1 < Attempts THEN "waiting" ELSE "failed",
   made |-> j.made + 1, stalled |-> j.stalled]
Throw(x, e) == jobs' = [jobs EXCEPT ![x][e] = Thrown(@)]

Start(x, e) ==
  /\ jobs[x][e].at = "waiting"
  /\ Cardinality(Running) < Concurrency
  /\ Move(x, e, "request")
  /\ requests' = [requests EXCEPT ![x][e] = @ + 1]
  /\ UNCHANGED <<endpoints, creating, bus, accepted, disturbed, lapsed, overtaken,
                 failures, changes>>

\* The receiver answers 2xx, or takes the event and its answer is lost or late.
Accept(x, e) ==
  /\ jobs[x][e].at = "request"
  /\ accepted' = [accepted EXCEPT ![x][e] = @ + 1]
  /\ \/ Move(x, e, "reset") /\ UNCHANGED <<disturbed, failures>>
     \/ /\ Fail
        /\ Move(x, e, "count")
        /\ disturbed' = disturbed \cup {<<x, e>>}
  /\ UNCHANGED <<endpoints, creating, bus, requests, lapsed, overtaken, changes>>

\* Another status, no connection, or the timeout.
Refuse(x, e) ==
  /\ jobs[x][e].at = "request"
  /\ Move(x, e, "count")
  /\ UNCHANGED <<endpoints, creating, bus, history, failures, changes>>

Reset(e) ==
  IF Exists(e)
    THEN /\ endpoints' = [endpoints EXCEPT ![e].count = 0]
         /\ lapsed' = lapsed \ {e}
         /\ Overtake(e)
    ELSE UNCHANGED <<endpoints, lapsed, overtaken>>

\* Mutant of ResetFailureCount: an error is not swallowed.
ResetFailureCountThrows(x, e) ==
  /\ jobs[x][e].at = "reset"
  /\ \/ Move(x, e, "completed") /\ Reset(e) /\ UNCHANGED failures
     \/ Throw(x, e) /\ Fail /\ UNCHANGED <<endpoints, lapsed, overtaken>>
  /\ UNCHANGED <<creating, bus, requests, accepted, disturbed, changes>>

\* resetFailureCount; an error is swallowed and the job is completed either way.
ResetFailureCount(x, e) ==
  /\ jobs[x][e].at = "reset"
  /\ Move(x, e, "completed")
  /\ \/ Reset(e) /\ UNCHANGED failures
     \/ Fail /\ UNCHANGED <<endpoints, lapsed, overtaken>>
  /\ UNCHANGED <<creating, bus, requests, accepted, disturbed, changes>>

\* incrementFailureCount up to the test of the value returned; errors are swallowed.
IncrementFailureCount(x, e) ==
  /\ jobs[x][e].at = "count"
  /\ \/ /\ Exists(e)
        /\ endpoints' = [endpoints EXCEPT ![e].count = @ + 1]
        /\ IF endpoints'[e].count >= MaxConsecutiveFailures
             THEN Move(x, e, "deactivate") ELSE Throw(x, e)
        /\ UNCHANGED failures
     \/ /\ Throw(x, e)
        /\ IF Exists(e) THEN Fail ELSE UNCHANGED failures
        /\ UNCHANGED endpoints
  /\ UNCHANGED <<creating, bus, history, changes>>

\* The second UPDATE, by id alone.
Deactivate(x, e) ==
  /\ jobs[x][e].at = "deactivate"
  /\ Throw(x, e)
  /\ \/ /\ endpoints' = IF Exists(e) THEN [endpoints EXCEPT ![e].state = "inactive"]
                                     ELSE endpoints
        /\ lapsed' = lapsed \ {e}
        /\ UNCHANGED failures
     \/ /\ Fail
        /\ lapsed' = lapsed \cup {e}
        /\ UNCHANGED endpoints
  /\ UNCHANGED <<creating, bus, requests, accepted, disturbed, overtaken, changes>>

\* Mutant of WorkerDies: no other worker looks for stalled jobs.
WorkerDiesUnnoticed(x, e) ==
  /\ <<x, e>> \in Running
  /\ Fail
  /\ Move(x, e, "stalled")
  /\ disturbed' = disturbed \cup {<<x, e>>}
  /\ lapsed' = IF jobs[x][e].at = "deactivate" THEN lapsed \cup {e} ELSE lapsed
  /\ UNCHANGED <<endpoints, creating, bus, requests, accepted, overtaken, changes>>

\* A worker dies over a job; the stalled job goes to another worker once.
WorkerDies(x, e) ==
  /\ <<x, e>> \in Running
  /\ Fail
  /\ jobs' = [jobs EXCEPT ![x][e].stalled = TRUE,
                          ![x][e].at = IF jobs[x][e].stalled THEN "failed" ELSE "waiting"]
  /\ disturbed' = disturbed \cup {<<x, e>>}
  /\ lapsed' = IF jobs[x][e].at = "deactivate" THEN lapsed \cup {e} ELSE lapsed
  /\ UNCHANGED <<endpoints, creating, bus, requests, accepted, overtaken, changes>>

-----------------------------------------------------------------------------
Owner ==
  \E e \in Endpoints :
    \/ CountEndpoints(e) \/ InsertEndpoint(e) \/ Delete(e)
    \/ \E active \in BOOLEAN : Update(e, active)

Work(x, e) ==
  \/ Start(x, e) \/ Accept(x, e) \/ Refuse(x, e)
  \/ ResetFailureCount(x, e) \/ IncrementFailureCount(x, e) \/ Deactivate(x, e)

Next ==
  \/ Owner
  \/ \E x \in Events :
       \/ Emit(x) \/ EmissionFails(x)
       \/ \E e \in Endpoints : AddJob(x, e) \/ Work(x, e) \/ WorkerDies(x, e)

Spec == Init /\ [][Next]_vars

\* BullMQ keeps handing out jobs, and a processor that runs goes on.
FairSpec ==
  Spec /\ \A x \in Events, e \in Endpoints : WF_vars(AddJob(x, e)) /\ WF_vars(Work(x, e))

-----------------------------------------------------------------------------
(* Properties *)

Places == {"none", "waiting", "request", "reset", "count", "deactivate",
           "completed", "failed"}
Row == [state : {"none", "active", "inactive", "deleted"}, count : Nat]
Job == [at : Places, made : 0..Attempts, stalled : BOOLEAN]

\* Every variable holds values of the table's columns or of a job's.
TypeOK ==
  /\ endpoints \in [Endpoints -> Row]
  /\ creating \subseteq Endpoints
  /\ emitted \subseteq Events
  /\ todo \subseteq Events \X Endpoints
  /\ jobs \in [Events -> [Endpoints -> Job]]
  /\ requests \in [Events -> [Endpoints -> Nat]]
  /\ accepted \in [Events -> [Endpoints -> Nat]]
  /\ disturbed \subseteq Events \X Endpoints
  /\ lapsed \subseteq Endpoints
  /\ overtaken \subseteq Endpoints
  /\ failures \in Nat
  /\ changes \in Nat

\* An endpoint that failed MaxConsecutiveFailures times in a row is active only
\* while a worker is about to deactivate it, or after that UPDATE was lost:
\* no order of workers, owner and resets leaves it active behind their backs.
FailingIsDeactivated ==
  \A e \in Endpoints :
    endpoints[e].state = "active" /\ endpoints[e].count >= MaxConsecutiveFailures
      => Deactivating(e) \/ e \in lapsed

\* A worker about to deactivate an endpoint still has the failures for it,
\* unless a success or the owner set the counter back since it read it.
DecisionStands ==
  \A e \in Endpoints :
    Exists(e) /\ Deactivating(e)
      => endpoints[e].count >= MaxConsecutiveFailures \/ e \in overtaken

\* Without lost answers and dead workers a receiver takes an event once if its
\* job completes and never if the job fails: no error after the answer makes
\* the job a retry.
AcceptedOnce ==
  \A x \in Events, e \in Endpoints :
    <<x, e>> \notin disturbed =>
      accepted[x][e] = IF jobs[x][e].at \in {"reset", "completed"} THEN 1 ELSE 0

\* However workers fail and die, no more requests are sent for a job than it
\* has attempts, and one more if the worker died over it.
RetriesEnd ==
  \A x \in Events, e \in Endpoints :
    requests[x][e] <= Attempts + (IF jobs[x][e].stalled THEN 1 ELSE 0)

\* The part of the invariant that bounds the attempts of a job.
AttemptsInv ==
  \A x \in Events, e \in Endpoints :
    LET j == jobs[x][e]
        begun == j.at \in {"request", "reset", "count", "deactivate", "completed"}
    IN  /\ j.at \notin {"none", "failed"} => j.made < Attempts
        /\ requests[x][e] <= (IF j.at = "failed" THEN Attempts ELSE j.made)
             + (IF j.stalled THEN 1 ELSE 0) + (IF begun THEN 1 ELSE 0)
        /\ <<x, e>> \in todo => j = NoJob
        /\ j.at # "none" \/ <<x, e>> \in todo => x \in emitted
        /\ j.at = "none" => j = NoJob

\* The part about endpoints to be: nothing is sent to a row that is not there yet.
CreationInv ==
  /\ \A e \in creating : endpoints[e].state = "none"
  /\ \A e \in Endpoints : endpoints[e].state = "none" =>
       \A x \in Events : jobs[x][e].at = "none" /\ <<x, e>> \notin todo

IInv == /\ TypeOK /\ AttemptsInv /\ CreationInv
        /\ FailingIsDeactivated /\ DecisionStands /\ AcceptedOnce

\* Every job of the queue is completed or given up in the end.
EveryJobSettles ==
  \A x \in Events, e \in Endpoints :
    jobs[x][e].at = "waiting" ~> jobs[x][e].at \in {"completed", "failed"}
=============================================================================
