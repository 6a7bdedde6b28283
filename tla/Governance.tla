----------------------------- MODULE Governance -----------------------------
(***************************************************************************)
(* The off-chain governance service.  Proposals, votes and the execution   *)
(* queue are rows of database tables; the HTTP handlers and the            *)
(* finalization job work on them one statement at a time, without a        *)
(* transaction, so any two of them interleave between statements.          *)
(*                                                                         *)
(* A handler in flight is a record of `inflight`: `step` names the         *)
(* statement it awaits next, the other fields are its local variables.  A  *)
(* call refused by its first checks changes nothing and is left out.  The  *)
(* tally columns of a proposal (votesFor, votesAgainst, votesAbstain,      *)
(* totalVoters, quorumMet) are kept as the set of ballots they sum.        *)
(***************************************************************************)
EXTENDS Integers, FiniteSetsExt

CONSTANTS Proposals,       \* rows of governance_proposals, all ACTIVE at first
          Voters,
          Weight,          \* Weight[v]: effectiveVotingPower in the snapshot
          QuorumRequired,
          VotingEndsAt,    \* VotingEndsAt[p]
          TimelockEndsAt,  \* TimelockEndsAt[p], Null when the column is null
          ExecutionWindow, \* executionWindowDays
          Requests,        \* the HTTP calls of a run
          MaxClock,        \* bound: the clock stops here
          MaxFailures      \* bound: statements that fail, processes that die

Null == -1
Directions == {"FOR", "AGAINST", "ABSTAIN"}

ASSUME GovernanceAssumption ==
  /\ Weight \in [Voters -> Nat]
  /\ QuorumRequired \in Nat
  /\ VotingEndsAt \in [Proposals -> Nat]
  /\ TimelockEndsAt \in [Proposals -> Nat \cup {Null}]
  /\ ExecutionWindow \in Nat
  /\ MaxClock \in Nat
  /\ MaxFailures \in Nat

VARIABLES
  clock,
  status,     \* governance_proposals.status
  counted,    \* the ballots summed in the tally columns of a proposal
  votes,      \* governance_votes
  queue,      \* governance_execution_queue, "ABSENT" when p has no row
  inflight,   \* HTTP handlers awaiting a statement
  served,     \* calls already received
  job,        \* the run of finalizeExpiredProposals
  failures,
  verdict, judgedOn  \* history: what the job decided on p, from which ballots

tables == <<status, counted, votes, queue>>
http == <<inflight, served>>
history == <<verdict, judgedOn>>
vars == <<clock, tables, http, job, failures, history>>

Ballot == [id : Requests, proposal : Proposals, voter : Voters,
           direction : Directions]

Cast(rows, d) == MapThenSumSet(LAMBDA b : Weight[b.voter],
                               {b \in rows : b.direction = d})
Total(rows) == Cast(rows, "FOR") + Cast(rows, "AGAINST") + Cast(rows, "ABSTAIN")

\* The quorumMet column: false by default, written with every recount.
QuorumMet(rows) == rows # {} /\ Total(rows) >= QuorumRequired

NoQueueItem == [status |-> "ABSENT", timelockEndsAt |-> Null,
                executionDeadline |-> Null, executedAt |-> Null]
Idle == [step |-> "idle"]

Init ==
  /\ clock = 0
  /\ status = [p \in Proposals |-> "ACTIVE"]
  /\ counted = [p \in Proposals |-> {}]
  /\ votes = {}
  /\ queue = [p \in Proposals |-> NoQueueItem]
  /\ inflight = {}
  /\ served = {}
  /\ job = Idle
  /\ failures = 0
  /\ verdict = [p \in Proposals |-> "NONE"]
  /\ judgedOn = [p \in Proposals |-> {}]

-----------------------------------------------------------------------------
(* HTTP handlers *)

Accept(r, h) ==
  /\ r \notin served
  /\ served' = served \cup {r}
  /\ inflight' = inflight \cup {h}

Continue(h, next) ==
  /\ inflight' = (inflight \ {h}) \cup {next}
  /\ UNCHANGED served

Return(h) ==
  /\ inflight' = inflight \ {h}
  /\ UNCHANGED served

\* castVote up to the weight check; snapshot rows never change.
CastVote(b) ==
  /\ status[b.proposal] = "ACTIVE"
  /\ clock <= VotingEndsAt[b.proposal]
  /\ Weight[b.voter] > 0
  /\ Accept(b.id, [step |-> "find", ballot |-> b])
  /\ UNCHANGED <<clock, tables, job, failures, history>>

\* Any row may come first under LIMIT 1.
FindVote(h) ==
  /\ h.step = "find"
  /\ LET mine == {v \in votes : /\ v.proposal = h.ballot.proposal
                                /\ v.voter = h.ballot.voter}
     IN  \/ /\ mine = {}
            /\ Continue(h, [step |-> "insert", ballot |-> h.ballot])
         \/ \E v \in mine :
              IF v.direction = h.ballot.direction
              THEN Return(h)
              ELSE Continue(h, [step |-> "change", ballot |-> h.ballot, row |-> v.id])
  /\ UNCHANGED <<clock, tables, job, failures, history>>

InsertVote(h) ==
  /\ h.step = "insert"
  /\ votes' = votes \cup {h.ballot}
  /\ Continue(h, [step |-> "count", ballot |-> h.ballot])
  /\ UNCHANGED <<clock, status, counted, queue, job, failures, history>>

\* Mutant of ChangeVote: the vote is replaced by a new row.
ChangeVoteReplaces(h) ==
  /\ h.step = "change"
  /\ votes' = {v \in votes : v.id # h.row} \cup {h.ballot}
  /\ Continue(h, [step |-> "count", ballot |-> h.ballot])
  /\ UNCHANGED <<clock, status, counted, queue, job, failures, history>>

ChangeVote(h) ==
  /\ h.step = "change"
  /\ votes' = {IF v.id = h.row THEN [v EXCEPT !.direction = h.ballot.direction]
                               ELSE v : v \in votes}
  /\ Continue(h, [step |-> "count", ballot |-> h.ballot])
  /\ UNCHANGED <<clock, status, counted, queue, job, failures, history>>

\* updateProposalVoteCounts: a SELECT, then an UPDATE, whatever the status is.
CountVotes(h) ==
  /\ h.step = "count"
  /\ Continue(h, [step |-> "store", ballot |-> h.ballot,
                  rows |-> {v \in votes : v.proposal = h.ballot.proposal}])
  /\ UNCHANGED <<clock, tables, job, failures, history>>

StoreCounts(h) ==
  /\ h.step = "store"
  /\ counted' = [counted EXCEPT ![h.ballot.proposal] = h.rows]
  /\ Return(h)
  /\ UNCHANGED <<clock, status, votes, queue, job, failures, history>>

\* cancelProposal: the check, then an UPDATE by id alone.
CheckCancel(r, p) ==
  /\ status[p] = "ACTIVE"
  /\ Accept(r, [step |-> "cancel", id |-> r, proposal |-> p])
  /\ UNCHANGED <<clock, tables, job, failures, history>>

CancelProposal(h) ==
  /\ h.step = "cancel"
  /\ status' = [status EXCEPT ![h.proposal] = "CANCELLED"]
  /\ Return(h)
  /\ UNCHANGED <<clock, counted, votes, queue, job, failures, history>>

\* Mutant of CheckExecute: the timelock is not looked at.
CheckExecuteEarly(r, p) ==
  /\ queue[p].status = "PENDING"
  /\ clock <= queue[p].executionDeadline
  /\ Accept(r, [step |-> "execute_item", id |-> r, proposal |-> p, at |-> clock])
  /\ UNCHANGED <<clock, tables, job, failures, history>>

\* executeProposal: checks on the queue row alone, then the two UPDATEs.
CheckExecute(r, p) ==
  /\ queue[p].status = "PENDING"
  /\ clock >= queue[p].timelockEndsAt
  /\ clock <= queue[p].executionDeadline
  /\ Accept(r, [step |-> "execute_item", id |-> r, proposal |-> p, at |-> clock])
  /\ UNCHANGED <<clock, tables, job, failures, history>>

ExecuteItem(h) ==
  /\ h.step = "execute_item"
  /\ queue' = [queue EXCEPT ![h.proposal].status = "EXECUTED",
                            ![h.proposal].executedAt = h.at]
  /\ Continue(h, [step |-> "execute", id |-> h.id, proposal |-> h.proposal])
  /\ UNCHANGED <<clock, status, counted, votes, job, failures, history>>

ExecuteProposal(h) ==
  /\ h.step = "execute"
  /\ status' = [status EXCEPT ![h.proposal] = "EXECUTED"]
  /\ Return(h)
  /\ UNCHANGED <<clock, counted, votes, queue, job, failures, history>>

\* vetoProposal: a check on the proposal alone, then the two UPDATEs.
CheckVeto(r, p) ==
  /\ status[p] = "TIMELOCK"
  /\ Accept(r, [step |-> "veto_item", id |-> r, proposal |-> p])
  /\ UNCHANGED <<clock, tables, job, failures, history>>

\* Mutant of VetoItem: the execution is taken out of the row as well.
VetoItemResets(h) ==
  /\ h.step = "veto_item"
  /\ queue' = [queue EXCEPT ![h.proposal].status = "VETOED",
                            ![h.proposal].executedAt = Null]
  /\ Continue(h, [step |-> "veto", id |-> h.id, proposal |-> h.proposal])
  /\ UNCHANGED <<clock, status, counted, votes, job, failures, history>>

VetoItem(h) ==
  /\ h.step = "veto_item"
  /\ queue' = [queue EXCEPT ![h.proposal].status = "VETOED"]
  /\ Continue(h, [step |-> "veto", id |-> h.id, proposal |-> h.proposal])
  /\ UNCHANGED <<clock, status, counted, votes, job, failures, history>>

VetoProposal(h) ==
  /\ h.step = "veto"
  /\ status' = [status EXCEPT ![h.proposal] = "VETOED"]
  /\ Return(h)
  /\ UNCHANGED <<clock, counted, votes, queue, job, failures, history>>

Receive ==
  \/ \E b \in Ballot : CastVote(b)
  \/ \E r \in Requests, p \in Proposals :
       CheckCancel(r, p) \/ CheckExecute(r, p) \/ CheckVeto(r, p)

Handle(h) ==
  \/ FindVote(h) \/ InsertVote(h) \/ ChangeVote(h) \/ CountVotes(h) \/ StoreCounts(h)
  \/ CancelProposal(h)
  \/ ExecuteItem(h) \/ ExecuteProposal(h)
  \/ VetoItem(h) \/ VetoProposal(h)

-----------------------------------------------------------------------------
(* finalizeExpiredProposals, run by the scheduler, never twice at once *)

\* Mutants of StartFinalization: the status is not in the WHERE clause; the end
\* of the vote has to be now.
StartFinalizationAnyStatus ==
  /\ job = Idle
  /\ job' = [step |-> "finalize", now |-> clock,
             due |-> {[proposal |-> p, rows |-> counted[p]] :
                        p \in {p \in Proposals : VotingEndsAt[p] <= clock}}]
  /\ UNCHANGED <<clock, tables, http, failures, history>>

StartFinalizationOnTheDay ==
  /\ job = Idle
  /\ job' = [step |-> "finalize", now |-> clock,
             due |-> {[proposal |-> p, rows |-> counted[p]] :
                        p \in {p \in Proposals : /\ status[p] = "ACTIVE"
                                                 /\ VotingEndsAt[p] = clock}}]
  /\ UNCHANGED <<clock, tables, http, failures, history>>

\* `new Date()` and the SELECT of ended proposals, with the tallies they had.
StartFinalization ==
  /\ job = Idle
  /\ job' = [step |-> "finalize", now |-> clock,
             due |-> {[proposal |-> p, rows |-> counted[p]] :
                        p \in {p \in Proposals : /\ status[p] = "ACTIVE"
                                                 /\ VotingEndsAt[p] <= clock}}]
  /\ UNCHANGED <<clock, tables, http, failures, history>>

\* Mutants of Decide: a tie passes; a status the tables do not know.
DecideTiePasses(rows) ==
  IF ~QuorumMet(rows) THEN "QUORUM_NOT_MET"
  ELSE IF Cast(rows, "FOR") >= Cast(rows, "AGAINST") THEN "PASSED"
  ELSE "REJECTED"

DecideDefeated(rows) ==
  IF ~QuorumMet(rows) THEN "QUORUM_NOT_MET"
  ELSE IF Cast(rows, "FOR") > Cast(rows, "AGAINST") THEN "PASSED"
  ELSE "DEFEATED"

Decide(rows) ==
  IF ~QuorumMet(rows) THEN "QUORUM_NOT_MET"
  ELSE IF Cast(rows, "FOR") > Cast(rows, "AGAINST") THEN "PASSED"
  ELSE "REJECTED"

\* The UPDATE of one ended proposal, by id alone, from the tally selected before.
FinalizeProposal(d) ==
  /\ status' = [status EXCEPT ![d.proposal] = Decide(d.rows)]
  /\ verdict' = [verdict EXCEPT ![d.proposal] = Decide(d.rows)]
  /\ judgedOn' = [judgedOn EXCEPT ![d.proposal] = d.rows]
  /\ job' = IF Decide(d.rows) = "PASSED"
            THEN [step |-> "check_passed", now |-> job.now, due |-> job.due \ {d},
                  proposal |-> d.proposal]
            ELSE [step |-> "finalize", now |-> job.now, due |-> job.due \ {d}]
  /\ UNCHANGED <<clock, counted, votes, queue, http, failures>>

NextDue == [step |-> "finalize", now |-> job.now, due |-> job.due]

\* queueExecution; an error in it is caught and the loop goes on.
CheckPassed ==
  /\ job.step = "check_passed"
  /\ LET p == job.proposal
         timelock == IF TimelockEndsAt[p] = Null THEN clock ELSE TimelockEndsAt[p]
     IN  job' = IF status[p] = "PASSED"
                THEN [step |-> "enqueue", now |-> job.now, due |-> job.due,
                      proposal |-> p, timelockEndsAt |-> timelock]
                ELSE NextDue
  /\ UNCHANGED <<clock, tables, http, failures, history>>

\* The INSERT; proposal_id is unique, a second row is an error.
Enqueue ==
  /\ job.step = "enqueue"
  /\ IF queue[job.proposal].status = "ABSENT"
     THEN /\ queue' = [queue EXCEPT ![job.proposal] =
                 [status |-> "PENDING", timelockEndsAt |-> job.timelockEndsAt,
                  executionDeadline |-> job.timelockEndsAt + ExecutionWindow,
                  executedAt |-> Null]]
          /\ job' = [step |-> "set_timelock", now |-> job.now, due |-> job.due,
                     proposal |-> job.proposal]
     ELSE /\ job' = NextDue
          /\ UNCHANGED queue
  /\ UNCHANGED <<clock, status, counted, votes, http, failures, history>>

SetTimelock ==
  /\ job.step = "set_timelock"
  /\ status' = [status EXCEPT ![job.proposal] = "TIMELOCK"]
  /\ job' = NextDue
  /\ UNCHANGED <<clock, counted, votes, queue, http, failures, history>>

\* Mutant of ExpireItems: only rows of proposals in TIMELOCK expire.
ExpireTimelocked ==
  /\ job.step = "finalize"
  /\ job.due = {}
  /\ LET overdue == {p \in Proposals : /\ queue[p].status = "PENDING"
                                       /\ status[p] = "TIMELOCK"
                                       /\ queue[p].executionDeadline <= job.now}
     IN  /\ queue' = [p \in Proposals |-> IF p \in overdue
                                         THEN [queue[p] EXCEPT !.status = "EXPIRED"]
                                         ELSE queue[p]]
         /\ job' = [step |-> "expire", expired |-> overdue]
  /\ UNCHANGED <<clock, status, counted, votes, http, failures, history>>

\* One UPDATE ... RETURNING expires every overdue queue row.
ExpireItems ==
  /\ job.step = "finalize"
  /\ job.due = {}
  /\ LET overdue == {p \in Proposals : /\ queue[p].status = "PENDING"
                                       /\ queue[p].executionDeadline <= job.now}
     IN  /\ queue' = [p \in Proposals |-> IF p \in overdue
                                         THEN [queue[p] EXCEPT !.status = "EXPIRED"]
                                         ELSE queue[p]]
         /\ job' = [step |-> "expire", expired |-> overdue]
  /\ UNCHANGED <<clock, status, counted, votes, http, failures, history>>

ExpireProposal(p) ==
  /\ status' = [status EXCEPT ![p] = "EXPIRED"]
  /\ job' = [step |-> "expire", expired |-> job.expired \ {p}]
  /\ UNCHANGED <<clock, counted, votes, queue, http, failures, history>>

EndFinalization ==
  /\ job.step = "expire"
  /\ job.expired = {}
  /\ job' = Idle
  /\ UNCHANGED <<clock, tables, http, failures, history>>

RunJob ==
  \/ StartFinalization
  \/ job.step = "finalize" /\ \E d \in job.due : FinalizeProposal(d)
  \/ CheckPassed \/ Enqueue \/ SetTimelock
  \/ ExpireItems
  \/ job.step = "expire" /\ \E p \in job.expired : ExpireProposal(p)
  \/ EndFinalization

-----------------------------------------------------------------------------
Tick ==
  /\ clock < MaxClock
  /\ clock' = clock + 1
  /\ UNCHANGED <<tables, http, job, failures, history>>

\* A statement is rejected, or the process dies, and the handler goes no further.
HandlerFails(h) ==
  /\ failures < MaxFailures
  /\ failures' = failures + 1
  /\ Return(h)
  /\ UNCHANGED <<clock, tables, job, history>>

\* Errors in queueExecution are caught in the loop; any other ends the run.
JobFails ==
  /\ job # Idle
  /\ failures < MaxFailures
  /\ failures' = failures + 1
  /\ \/ job' = Idle
     \/ /\ job.step \in {"check_passed", "enqueue", "set_timelock"}
        /\ job' = NextDue
  /\ UNCHANGED <<clock, tables, http, history>>

Next ==
  \/ Receive
  \/ \E h \in inflight : Handle(h) \/ HandlerFails(h)
  \/ RunJob \/ JobFails
  \/ Tick

\* The scheduler fires every five minutes and the statements of the job return;
\* no fairness is assumed of users.
Spec == Init /\ [][Next]_vars /\ WF_vars(RunJob) /\ WF_vars(Tick)

-----------------------------------------------------------------------------
(* Properties *)

VoteHandler ==
  [step : {"find", "insert", "count"}, ballot : Ballot]
    \cup [step : {"change"}, ballot : Ballot, row : Requests]
    \cup [step : {"store"}, ballot : Ballot, rows : SUBSET Ballot]
AdminHandler ==
  [step : {"cancel", "execute", "veto_item", "veto"}, id : Requests, proposal : Proposals]
    \cup [step : {"execute_item"}, id : Requests, proposal : Proposals, at : Nat]
Due == [proposal : Proposals, rows : SUBSET Ballot]
JobState ==
  {Idle}
    \cup [step : {"finalize"}, now : Nat, due : SUBSET Due]
    \cup [step : {"check_passed", "set_timelock"}, now : Nat, due : SUBSET Due,
          proposal : Proposals]
    \cup [step : {"enqueue"}, now : Nat, due : SUBSET Due, proposal : Proposals,
          timelockEndsAt : Nat]
    \cup [step : {"expire"}, expired : SUBSET Proposals]
Verdicts == {"PASSED", "REJECTED", "QUORUM_NOT_MET"}
QueueItem == [status : {"ABSENT", "PENDING", "EXECUTED", "VETOED", "EXPIRED"},
              timelockEndsAt : Nat \cup {Null}, executionDeadline : Nat \cup {Null},
              executedAt : Nat \cup {Null}]

\* Every variable holds values of the tables' columns or of the handlers' locals.
TypeOK ==
  /\ clock \in Nat
  /\ status \in [Proposals -> Verdicts \cup {"ACTIVE", "CANCELLED", "TIMELOCK",
                                            "EXECUTED", "VETOED", "EXPIRED"}]
  /\ counted \in [Proposals -> SUBSET Ballot]
  /\ votes \in SUBSET Ballot
  /\ queue \in [Proposals -> QueueItem]
  /\ inflight \in SUBSET (VoteHandler \cup AdminHandler)
  /\ served \in SUBSET Requests
  /\ job \in JobState
  /\ failures \in Nat
  /\ verdict \in [Proposals -> Verdicts \cup {"NONE"}]
  /\ judgedOn \in [Proposals -> SUBSET Ballot]

Approved(rows) ==
  /\ Total(rows) >= QuorumRequired
  /\ Cast(rows, "FOR") > Cast(rows, "AGAINST")

\* Whatever handlers overlap with the job, a proposal enters the timelock, and
\* all that can follow it, only after the job judged a tally with a quorum and
\* more weight for than against (executeProposal never looks at the proposal).
ExecutedOnlyIfApproved ==
  \A p \in Proposals :
    \/ queue[p].status # "ABSENT"
    \/ status[p] \in {"PASSED", "TIMELOCK", "EXECUTED", "VETOED", "EXPIRED"}
    => verdict[p] = "PASSED" /\ Approved(judgedOn[p])

\* An execution is recorded at a time between the end of the timelock the
\* proposal was created with and the deadline, however late its UPDATE runs.
ExecutionInsideWindow ==
  \A p \in Proposals :
    queue[p].executedAt # Null =>
      /\ queue[p].executedAt \in queue[p].timelockEndsAt .. queue[p].executionDeadline
      /\ queue[p].executedAt >= TimelockEndsAt[p]
      /\ queue[p].executedAt >= VotingEndsAt[p]

\* A recount is a view of the votes table at some earlier moment: a ballot in
\* a tally belongs to a vote of that voter on that proposal, never withdrawn.
CountedBallotsWereCast ==
  \A p \in Proposals : \A b \in counted[p] \cup judgedOn[p] :
    \E v \in votes : v.id = b.id /\ v.voter = b.voter /\ v.proposal = p

\* A verdict is never given twice, and a queue row never returns to PENDING
\* nor changes its timelock, whatever the handlers overwrite later.
VerdictAndTimelockAreFinal ==
  [][\A p \in Proposals :
       /\ verdict[p] # "NONE" => verdict'[p] = verdict[p] /\ judgedOn'[p] = judgedOn[p]
       /\ queue[p].status # "ABSENT" =>
            /\ queue'[p].status \notin {"ABSENT"} \cup ({"PENDING"} \ {queue[p].status})
            /\ queue'[p].timelockEndsAt = queue[p].timelockEndsAt
            /\ queue'[p].executionDeadline = queue[p].executionDeadline]_vars

\* The job and the timelock together keep the promise of Approval, also when
\* two calls execute the same row or a veto meets an execution.
Decision == INSTANCE Approval WITH
  now <- clock,
  phase <- [p \in Proposals |->
              IF queue[p].executedAt # Null THEN "executed"
              ELSE IF verdict[p] = "NONE" THEN "open"
              ELSE IF verdict[p] = "PASSED" THEN "approved" ELSE "rejected"],
  opensAt <- [p \in Proposals |-> queue[p].timelockEndsAt],
  executedAt <- [p \in Proposals |-> queue[p].executedAt]
KeepsApproval == Decision!ASpec

\* Voting does not stay open for ever: the job settles every ended proposal,
\* also when some of its runs fail half way.
VotingCloses == \A p \in Proposals : status[p] = "ACTIVE" ~> status[p] # "ACTIVE"

\* A queued proposal does not wait for ever: it is executed, vetoed or expired.
\* (A deadline beyond the bound of the clock is never reached.)
QueueDrains ==
  \A p \in Proposals :
    queue[p].status = "PENDING" /\ queue[p].executionDeadline <= MaxClock
      ~> queue[p].status # "PENDING"

(* The invariant the proofs go by induction on: what the locals of handlers
   and job still guarantee about the tables when the next statement runs. *)

Queued(p) == queue[p].status # "ABSENT"
HasPassed(p) == verdict[p] = "PASSED" /\ Approved(judgedOn[p])
WereCast(p, rows) ==
  \A b \in rows : \E v \in votes : v.id = b.id /\ v.voter = b.voter /\ v.proposal = p

\* Who reads what is already decided: veto and execution work on queued
\* proposals, the job judges only proposals without a verdict, each once.
DecisionInv ==
  /\ \A p \in Proposals :
       /\ status[p] = "ACTIVE" => verdict[p] = "NONE"
       /\ status[p] = "PASSED" => HasPassed(p)
       /\ status[p] \in {"TIMELOCK", "EXECUTED", "VETOED", "EXPIRED"} => Queued(p)
       /\ Queued(p) => HasPassed(p)
       /\ verdict[p] = "PASSED" => Approved(judgedOn[p])
  /\ \A h \in inflight : h.step \in {"execute_item", "execute", "veto_item", "veto"}
                          => Queued(h.proposal)
  /\ job.step \in {"finalize", "check_passed", "enqueue", "set_timelock"} =>
       /\ \A d \in job.due : verdict[d.proposal] = "NONE"
       /\ \A d, e \in job.due : d.proposal = e.proposal => d = e
  /\ job.step \in {"check_passed", "enqueue", "set_timelock"} => HasPassed(job.proposal)
  /\ job.step = "set_timelock" => Queued(job.proposal)
  /\ job.step = "expire" => \A p \in job.expired : Queued(p)

\* The dates of queue rows and of executions under way.
InWindow(p, t) == t \in queue[p].timelockEndsAt .. queue[p].executionDeadline
WindowInv ==
  /\ \A p \in Proposals :
       /\ verdict[p] # "NONE" => VotingEndsAt[p] <= clock
       /\ ~Queued(p) => queue[p] = NoQueueItem
       /\ Queued(p) => /\ queue[p].timelockEndsAt \in Nat
                       /\ queue[p].executionDeadline \in Nat
                       /\ queue[p].timelockEndsAt >= TimelockEndsAt[p]
       /\ queue[p].executedAt # Null => InWindow(p, queue[p].executedAt)
                                        /\ queue[p].executedAt >= VotingEndsAt[p]
  /\ \A h \in inflight : h.step = "execute_item" =>
       InWindow(h.proposal, h.at) /\ h.at \in VotingEndsAt[h.proposal] .. clock
  /\ job.step \in {"finalize", "check_passed", "enqueue", "set_timelock"} =>
       \A d \in job.due : VotingEndsAt[d.proposal] <= clock
  /\ job.step = "enqueue" => job.timelockEndsAt >= TimelockEndsAt[job.proposal]

\* Every copy of a tally, in a table or in a handler, is of votes that exist.
CastInv ==
  /\ \A p \in Proposals : WereCast(p, counted[p]) /\ WereCast(p, judgedOn[p])
  /\ \A h \in inflight : h.step = "store" => WereCast(h.ballot.proposal, h.rows)
  /\ job.step \in {"finalize", "check_passed", "enqueue", "set_timelock"} =>
       \A d \in job.due : WereCast(d.proposal, d.rows)

IInv == TypeOK /\ DecisionInv /\ WindowInv /\ CastInv

(* What a comment of the service and an assertion on the ledger say and the
   interleavings of the service break. *)

\* voteService.ts:46 "3) Existing vote?", Proposal.daml:70 "Already voted".
OneVotePerVoter ==
  \A v, w \in votes : v.proposal = w.proposal /\ v.voter = w.voter => v = w
=============================================================================
