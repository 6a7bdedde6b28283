-------------------------- MODULE GovernanceProofs --------------------------
(***************************************************************************)
(* Proofs about Governance for every set of proposals, voters and calls,   *)
(* every weight, quorum and timing, and any number of failures.            *)
(***************************************************************************)
EXTENDS Governance, TLAPS

USE DEF Null

\* The verdict is one of three, and PASSED means quorum and majority.
LEMMA DecideFacts ==
  ASSUME NEW rows
  PROVE  /\ Decide(rows) \in Verdicts
         /\ Decide(rows) = "PASSED" => Approved(rows)
BY DEF Decide, Verdicts, Approved, QuorumMet

-----------------------------------------------------------------------------
(* Type correctness *)

LEMMA InitType == Init => TypeOK
BY GovernanceAssumption
   DEF Init, TypeOK, NoQueueItem, QueueItem, Idle, JobState, Verdicts

LEMMA ReceiveType == TypeOK /\ Receive => TypeOK'
<1> SUFFICES ASSUME TypeOK, Receive PROVE TypeOK'
  OBVIOUS
<1> USE DEF Accept, tables, http, history
<1>1. ASSUME NEW b \in Ballot, CastVote(b) PROVE TypeOK'
  <2>1. [step |-> "find", ballot |-> b] \in VoteHandler
    BY DEF VoteHandler
  <2>2. b.id \in Requests
    BY DEF Ballot
  <2> QED BY <1>1, <2>1, <2>2 DEF CastVote, TypeOK
<1>2. ASSUME NEW r \in Requests, NEW p \in Proposals, CheckCancel(r, p) PROVE TypeOK'
  <2>1. [step |-> "cancel", id |-> r, proposal |-> p] \in AdminHandler
    BY DEF AdminHandler
  <2> QED BY <1>2, <2>1 DEF CheckCancel, TypeOK
<1>3. ASSUME NEW r \in Requests, NEW p \in Proposals, CheckExecute(r, p) PROVE TypeOK'
  <2>1. [step |-> "execute_item", id |-> r, proposal |-> p, at |-> clock] \in AdminHandler
    BY DEF AdminHandler, TypeOK
  <2> QED BY <1>3, <2>1 DEF CheckExecute, TypeOK
<1>4. ASSUME NEW r \in Requests, NEW p \in Proposals, CheckVeto(r, p) PROVE TypeOK'
  <2>1. [step |-> "veto_item", id |-> r, proposal |-> p] \in AdminHandler
    BY DEF AdminHandler
  <2> QED BY <1>4, <2>1 DEF CheckVeto, TypeOK
<1> QED BY <1>1, <1>2, <1>3, <1>4 DEF Receive

\* The fields a handler has at each of its steps.
LEMMA HandlerFields ==
  ASSUME NEW h \in VoteHandler \cup AdminHandler
  PROVE  /\ h.step \in {"find", "insert", "count", "change", "store"}
              => h \in VoteHandler /\ h.ballot \in Ballot
         /\ h.step = "change" => h.row \in Requests
         /\ h.step = "store" => h.rows \in SUBSET Ballot
         /\ h.step \in {"cancel", "execute", "veto_item", "veto", "execute_item"}
              => h.id \in Requests /\ h.proposal \in Proposals
         /\ h.step = "execute_item" => h.at \in Nat
BY DEF VoteHandler, AdminHandler

LEMMA HandleType ==
  ASSUME TypeOK, NEW h \in inflight, Handle(h)
  PROVE  TypeOK'
<1> USE DEF Continue, Return, tables, http, history
<1>0. h \in VoteHandler \cup AdminHandler
  BY DEF TypeOK
<1>1. CASE FindVote(h)
  <2>1. h.ballot \in Ballot
    BY <1>0, <1>1, HandlerFields DEF FindVote
  <2>2. [step |-> "insert", ballot |-> h.ballot] \in VoteHandler
    BY <2>1 DEF VoteHandler
  <2>3. ASSUME NEW v \in votes
        PROVE  [step |-> "change", ballot |-> h.ballot, row |-> v.id] \in VoteHandler
    BY <2>1 DEF VoteHandler, TypeOK, Ballot
  <2>4. inflight' \subseteq VoteHandler \cup AdminHandler /\ UNCHANGED served
    BY <1>1, <2>2, <2>3 DEF FindVote, TypeOK
  <2> QED BY <1>1, <2>4 DEF FindVote, TypeOK
<1>2. CASE InsertVote(h)
  <2>1. h.ballot \in Ballot
    BY <1>0, <1>2, HandlerFields DEF InsertVote
  <2>2. [step |-> "count", ballot |-> h.ballot] \in VoteHandler
    BY <2>1 DEF VoteHandler
  <2> QED BY <1>2, <2>1, <2>2 DEF InsertVote, TypeOK
<1>3. CASE ChangeVote(h)
  <2>1. h.ballot \in Ballot
    BY <1>0, <1>3, HandlerFields DEF ChangeVote
  <2>2. [step |-> "count", ballot |-> h.ballot] \in VoteHandler
    BY <2>1 DEF VoteHandler
  <2>3. votes' \subseteq Ballot
    BY <1>3, <2>1 DEF ChangeVote, TypeOK, Ballot
  <2> QED BY <1>3, <2>2, <2>3 DEF ChangeVote, TypeOK
<1>4. CASE CountVotes(h)
  <2>1. h.ballot \in Ballot
    BY <1>0, <1>4, HandlerFields DEF CountVotes
  <2>2. [step |-> "store", ballot |-> h.ballot,
         rows |-> {v \in votes : v.proposal = h.ballot.proposal}] \in VoteHandler
    BY <2>1 DEF VoteHandler, TypeOK
  <2> QED BY <1>4, <2>2 DEF CountVotes, TypeOK
<1>5. CASE StoreCounts(h)
  <2>1. h.ballot.proposal \in Proposals /\ h.rows \in SUBSET Ballot
    BY <1>0, <1>5, HandlerFields DEF StoreCounts, Ballot
  <2> QED BY <1>5, <2>1 DEF StoreCounts, TypeOK
<1>6. CASE CancelProposal(h)
  BY <1>0, <1>6, HandlerFields DEF CancelProposal, TypeOK
<1>7. CASE ExecuteItem(h)
  <2>1. h.id \in Requests /\ h.proposal \in Proposals /\ h.at \in Nat
    BY <1>0, <1>7, HandlerFields DEF ExecuteItem
  <2>2. [step |-> "execute", id |-> h.id, proposal |-> h.proposal] \in AdminHandler
    BY <2>1 DEF AdminHandler
  <2>3. queue' \in [Proposals -> QueueItem]
    BY <1>7, <2>1 DEF ExecuteItem, TypeOK, QueueItem
  <2> QED BY <1>7, <2>2, <2>3 DEF ExecuteItem, TypeOK
<1>8. CASE ExecuteProposal(h)
  BY <1>0, <1>8, HandlerFields DEF ExecuteProposal, TypeOK
<1>9. CASE VetoItem(h)
  <2>1. h.id \in Requests /\ h.proposal \in Proposals
    BY <1>0, <1>9, HandlerFields DEF VetoItem
  <2>2. [step |-> "veto", id |-> h.id, proposal |-> h.proposal] \in AdminHandler
    BY <2>1 DEF AdminHandler
  <2>3. queue' \in [Proposals -> QueueItem]
    BY <1>9, <2>1 DEF VetoItem, TypeOK, QueueItem
  <2> QED BY <1>9, <2>2, <2>3 DEF VetoItem, TypeOK
<1>10. CASE VetoProposal(h)
  BY <1>0, <1>10, HandlerFields DEF VetoProposal, TypeOK
<1> QED BY <1>1, <1>2, <1>3, <1>4, <1>5, <1>6, <1>7, <1>8, <1>9, <1>10 DEF Handle

\* The fields the job has at each of its steps.
LEMMA JobFields ==
  ASSUME job \in JobState
  PROVE  /\ job.step \in {"finalize", "check_passed", "enqueue", "set_timelock"}
              => job.now \in Nat /\ job.due \in SUBSET Due
         /\ job.step \in {"check_passed", "enqueue", "set_timelock"}
              => job.proposal \in Proposals
         /\ job.step = "enqueue" => job.timelockEndsAt \in Nat
         /\ job.step = "expire" => job.expired \in SUBSET Proposals
         /\ job.step = "idle" => job = Idle
BY DEF JobState, Idle

LEMMA NextDueType ==
  ASSUME job \in JobState, job.step \in {"check_passed", "enqueue", "set_timelock"}
  PROVE  NextDue \in JobState
BY JobFields DEF NextDue, JobState

LEMMA JobType == TypeOK /\ RunJob => TypeOK'
<1> SUFFICES ASSUME TypeOK, RunJob PROVE TypeOK'
  OBVIOUS
<1> USE DEF tables, http, history
<1>0. job \in JobState
  BY DEF TypeOK
<1>1. CASE StartFinalization
  <2>1. {[proposal |-> p, rows |-> counted[p]] :
           p \in {p \in Proposals : status[p] = "ACTIVE" /\ VotingEndsAt[p] <= clock}}
          \in SUBSET Due
    BY DEF Due, TypeOK
  <2>2. job' \in JobState
    BY <1>1, <2>1 DEF StartFinalization, JobState, TypeOK
  <2> QED BY <1>1, <2>2 DEF StartFinalization, TypeOK
<1>2. ASSUME job.step = "finalize", NEW d \in job.due, FinalizeProposal(d) PROVE TypeOK'
  <2>1. job.now \in Nat /\ job.due \in SUBSET Due
    BY <1>0, <1>2, JobFields
  <2>2. d.proposal \in Proposals /\ d.rows \in SUBSET Ballot
    BY <2>1 DEF Due
  <2>3. job.due \ {d} \in SUBSET Due
    BY <2>1
  <2>4. job' \in JobState
    BY <1>2, <2>1, <2>2, <2>3 DEF FinalizeProposal, JobState
  <2> QED BY <1>2, <2>2, <2>4, DecideFacts DEF FinalizeProposal, TypeOK
<1>3. CASE CheckPassed
  <2>1. job.now \in Nat /\ job.due \in SUBSET Due /\ job.proposal \in Proposals
    BY <1>0, <1>3, JobFields DEF CheckPassed
  <2>2. (IF TimelockEndsAt[job.proposal] = Null THEN clock ELSE TimelockEndsAt[job.proposal]) \in Nat
    BY <2>1, GovernanceAssumption DEF TypeOK
  <2>3. job' \in JobState
    BY <1>3, <1>0, <2>1, <2>2, NextDueType DEF CheckPassed, JobState
  <2> QED BY <1>3, <2>3 DEF CheckPassed, TypeOK
<1>4. CASE Enqueue
  <2>1. /\ job.now \in Nat /\ job.due \in SUBSET Due /\ job.proposal \in Proposals
        /\ job.timelockEndsAt \in Nat
    BY <1>0, <1>4, JobFields DEF Enqueue
  <2>2. job.timelockEndsAt + ExecutionWindow \in Nat
    BY <2>1, GovernanceAssumption
  <2>3. job' \in JobState
    BY <1>4, <1>0, <2>1, NextDueType DEF Enqueue, JobState
  <2>4. queue' \in [Proposals -> QueueItem]
    BY <1>4, <2>1, <2>2 DEF Enqueue, TypeOK, QueueItem
  <2> QED BY <1>4, <2>3, <2>4 DEF Enqueue, TypeOK
<1>5. CASE SetTimelock
  <2>1. job.proposal \in Proposals
    BY <1>0, <1>5, JobFields DEF SetTimelock
  <2>2. NextDue \in JobState
    BY <1>0, <1>5, NextDueType DEF SetTimelock
  <2> QED BY <1>5, <2>1, <2>2 DEF SetTimelock, TypeOK
<1>6. CASE ExpireItems
  <2>1. queue' \in [Proposals -> QueueItem]
    BY <1>6 DEF ExpireItems, TypeOK, QueueItem
  <2>2. job' \in JobState
    BY <1>6 DEF ExpireItems, JobState
  <2> QED BY <1>6, <2>1, <2>2 DEF ExpireItems, TypeOK
<1>7. ASSUME job.step = "expire", NEW p \in job.expired, ExpireProposal(p) PROVE TypeOK'
  <2>1. job.expired \in SUBSET Proposals
    BY <1>0, <1>7, JobFields
  <2>2. job' \in JobState
    BY <1>7, <2>1 DEF ExpireProposal, JobState
  <2> QED BY <1>7, <2>1, <2>2 DEF ExpireProposal, TypeOK
<1>8. CASE EndFinalization
  BY <1>8 DEF EndFinalization, TypeOK, JobState
<1> QED BY <1>1, <1>2, <1>3, <1>4, <1>5, <1>6, <1>7, <1>8 DEF RunJob

LEMMA OtherType ==
  /\ TypeOK /\ Tick => TypeOK'
  /\ TypeOK /\ JobFails => TypeOK'
  /\ \A h : TypeOK /\ HandlerFails(h) => TypeOK'
<1> USE DEF tables, http, history
<1>1. TypeOK /\ Tick => TypeOK'
  BY DEF Tick, TypeOK
<1>2. TypeOK /\ JobFails => TypeOK'
  <2> SUFFICES ASSUME TypeOK, JobFails PROVE TypeOK'
    OBVIOUS
  <2>1. job' \in JobState
    BY NextDueType DEF JobFails, TypeOK, JobState
  <2> QED BY <2>1 DEF JobFails, TypeOK
<1>3. \A h : TypeOK /\ HandlerFails(h) => TypeOK'
  BY DEF HandlerFails, Return, TypeOK
<1> QED BY <1>1, <1>2, <1>3

LEMMA TypeStep == TypeOK /\ [Next]_vars => TypeOK'
<1> SUFFICES ASSUME TypeOK, [Next]_vars PROVE TypeOK'
  OBVIOUS
<1>1. CASE UNCHANGED vars
  BY <1>1 DEF vars, tables, http, history, TypeOK
<1>2. CASE Next
  BY <1>2, ReceiveType, HandleType, JobType, OtherType DEF Next
<1> QED BY <1>1, <1>2

\* Every column and every local variable keeps its type.
THEOREM TypeCorrect == Spec => []TypeOK
BY InitType, TypeStep, PTL DEF Spec

-----------------------------------------------------------------------------
(* Only approved proposals enter the timelock *)

\* Which proposals the handlers that rely on DecisionInv work on.
LEMMA AdminProposals ==
  ASSUME TypeOK
  PROVE  \A h \in inflight : h.step \in {"execute_item", "execute", "veto_item", "veto"}
                             => h.proposal \in Proposals
<1>1. inflight \subseteq VoteHandler \cup AdminHandler
  BY DEF TypeOK
<1> QED BY <1>1, HandlerFields

LEMMA JobProposals ==
  ASSUME TypeOK
  PROVE  /\ job.step = "set_timelock" => job.proposal \in Proposals
         /\ job.step = "expire" => \A p \in job.expired : p \in Proposals
<1>1. job \in JobState
  BY DEF TypeOK
<1> QED BY <1>1, JobFields

LEMMA DecisionReceive ==
  ASSUME TypeOK, DecisionInv, Receive
  PROVE  DecisionInv'
<1> USE DEF Accept, tables, http, history, Queued, HasPassed
<1>1. ASSUME NEW b \in Ballot, CastVote(b) PROVE DecisionInv'
  BY <1>1 DEF CastVote, DecisionInv
<1>2. ASSUME NEW r \in Requests, NEW p \in Proposals, CheckCancel(r, p) PROVE DecisionInv'
  BY <1>2 DEF CheckCancel, DecisionInv
<1>3. ASSUME NEW r \in Requests, NEW p \in Proposals, CheckExecute(r, p) PROVE DecisionInv'
  BY <1>3 DEF CheckExecute, DecisionInv
<1>4. ASSUME NEW r \in Requests, NEW p \in Proposals, CheckVeto(r, p) PROVE DecisionInv'
  BY <1>4 DEF CheckVeto, DecisionInv
<1> QED BY <1>1, <1>2, <1>3, <1>4 DEF Receive

LEMMA DecisionHandle ==
  ASSUME TypeOK, DecisionInv, NEW h \in inflight, Handle(h)
  PROVE  DecisionInv'
<1> USE DEF Continue, Return, tables, http, history, Queued, HasPassed
<1>0. h \in VoteHandler \cup AdminHandler
  BY DEF TypeOK
<1>1. CASE FindVote(h)
  BY <1>1 DEF FindVote, DecisionInv
<1>2. CASE InsertVote(h)
  BY <1>2 DEF InsertVote, DecisionInv
<1>3. CASE ChangeVote(h)
  BY <1>3 DEF ChangeVote, DecisionInv
<1>4. CASE CountVotes(h)
  BY <1>4 DEF CountVotes, DecisionInv
<1>5. CASE StoreCounts(h)
  BY <1>5 DEF StoreCounts, DecisionInv
<1>6. CASE CancelProposal(h)
  BY <1>0, <1>6, HandlerFields DEF CancelProposal, DecisionInv, TypeOK
<1>7. CASE ExecuteItem(h)
  <2>1. h.proposal \in Proposals /\ Queued(h.proposal)
    BY <1>0, <1>7, HandlerFields DEF ExecuteItem, DecisionInv
  <2>2. \A p \in Proposals : Queued(p)' <=> Queued(p)
    BY <1>7, <2>1 DEF ExecuteItem, TypeOK
  <2>3. UNCHANGED <<status, verdict, judgedOn, job>>
    BY <1>7 DEF ExecuteItem
  <2>4. \A k \in inflight' : k.step \in {"execute_item", "execute", "veto_item", "veto"}
                            => k.proposal \in Proposals /\ Queued(k.proposal)
    BY <1>7, <2>1, AdminProposals DEF ExecuteItem, DecisionInv
  <2> HIDE DEF Queued
  <2> QED BY <2>2, <2>3, <2>4, JobProposals DEF DecisionInv
<1>8. CASE ExecuteProposal(h)
  <2>1. h.proposal \in Proposals /\ Queued(h.proposal)
    BY <1>0, <1>8, HandlerFields DEF ExecuteProposal, DecisionInv
  <2> QED BY <1>8, <2>1 DEF ExecuteProposal, DecisionInv, TypeOK
<1>9. CASE VetoItem(h)
  <2>1. h.proposal \in Proposals /\ Queued(h.proposal)
    BY <1>0, <1>9, HandlerFields DEF VetoItem, DecisionInv
  <2>2. \A p \in Proposals : Queued(p)' <=> Queued(p)
    BY <1>9, <2>1 DEF VetoItem, TypeOK
  <2>3. UNCHANGED <<status, verdict, judgedOn, job>>
    BY <1>9 DEF VetoItem
  <2>4. \A k \in inflight' : k.step \in {"execute_item", "execute", "veto_item", "veto"}
                            => k.proposal \in Proposals /\ Queued(k.proposal)
    BY <1>9, <2>1, AdminProposals DEF VetoItem, DecisionInv
  <2> HIDE DEF Queued
  <2> QED BY <2>2, <2>3, <2>4, JobProposals DEF DecisionInv
<1>10. CASE VetoProposal(h)
  <2>1. h.proposal \in Proposals /\ Queued(h.proposal)
    BY <1>0, <1>10, HandlerFields DEF VetoProposal, DecisionInv
  <2> QED BY <1>10, <2>1 DEF VetoProposal, DecisionInv, TypeOK
<1> QED BY <1>1, <1>2, <1>3, <1>4, <1>5, <1>6, <1>7, <1>8, <1>9, <1>10 DEF Handle

LEMMA DecisionJob ==
  ASSUME TypeOK, DecisionInv, RunJob
  PROVE  DecisionInv'
<1> USE DEF tables, http, history, Queued, HasPassed
<1>0. job \in JobState
  BY DEF TypeOK
<1>1. CASE StartFinalization
  BY <1>1 DEF StartFinalization, DecisionInv
<1>2. ASSUME job.step = "finalize", NEW d \in job.due, FinalizeProposal(d) PROVE DecisionInv'
  <2>1. d.proposal \in Proposals /\ verdict[d.proposal] = "NONE"
    BY <1>0, <1>2, JobFields DEF Due, DecisionInv
  <2>2. ~Queued(d.proposal)
    BY <2>1 DEF DecisionInv
  <2>3. \A e \in job.due \ {d} : e.proposal # d.proposal
    BY <1>2 DEF DecisionInv
  <2>4. \A e \in job.due : e.proposal \in Proposals
    BY <1>0, <1>2, JobFields DEF Due
  <2>5. \A p \in Proposals \ {d.proposal} :
          /\ status'[p] = status[p]
          /\ verdict'[p] = verdict[p]
          /\ judgedOn'[p] = judgedOn[p]
    BY <1>2, <2>1 DEF FinalizeProposal, TypeOK
  <2>6. /\ status'[d.proposal] = Decide(d.rows)
        /\ verdict'[d.proposal] = Decide(d.rows)
        /\ judgedOn'[d.proposal] = d.rows
    BY <1>2, <2>1 DEF FinalizeProposal, TypeOK
  <2>7. status'[d.proposal] \in Verdicts
    BY <2>6, DecideFacts
  <2>8. \A p \in Proposals :
          /\ status'[p] = "ACTIVE" => verdict'[p] = "NONE"
          /\ status'[p] = "PASSED" => HasPassed(p)'
          /\ status'[p] \in {"TIMELOCK", "EXECUTED", "VETOED", "EXPIRED"} => Queued(p)'
          /\ Queued(p)' => HasPassed(p)'
          /\ verdict'[p] = "PASSED" => Approved(judgedOn'[p])
    <3>1. UNCHANGED queue
      BY <1>2 DEF FinalizeProposal
    <3> SUFFICES ASSUME NEW p \in Proposals
                 PROVE /\ status'[p] = "ACTIVE" => verdict'[p] = "NONE"
                       /\ status'[p] = "PASSED" => HasPassed(p)'
                       /\ status'[p] \in {"TIMELOCK", "EXECUTED", "VETOED", "EXPIRED"} => Queued(p)'
                       /\ Queued(p)' => HasPassed(p)'
                       /\ verdict'[p] = "PASSED" => Approved(judgedOn'[p])
      OBVIOUS
    <3>2. CASE p = d.proposal
      BY <3>1, <3>2, <2>2, <2>6, <2>7, DecideFacts DEF Verdicts, Approved
    <3>3. CASE p # d.proposal
      BY <3>1, <3>3, <2>5 DEF DecisionInv, Approved
    <3> QED BY <3>2, <3>3
  <2>9. \A h \in inflight : h.step \in {"execute_item", "execute", "veto_item", "veto"}
                          => Queued(h.proposal)
    BY DEF DecisionInv
  <2>10. /\ job'.step \in {"finalize", "check_passed"}
         /\ job'.due = job.due \ {d}
         /\ job'.step = "check_passed" => job'.proposal = d.proposal /\ Decide(d.rows) = "PASSED"
    BY <1>2 DEF FinalizeProposal
  <2>11. \A e \in job'.due : verdict'[e.proposal] = "NONE"
    BY <1>2, <2>3, <2>4, <2>5, <2>10 DEF DecisionInv
  <2>12. job'.step = "check_passed" => HasPassed(job.proposal)'
    BY <2>6, <2>10, DecideFacts DEF Approved
  <2>13. UNCHANGED <<queue, inflight>>
    BY <1>2 DEF FinalizeProposal
  <2> QED BY <1>2, <2>8, <2>9, <2>10, <2>11, <2>12, <2>13 DEF DecisionInv
<1>3. CASE CheckPassed
  BY <1>3 DEF CheckPassed, NextDue, DecisionInv
<1>4. CASE Enqueue
  <2>1. job.proposal \in Proposals
    BY <1>0, <1>4, JobFields DEF Enqueue
  <2>2. CASE queue[job.proposal].status = "ABSENT"
    <3>1. \A p \in Proposals : Queued(p)' <=> Queued(p) \/ p = job.proposal
      BY <1>4, <2>1, <2>2 DEF Enqueue, TypeOK
    <3>2. /\ job'.step = "set_timelock" /\ job'.due = job.due
          /\ job'.proposal = job.proposal
      BY <1>4, <2>2 DEF Enqueue
    <3>3. UNCHANGED <<status, verdict, judgedOn, inflight>>
      BY <1>4 DEF Enqueue
    <3>4. job.step = "enqueue" /\ HasPassed(job.proposal)
      BY <1>4 DEF Enqueue, DecisionInv
    <3> QED BY <2>1, <3>1, <3>2, <3>3, <3>4, AdminProposals DEF DecisionInv
  <2>3. CASE queue[job.proposal].status # "ABSENT"
    BY <1>4, <2>3 DEF Enqueue, NextDue, DecisionInv
  <2> QED BY <2>2, <2>3
<1>5. CASE SetTimelock
  <2>1. job.proposal \in Proposals /\ Queued(job.proposal)
    BY <1>0, <1>5, JobFields DEF SetTimelock, DecisionInv
  <2> QED BY <1>5, <2>1 DEF SetTimelock, NextDue, DecisionInv, TypeOK
<1>6. CASE ExpireItems
  <2>1. \A p \in Proposals : Queued(p)' <=> Queued(p)
    BY <1>6 DEF ExpireItems, TypeOK, QueueItem
  <2>2. job'.step = "expire" /\ \A p \in job'.expired : p \in Proposals /\ Queued(p)
    BY <1>6 DEF ExpireItems
  <2> QED BY <1>6, <2>1, <2>2, AdminProposals DEF ExpireItems, DecisionInv
<1>7. ASSUME job.step = "expire", NEW p \in job.expired, ExpireProposal(p) PROVE DecisionInv'
  <2>1. p \in Proposals /\ Queued(p)
    BY <1>0, <1>7, JobFields DEF DecisionInv
  <2> QED BY <1>7, <2>1 DEF ExpireProposal, DecisionInv, TypeOK
<1>8. CASE EndFinalization
  BY <1>8 DEF EndFinalization, DecisionInv, Idle
<1> QED BY <1>1, <1>2, <1>3, <1>4, <1>5, <1>6, <1>7, <1>8 DEF RunJob

LEMMA DecisionOther ==
  ASSUME TypeOK, DecisionInv
  PROVE  /\ UNCHANGED vars => DecisionInv'
         /\ Tick => DecisionInv'
         /\ JobFails => DecisionInv'
         /\ \A h : HandlerFails(h) => DecisionInv'
<1> USE DEF tables, http, history, Queued, HasPassed
<1>1. UNCHANGED vars => DecisionInv'
  BY DEF vars, DecisionInv
<1>2. Tick => DecisionInv'
  BY DEF Tick, DecisionInv
<1>3. JobFails => DecisionInv'
  BY DEF JobFails, NextDue, Idle, DecisionInv
<1>4. \A h : HandlerFails(h) => DecisionInv'
  BY DEF HandlerFails, Return, DecisionInv
<1> QED BY <1>1, <1>2, <1>3, <1>4

LEMMA DecisionInit == Init => DecisionInv
BY DEF Init, DecisionInv, Queued, HasPassed, NoQueueItem, Idle

LEMMA DecisionStep == TypeOK /\ DecisionInv /\ [Next]_vars => DecisionInv'
BY DecisionReceive, DecisionHandle, DecisionJob, DecisionOther DEF Next

\* The inductive invariant holds in every reachable state.
LEMMA DecisionCorrect == Spec => [](TypeOK /\ DecisionInv)
BY InitType, TypeStep, DecisionInit, DecisionStep, PTL DEF Spec

\* Whatever is queued for the timelock, or has gone through it, was judged on
\* a tally with a quorum and a majority.
THEOREM ApprovalBeforeExecution == Spec => []ExecutedOnlyIfApproved
<1>1. DecisionInv => ExecutedOnlyIfApproved
  BY DEF DecisionInv, ExecutedOnlyIfApproved, Queued, HasPassed
<1> QED BY <1>1, DecisionCorrect, PTL

-----------------------------------------------------------------------------
(* Executions fall inside the window *)

LEMMA WindowInit == Init => WindowInv
BY GovernanceAssumption DEF Init, WindowInv, Queued, InWindow, NoQueueItem, Idle

LEMMA WindowReceive ==
  ASSUME TypeOK, DecisionInv, WindowInv, Receive
  PROVE  WindowInv'
<1> USE DEF Accept, tables, http, history, Queued, InWindow
<1>1. ASSUME NEW b \in Ballot, CastVote(b) PROVE WindowInv'
  BY <1>1 DEF CastVote, WindowInv
<1>2. ASSUME NEW r \in Requests, NEW p \in Proposals, CheckCancel(r, p) PROVE WindowInv'
  BY <1>2 DEF CheckCancel, WindowInv
<1>3. ASSUME NEW r \in Requests, NEW p \in Proposals, CheckExecute(r, p) PROVE WindowInv'
  <2>1. Queued(p) /\ InWindow(p, clock) /\ clock \in VotingEndsAt[p] .. clock
    BY <1>3, GovernanceAssumption
       DEF CheckExecute, DecisionInv, HasPassed, WindowInv, TypeOK
  <2> QED BY <1>3, <2>1 DEF CheckExecute, WindowInv
<1>4. ASSUME NEW r \in Requests, NEW p \in Proposals, CheckVeto(r, p) PROVE WindowInv'
  BY <1>4 DEF CheckVeto, WindowInv
<1> QED BY <1>1, <1>2, <1>3, <1>4 DEF Receive

\* Statements that touch neither the queue, the clock, the verdicts nor the job.
LEMMA WindowQuiet ==
  ASSUME WindowInv, UNCHANGED <<clock, queue, verdict, job>>,
         \A k \in inflight' : k.step = "execute_item" => k \in inflight
  PROVE  WindowInv'
BY DEF WindowInv, Queued, InWindow

LEMMA WindowHandle ==
  ASSUME TypeOK, DecisionInv, WindowInv, NEW h \in inflight, Handle(h)
  PROVE  WindowInv'
<1> USE DEF Continue, Return, tables, http, history
<1>0. h \in VoteHandler \cup AdminHandler
  BY DEF TypeOK
<1>1. CASE FindVote(h)
  BY <1>1, WindowQuiet DEF FindVote
<1>2. CASE InsertVote(h)
  BY <1>2, WindowQuiet DEF InsertVote
<1>3. CASE ChangeVote(h)
  BY <1>3, WindowQuiet DEF ChangeVote
<1>4. CASE CountVotes(h)
  BY <1>4, WindowQuiet DEF CountVotes
<1>5. CASE StoreCounts(h)
  BY <1>5, WindowQuiet DEF StoreCounts
<1>6. CASE CancelProposal(h)
  BY <1>6, WindowQuiet DEF CancelProposal
<1>7. CASE ExecuteItem(h)
  <2>1. h.proposal \in Proposals /\ Queued(h.proposal) /\ h.at \in Nat
    BY <1>0, <1>7, HandlerFields DEF ExecuteItem, DecisionInv
  <2>2. /\ InWindow(h.proposal, h.at)
        /\ h.at \in VotingEndsAt[h.proposal] .. clock
    BY <1>7 DEF ExecuteItem, WindowInv
  <2>3. \A p \in Proposals :
          /\ Queued(p)' <=> Queued(p)
          /\ queue'[p].timelockEndsAt = queue[p].timelockEndsAt
          /\ queue'[p].executionDeadline = queue[p].executionDeadline
          /\ p # h.proposal => queue'[p] = queue[p]
    BY <1>7, <2>1 DEF ExecuteItem, TypeOK, Queued
  <2>4. queue'[h.proposal].executedAt = h.at
    BY <1>7, <2>1 DEF ExecuteItem, TypeOK, QueueItem
  <2>5. UNCHANGED <<clock, verdict, job>>
    BY <1>7 DEF ExecuteItem
  <2>6. \A k \in inflight' : k.step = "execute_item"
                               => k \in inflight /\ k.proposal \in Proposals
    BY <1>7, AdminProposals DEF ExecuteItem
  <2>7. h.at >= VotingEndsAt[h.proposal]
    BY <2>1, <2>2, GovernanceAssumption
  <2> QED BY <2>1, <2>2, <2>3, <2>4, <2>5, <2>6, <2>7 DEF WindowInv, InWindow
<1>8. CASE ExecuteProposal(h)
  BY <1>8, WindowQuiet DEF ExecuteProposal
<1>9. CASE VetoItem(h)
  <2>1. h.proposal \in Proposals /\ Queued(h.proposal)
    BY <1>0, <1>9, HandlerFields DEF VetoItem, DecisionInv
  <2>2. \A p \in Proposals :
          /\ Queued(p)' <=> Queued(p)
          /\ queue'[p].timelockEndsAt = queue[p].timelockEndsAt
          /\ queue'[p].executionDeadline = queue[p].executionDeadline
          /\ queue'[p].executedAt = queue[p].executedAt
          /\ p # h.proposal => queue'[p] = queue[p]
    BY <1>9, <2>1 DEF VetoItem, TypeOK, QueueItem, Queued
  <2>3. UNCHANGED <<clock, verdict, job>>
    BY <1>9 DEF VetoItem
  <2>4. \A k \in inflight' : k.step = "execute_item"
                               => k \in inflight /\ k.proposal \in Proposals
    BY <1>9, AdminProposals DEF VetoItem
  <2> QED BY <2>1, <2>2, <2>3, <2>4 DEF WindowInv, InWindow
<1>10. CASE VetoProposal(h)
  BY <1>10, WindowQuiet DEF VetoProposal
<1> QED BY <1>1, <1>2, <1>3, <1>4, <1>5, <1>6, <1>7, <1>8, <1>9, <1>10 DEF Handle

LEMMA WindowJob ==
  ASSUME TypeOK, DecisionInv, WindowInv, RunJob
  PROVE  WindowInv'
<1> USE DEF tables, http, history
<1>0. job \in JobState
  BY DEF TypeOK
<1>1. CASE StartFinalization
  BY <1>1 DEF StartFinalization, WindowInv, Queued, InWindow
<1>2. ASSUME job.step = "finalize", NEW d \in job.due, FinalizeProposal(d) PROVE WindowInv'
  <2>1. d.proposal \in Proposals /\ VotingEndsAt[d.proposal] <= clock
    BY <1>0, <1>2, JobFields DEF Due, WindowInv
  <2>2. /\ job'.step \in {"finalize", "check_passed"}
        /\ job'.due \subseteq job.due
    BY <1>2 DEF FinalizeProposal
  <2>3. \A p \in Proposals : verdict'[p] # "NONE" => VotingEndsAt[p] <= clock
    BY <1>2, <2>1 DEF FinalizeProposal, WindowInv, TypeOK
  <2>4. UNCHANGED <<clock, queue, inflight>>
    BY <1>2 DEF FinalizeProposal
  <2> QED BY <1>2, <2>2, <2>3, <2>4 DEF WindowInv, Queued, InWindow
<1>3. CASE CheckPassed
  <2>1. job.proposal \in Proposals
    BY <1>0, <1>3, JobFields DEF CheckPassed
  <2>2. (IF TimelockEndsAt[job.proposal] = Null THEN clock ELSE TimelockEndsAt[job.proposal])
          >= TimelockEndsAt[job.proposal]
    BY <2>1, GovernanceAssumption DEF TypeOK
  <2>3. /\ job'.step \in {"finalize", "enqueue"}
        /\ job'.due = job.due
        /\ job'.step = "enqueue" => job'.timelockEndsAt >= TimelockEndsAt[job'.proposal]
    BY <1>3, <2>2 DEF CheckPassed, NextDue
  <2> QED BY <1>3, <2>3 DEF CheckPassed, WindowInv, Queued, InWindow
<1>4. CASE Enqueue
  <2>1. job.proposal \in Proposals /\ job.timelockEndsAt \in Nat
    BY <1>0, <1>4, JobFields DEF Enqueue
  <2>2. job'.step \in {"set_timelock", "finalize"} /\ job'.due = job.due
    BY <1>4 DEF Enqueue, NextDue
  <2>3. CASE queue[job.proposal].status = "ABSENT"
    <3>1. queue'[job.proposal] =
            [status |-> "PENDING", timelockEndsAt |-> job.timelockEndsAt,
             executionDeadline |-> job.timelockEndsAt + ExecutionWindow,
             executedAt |-> Null]
      BY <1>4, <2>1, <2>3 DEF Enqueue, TypeOK
    <3>2. \A p \in Proposals \ {job.proposal} : queue'[p] = queue[p]
      BY <1>4, <2>1, <2>3 DEF Enqueue, TypeOK
    <3>3. \A h \in inflight : h.step = "execute_item"
                               => h.proposal \in Proposals \ {job.proposal}
      BY <2>3, AdminProposals DEF DecisionInv, Queued
    <3>4. UNCHANGED <<clock, verdict, inflight>>
      BY <1>4 DEF Enqueue
    <3>5. job.timelockEndsAt >= TimelockEndsAt[job.proposal]
      BY <1>4 DEF Enqueue, WindowInv
    <3>6. job.timelockEndsAt + ExecutionWindow \in Nat
      BY <2>1, GovernanceAssumption
    <3>7. \A p \in Proposals :
            /\ verdict'[p] # "NONE" => VotingEndsAt[p] <= clock'
            /\ ~Queued(p)' => queue'[p] = NoQueueItem
            /\ Queued(p)' => /\ queue'[p].timelockEndsAt \in Nat
                             /\ queue'[p].executionDeadline \in Nat
                             /\ queue'[p].timelockEndsAt >= TimelockEndsAt[p]
            /\ queue'[p].executedAt # Null => InWindow(p, queue[p].executedAt)'
                                              /\ queue'[p].executedAt >= VotingEndsAt[p]
      BY <2>1, <3>1, <3>2, <3>4, <3>5, <3>6 DEF WindowInv, Queued, InWindow
    <3>8. \A h \in inflight' : h.step = "execute_item" =>
            InWindow(h.proposal, h.at)' /\ h.at \in VotingEndsAt[h.proposal] .. clock'
      BY <3>2, <3>3, <3>4 DEF WindowInv, InWindow
    <3>9. \A d \in job'.due : VotingEndsAt[d.proposal] <= clock'
      BY <1>4, <2>2, <3>4 DEF Enqueue, WindowInv
    <3> QED BY <2>2, <3>7, <3>8, <3>9 DEF WindowInv
  <2>4. CASE queue[job.proposal].status # "ABSENT"
    BY <1>4, <2>2, <2>4 DEF Enqueue, WindowInv, Queued, InWindow
  <2> QED BY <2>3, <2>4
<1>5. CASE SetTimelock
  BY <1>5 DEF SetTimelock, NextDue, WindowInv, Queued, InWindow
<1>6. CASE ExpireItems
  <2>1. \A p \in Proposals :
          /\ Queued(p)' <=> Queued(p)
          /\ queue'[p].timelockEndsAt = queue[p].timelockEndsAt
          /\ queue'[p].executionDeadline = queue[p].executionDeadline
          /\ queue'[p].executedAt = queue[p].executedAt
          /\ ~Queued(p) => queue'[p] = queue[p]
    BY <1>6 DEF ExpireItems, TypeOK, QueueItem, Queued
  <2>2. UNCHANGED <<clock, verdict, inflight>> /\ job'.step = "expire"
    BY <1>6 DEF ExpireItems
  <2> QED BY <2>1, <2>2, AdminProposals DEF WindowInv, InWindow
<1>7. ASSUME job.step = "expire", NEW p \in job.expired, ExpireProposal(p) PROVE WindowInv'
  BY <1>7 DEF ExpireProposal, WindowInv, Queued, InWindow
<1>8. CASE EndFinalization
  BY <1>8 DEF EndFinalization, Idle, WindowInv, Queued, InWindow
<1> QED BY <1>1, <1>2, <1>3, <1>4, <1>5, <1>6, <1>7, <1>8 DEF RunJob

LEMMA WindowOther ==
  ASSUME TypeOK, WindowInv
  PROVE  /\ UNCHANGED vars => WindowInv'
         /\ Tick => WindowInv'
         /\ JobFails => WindowInv'
         /\ \A h : HandlerFails(h) => WindowInv'
<1> USE DEF tables, http, history, Queued, InWindow
<1>1. UNCHANGED vars => WindowInv'
  BY DEF vars, WindowInv
<1>2. Tick => WindowInv'
  <2> SUFFICES ASSUME Tick PROVE WindowInv'
    OBVIOUS
  <2>1. clock \in Nat /\ clock' = clock + 1
    BY DEF Tick, TypeOK
  <2>2. \A h \in inflight : h.step = "execute_item" => h.proposal \in Proposals
    BY AdminProposals
  <2>3. job.step \in {"finalize", "check_passed", "enqueue", "set_timelock"} =>
          \A d \in job.due : d.proposal \in Proposals
    BY JobFields DEF TypeOK, Due
  <2> QED BY <2>1, <2>2, <2>3, GovernanceAssumption DEF Tick, WindowInv
<1>3. JobFails => WindowInv'
  BY DEF JobFails, NextDue, Idle, WindowInv
<1>4. \A h : HandlerFails(h) => WindowInv'
  BY DEF HandlerFails, Return, WindowInv
<1> QED BY <1>1, <1>2, <1>3, <1>4

LEMMA WindowStep == TypeOK /\ DecisionInv /\ WindowInv /\ [Next]_vars => WindowInv'
BY WindowReceive, WindowHandle, WindowJob, WindowOther DEF Next

LEMMA WindowCorrect == Spec => [](TypeOK /\ DecisionInv /\ WindowInv)
BY InitType, TypeStep, DecisionInit, DecisionStep, WindowInit, WindowStep, PTL DEF Spec

\* No execution is recorded before its timelock is over, after its deadline or
\* before the vote ends, however handlers, job and clock interleave.
THEOREM ExecutionWindowKept == Spec => []ExecutionInsideWindow
<1>1. TypeOK /\ DecisionInv /\ WindowInv => ExecutionInsideWindow
  <2> SUFFICES ASSUME TypeOK, WindowInv, NEW p \in Proposals, queue[p].executedAt # Null
               PROVE  /\ InWindow(p, queue[p].executedAt)
                      /\ queue[p].executedAt >= TimelockEndsAt[p]
                      /\ queue[p].executedAt >= VotingEndsAt[p]
    BY DEF ExecutionInsideWindow, InWindow
  <2>1. Queued(p)
    BY DEF WindowInv, NoQueueItem
  <2>2. TimelockEndsAt[p] \in Int
    BY GovernanceAssumption
  <2> QED BY <2>1, <2>2 DEF WindowInv, InWindow
<1> QED BY <1>1, WindowCorrect, PTL

-----------------------------------------------------------------------------
(* Tallies are made of votes *)

\* Rows of governance_votes are never deleted; a change keeps id, voter, proposal.
LEMMA VotesKept ==
  ASSUME TypeOK, Next
  PROVE  \A v \in votes : \E w \in votes' :
           w.id = v.id /\ w.voter = v.voter /\ w.proposal = v.proposal
<1> USE DEF tables, http, history
<1>1. CASE Receive
  BY <1>1 DEF Receive, CastVote, CheckCancel, CheckExecute, CheckVeto
<1>2. ASSUME NEW h \in inflight, Handle(h)
      PROVE  \A v \in votes : \E w \in votes' :
               w.id = v.id /\ w.voter = v.voter /\ w.proposal = v.proposal
  <2>1. CASE ChangeVote(h)
    <3> SUFFICES ASSUME NEW v \in votes
                 PROVE  \E w \in votes' :
                          w.id = v.id /\ w.voter = v.voter /\ w.proposal = v.proposal
      OBVIOUS
    <3> DEFINE w == IF v.id = h.row THEN [v EXCEPT !.direction = h.ballot.direction] ELSE v
    <3>1. w \in votes'
      BY <2>1 DEF ChangeVote
    <3>2. w.id = v.id /\ w.voter = v.voter /\ w.proposal = v.proposal
      BY DEF TypeOK, Ballot
    <3> QED BY <3>1, <3>2
  <2>2. CASE ~ChangeVote(h)
    BY <1>2, <2>2
       DEF Handle, FindVote, InsertVote, CountVotes, StoreCounts, CancelProposal,
           ExecuteItem, ExecuteProposal, VetoItem, VetoProposal
  <2> QED BY <2>1, <2>2
<1>3. CASE RunJob
  BY <1>3 DEF RunJob, StartFinalization, FinalizeProposal, CheckPassed, Enqueue,
              SetTimelock, ExpireItems, ExpireProposal, EndFinalization
<1>4. CASE Tick \/ JobFails \/ \E h \in inflight : HandlerFails(h)
  BY <1>4 DEF Tick, JobFails, HandlerFails
<1> QED BY <1>1, <1>2, <1>3, <1>4 DEF Next

\* A tally made of votes stays one.
LEMMA TallyKept ==
  ASSUME TypeOK, Next, NEW p, NEW rows, WereCast(p, rows)
  PROVE  WereCast(p, rows)'
BY VotesKept DEF WereCast

\* Steps that store no tally, in a table or in a handler.
LEMMA CastQuiet ==
  ASSUME TypeOK, CastInv, Next, UNCHANGED <<counted, judgedOn>>,
         \A k \in inflight' : k.step = "store" => k \in inflight,
         job'.step \in {"finalize", "check_passed", "enqueue", "set_timelock"} =>
           /\ job.step \in {"finalize", "check_passed", "enqueue", "set_timelock"}
           /\ job'.due \subseteq job.due
  PROVE  CastInv'
<1>1. \A p \in Proposals : WereCast(p, counted[p])' /\ WereCast(p, judgedOn[p])'
  BY TallyKept DEF CastInv
<1>2. \A h \in inflight' : h.step = "store" => WereCast(h.ballot.proposal, h.rows)'
  BY TallyKept DEF CastInv
<1>3. job'.step \in {"finalize", "check_passed", "enqueue", "set_timelock"} =>
        \A d \in job'.due : WereCast(d.proposal, d.rows)'
  BY TallyKept DEF CastInv
<1> QED BY <1>1, <1>2, <1>3 DEF CastInv

LEMMA CastHandle ==
  ASSUME TypeOK, CastInv, Next, NEW h \in inflight, Handle(h)
  PROVE  CastInv'
<1> USE DEF Continue, Return, tables, http, history
<1>0. h \in VoteHandler \cup AdminHandler
  BY DEF TypeOK
<1>1. CASE FindVote(h)
  BY <1>1, CastQuiet DEF FindVote
<1>2. CASE InsertVote(h)
  BY <1>2, CastQuiet DEF InsertVote
<1>3. CASE ChangeVote(h)
  BY <1>3, CastQuiet DEF ChangeVote
<1>4. CASE CountVotes(h)
  <2>1. WereCast(h.ballot.proposal, {v \in votes : v.proposal = h.ballot.proposal})
    BY DEF WereCast
  <2>2. UNCHANGED <<counted, judgedOn, job, votes>>
    BY <1>4 DEF CountVotes
  <2>3. \A k \in inflight' : k.step = "store" =>
          \/ k \in inflight
          \/ /\ k.ballot = h.ballot
             /\ k.rows = {v \in votes : v.proposal = h.ballot.proposal}
    BY <1>4 DEF CountVotes
  <2> QED BY <2>1, <2>2, <2>3 DEF CastInv, WereCast
<1>5. CASE StoreCounts(h)
  <2>1. h.ballot.proposal \in Proposals /\ h.step = "store"
    BY <1>0, <1>5, HandlerFields DEF StoreCounts, Ballot
  <2>2. WereCast(h.ballot.proposal, h.rows)
    BY <2>1 DEF CastInv
  <2>3. \A p \in Proposals :
          (counted'[p] = h.rows /\ p = h.ballot.proposal) \/ counted'[p] = counted[p]
    BY <1>5, <2>1 DEF StoreCounts, TypeOK
  <2>4. UNCHANGED <<judgedOn, job, votes>> /\ inflight' \subseteq inflight
    BY <1>5 DEF StoreCounts
  <2> QED BY <2>2, <2>3, <2>4 DEF CastInv, WereCast
<1>6. CASE CancelProposal(h)
  BY <1>6, CastQuiet DEF CancelProposal
<1>7. CASE ExecuteItem(h)
  BY <1>7, CastQuiet DEF ExecuteItem
<1>8. CASE ExecuteProposal(h)
  BY <1>8, CastQuiet DEF ExecuteProposal
<1>9. CASE VetoItem(h)
  BY <1>9, CastQuiet DEF VetoItem
<1>10. CASE VetoProposal(h)
  BY <1>10, CastQuiet DEF VetoProposal
<1> QED BY <1>1, <1>2, <1>3, <1>4, <1>5, <1>6, <1>7, <1>8, <1>9, <1>10 DEF Handle

LEMMA CastJob ==
  ASSUME TypeOK, CastInv, Next, RunJob
  PROVE  CastInv'
<1> USE DEF tables, http, history
<1>0. job \in JobState
  BY DEF TypeOK
<1>1. CASE StartFinalization
  <2>1. \A d \in job'.due : WereCast(d.proposal, d.rows)
    BY <1>1 DEF StartFinalization, CastInv
  <2> QED BY <1>1, <2>1 DEF StartFinalization, CastInv, WereCast
<1>2. ASSUME job.step = "finalize", NEW d \in job.due, FinalizeProposal(d) PROVE CastInv'
  <2>1. d.proposal \in Proposals /\ WereCast(d.proposal, d.rows)
    BY <1>0, <1>2, JobFields DEF Due, CastInv
  <2>2. \A p \in Proposals :
          (judgedOn'[p] = d.rows /\ p = d.proposal) \/ judgedOn'[p] = judgedOn[p]
    BY <1>2, <2>1 DEF FinalizeProposal, TypeOK
  <2>3. UNCHANGED <<counted, votes, inflight>> /\ job'.due \subseteq job.due
    BY <1>2 DEF FinalizeProposal
  <2> QED BY <1>2, <2>1, <2>2, <2>3 DEF CastInv, WereCast
<1>3. CASE CheckPassed \/ Enqueue \/ SetTimelock
  BY <1>3, CastQuiet DEF CheckPassed, Enqueue, SetTimelock, NextDue
<1>4. CASE ExpireItems \/ EndFinalization
  BY <1>4, CastQuiet DEF ExpireItems, EndFinalization, Idle
<1>5. ASSUME job.step = "expire", NEW p \in job.expired, ExpireProposal(p) PROVE CastInv'
  BY <1>5, CastQuiet DEF ExpireProposal
<1> QED BY <1>1, <1>2, <1>3, <1>4, <1>5 DEF RunJob

LEMMA CastInit == Init => CastInv
BY DEF Init, CastInv, WereCast, Idle

LEMMA CastStep == TypeOK /\ CastInv /\ [Next]_vars => CastInv'
<1> SUFFICES ASSUME TypeOK, CastInv, [Next]_vars PROVE CastInv'
  OBVIOUS
<1> USE DEF tables, http, history
<1>1. CASE UNCHANGED vars
  BY <1>1 DEF vars, CastInv, WereCast
<1>2. ASSUME Next, Receive PROVE CastInv'
  BY <1>2, CastQuiet
     DEF Receive, Accept, CastVote, CheckCancel, CheckExecute, CheckVeto
<1>3. ASSUME Next, Tick PROVE CastInv'
  BY <1>3, CastQuiet DEF Tick
<1>4. ASSUME Next, JobFails PROVE CastInv'
  BY <1>4, CastQuiet DEF JobFails, NextDue, Idle
<1>5. ASSUME Next, NEW h \in inflight, HandlerFails(h) PROVE CastInv'
  BY <1>5, CastQuiet DEF HandlerFails, Return
<1> QED BY <1>1, <1>2, <1>3, <1>4, <1>5, CastHandle, CastJob DEF Next

\* The tallies, and so the verdicts, only ever count votes that are in the table.
THEOREM OnlyCastVotesCount == Spec => []CountedBallotsWereCast
<1>1. CastInv => CountedBallotsWereCast
  BY DEF CastInv, WereCast, CountedBallotsWereCast
<1> QED BY <1>1, InitType, TypeStep, CastInit, CastStep, PTL DEF Spec

-----------------------------------------------------------------------------
(* Verdicts and timelocks are final; the promise of Approval is kept *)

\* What one step can do to the queue row and the verdict of a proposal.
Settles(p) ==
  /\ verdict[p] = "NONE" /\ ~Queued(p)
  /\ UNCHANGED <<clock, queue>>
  /\ verdict'[p] \in Verdicts

Opens(p) ==
  /\ HasPassed(p) /\ ~Queued(p)
  /\ queue'[p].timelockEndsAt \in Nat
  /\ queue'[p].executedAt = Null
  /\ UNCHANGED <<clock, verdict, judgedOn>>

Enacts(p) ==
  /\ Queued(p)
  /\ queue'[p].executedAt \in queue[p].timelockEndsAt .. clock
  /\ queue'[p].status = "EXECUTED"
  /\ queue'[p].timelockEndsAt = queue[p].timelockEndsAt
  /\ queue'[p].executionDeadline = queue[p].executionDeadline
  /\ UNCHANGED <<clock, verdict, judgedOn>>

Rests(p) ==
  /\ verdict'[p] = verdict[p] /\ judgedOn'[p] = judgedOn[p]
  /\ queue'[p].executedAt = queue[p].executedAt
  /\ queue'[p].timelockEndsAt = queue[p].timelockEndsAt
  /\ queue'[p].executionDeadline = queue[p].executionDeadline
  /\ \/ queue'[p].status = queue[p].status
     \/ Queued(p) /\ queue'[p].status \in {"VETOED", "EXPIRED"}

\* A step does one of these to one proposal and leaves the others at rest.
Effect ==
  \/ clock' \in {clock, clock + 1} /\ \A p \in Proposals : Rests(p)
  \/ \E p \in Proposals :
       /\ Settles(p) \/ Opens(p) \/ Enacts(p)
       /\ \A q \in Proposals \ {p} : Rests(q)

LEMMA Untouched ==
  ASSUME UNCHANGED <<clock, queue, history>>
  PROVE  Effect
BY DEF Effect, Rests, history

LEMMA StepEffect ==
  ASSUME TypeOK, DecisionInv, WindowInv, [Next]_vars
  PROVE  Effect
<1> USE DEF tables, http, history
<1>1. CASE UNCHANGED vars
  BY <1>1, Untouched DEF vars
<1>2. CASE Receive
  BY <1>2, Untouched DEF Receive, CastVote, CheckCancel, CheckExecute, CheckVeto
<1>3. ASSUME NEW h \in inflight, Handle(h) PROVE Effect
  <2>0. h \in VoteHandler \cup AdminHandler
    BY DEF TypeOK
  <2>1. CASE FindVote(h) \/ InsertVote(h) \/ ChangeVote(h) \/ CountVotes(h) \/ StoreCounts(h)
    BY <2>1, Untouched DEF FindVote, InsertVote, ChangeVote, CountVotes, StoreCounts
  <2>2. CASE CancelProposal(h) \/ ExecuteProposal(h) \/ VetoProposal(h)
    BY <2>2, Untouched DEF CancelProposal, ExecuteProposal, VetoProposal
  <2>3. CASE ExecuteItem(h)
    <3>1. h.proposal \in Proposals /\ Queued(h.proposal) /\ h.at \in Nat
      BY <2>0, <2>3, HandlerFields DEF ExecuteItem, DecisionInv
    <3>2. InWindow(h.proposal, h.at) /\ h.at <= clock
      BY <2>3, <3>1 DEF ExecuteItem, WindowInv
    <3>3. /\ queue'[h.proposal].executedAt = h.at
          /\ queue'[h.proposal].status = "EXECUTED"
          /\ queue'[h.proposal].timelockEndsAt = queue[h.proposal].timelockEndsAt
          /\ queue'[h.proposal].executionDeadline = queue[h.proposal].executionDeadline
          /\ \A q \in Proposals \ {h.proposal} : queue'[q] = queue[q]
      BY <2>3, <3>1 DEF ExecuteItem, TypeOK, QueueItem
    <3>4. UNCHANGED <<clock, verdict, judgedOn>>
      BY <2>3 DEF ExecuteItem
    <3>5. queue[h.proposal].timelockEndsAt \in Nat /\ clock \in Nat
      BY <3>1 DEF WindowInv, TypeOK
    <3>6. Enacts(h.proposal)
      BY <3>1, <3>2, <3>3, <3>4, <3>5 DEF Enacts, InWindow
    <3>7. \A q \in Proposals \ {h.proposal} : Rests(q)
      BY <3>3, <3>4 DEF Rests
    <3> QED BY <3>1, <3>6, <3>7 DEF Effect
  <2>4. CASE VetoItem(h)
    <3>1. h.proposal \in Proposals /\ Queued(h.proposal)
      BY <2>0, <2>4, HandlerFields DEF VetoItem, DecisionInv
    <3>2. \A q \in Proposals : Rests(q)
      BY <2>4, <3>1 DEF VetoItem, Rests, TypeOK, QueueItem
    <3> QED BY <2>4, <3>2 DEF Effect, VetoItem
  <2> QED BY <1>3, <2>1, <2>2, <2>3, <2>4 DEF Handle
<1>4. CASE RunJob
  <2>0. job \in JobState
    BY DEF TypeOK
  <2>1. CASE StartFinalization \/ CheckPassed \/ SetTimelock \/ EndFinalization
    BY <2>1, Untouched DEF StartFinalization, CheckPassed, SetTimelock, EndFinalization
  <2>2. ASSUME job.step = "finalize", NEW d \in job.due, FinalizeProposal(d) PROVE Effect
    <3>1. d.proposal \in Proposals /\ verdict[d.proposal] = "NONE"
      BY <2>0, <2>2, JobFields DEF Due, DecisionInv
    <3>2. ~Queued(d.proposal)
      BY <3>1 DEF DecisionInv, HasPassed
    <3>3. /\ verdict'[d.proposal] = Decide(d.rows)
          /\ \A q \in Proposals \ {d.proposal} :
               verdict'[q] = verdict[q] /\ judgedOn'[q] = judgedOn[q]
      BY <2>2, <3>1 DEF FinalizeProposal, TypeOK
    <3>4. UNCHANGED <<clock, queue>>
      BY <2>2 DEF FinalizeProposal
    <3>5. Settles(d.proposal)
      BY <3>1, <3>2, <3>3, <3>4, DecideFacts DEF Settles
    <3>6. \A q \in Proposals \ {d.proposal} : Rests(q)
      BY <3>3, <3>4 DEF Rests
    <3> QED BY <3>1, <3>5, <3>6 DEF Effect
  <2>3. CASE Enqueue
    <3>1. job.proposal \in Proposals /\ job.timelockEndsAt \in Nat /\ HasPassed(job.proposal)
      BY <2>0, <2>3, JobFields DEF Enqueue, DecisionInv
    <3>2. UNCHANGED <<clock, verdict, judgedOn>>
      BY <2>3 DEF Enqueue
    <3>3. CASE queue[job.proposal].status = "ABSENT"
      <4>1. Opens(job.proposal)
        BY <2>3, <3>1, <3>2, <3>3 DEF Enqueue, Opens, Queued, TypeOK
      <4>2. \A q \in Proposals \ {job.proposal} : Rests(q)
        BY <2>3, <3>1, <3>2, <3>3 DEF Enqueue, Rests, TypeOK
      <4> QED BY <3>1, <4>1, <4>2 DEF Effect
    <3>4. CASE queue[job.proposal].status # "ABSENT"
      BY <2>3, <3>2, <3>4, Untouched DEF Enqueue
    <3> QED BY <3>3, <3>4
  <2>4. CASE ExpireItems
    <3>1. \A q \in Proposals : Rests(q)
      BY <2>4 DEF ExpireItems, Rests, Queued, TypeOK, QueueItem
    <3> QED BY <2>4, <3>1 DEF Effect, ExpireItems
  <2>5. ASSUME job.step = "expire", NEW p \in job.expired, ExpireProposal(p) PROVE Effect
    BY <2>5, Untouched DEF ExpireProposal
  <2> QED BY <1>4, <2>1, <2>2, <2>3, <2>4, <2>5 DEF RunJob
<1>5. CASE Tick
  BY <1>5 DEF Tick, Effect, Rests
<1>6. CASE JobFails
  BY <1>6, Untouched DEF JobFails
<1>7. ASSUME NEW h \in inflight, HandlerFails(h) PROVE Effect
  BY <1>7, Untouched DEF HandlerFails
<1> QED BY <1>1, <1>2, <1>3, <1>4, <1>5, <1>6, <1>7 DEF Next

\* A verdict is given once, a queue row is made once and keeps its dates.
THEOREM FinalVerdicts == Spec => VerdictAndTimelockAreFinal
<1> DEFINE Final(p) ==
      /\ verdict[p] # "NONE" => verdict'[p] = verdict[p] /\ judgedOn'[p] = judgedOn[p]
      /\ queue[p].status # "ABSENT" =>
           /\ queue'[p].status \notin {"ABSENT"} \cup ({"PENDING"} \ {queue[p].status})
           /\ queue'[p].timelockEndsAt = queue[p].timelockEndsAt
           /\ queue'[p].executionDeadline = queue[p].executionDeadline
<1>1. TypeOK /\ DecisionInv /\ WindowInv /\ [Next]_vars
        => [\A p \in Proposals : Final(p)]_vars
  <2> SUFFICES ASSUME Effect, NEW p \in Proposals PROVE Final(p)
    BY StepEffect
  <2> QED BY DEF Effect, Settles, Opens, Enacts, Rests, Queued
<1> QED BY <1>1, WindowCorrect, PTL DEF Spec, VerdictAndTimelockAreFinal

\* The service implements the abstract decision: every step maps to a step of
\* Approval or to a stutter.
THEOREM ImplementsApproval == Spec => KeepsApproval
<1> DEFINE Phase(p) == IF queue[p].executedAt # Null THEN "executed"
                       ELSE IF verdict[p] = "NONE" THEN "open"
                       ELSE IF verdict[p] = "PASSED" THEN "approved" ELSE "rejected"
<1>1. Init => Decision!AInit
  BY DEF Init, Decision!AInit, Decision!NotSet, NoQueueItem
<1>2. TypeOK /\ DecisionInv /\ WindowInv /\ [Next]_vars => [Decision!ANext]_(Decision!avars)
  <2> SUFFICES ASSUME TypeOK, DecisionInv, WindowInv, Effect
               PROVE  [Decision!ANext]_(Decision!avars)
    BY StepEffect
  <2> DEFINE phase == [p \in Proposals |-> Phase(p)]
             opensAt == [p \in Proposals |-> queue[p].timelockEndsAt]
             executedAt == [p \in Proposals |-> queue[p].executedAt]
  <2>1. CASE clock' \in {clock, clock + 1} /\ \A p \in Proposals : Rests(p)
    <3>1. phase' = phase /\ opensAt' = opensAt /\ executedAt' = executedAt
      BY <2>1 DEF Rests
    <3> QED BY <2>1, <3>1 DEF Decision!ANext, Decision!Pass, Decision!avars
  <2>2. ASSUME NEW p \in Proposals, Settles(p), \A q \in Proposals \ {p} : Rests(q)
        PROVE  Decision!Judge(p)
    <3>1. queue[p].executedAt = Null
      BY <2>2 DEF Settles, WindowInv, NoQueueItem
    <3>2. Phase(p) = "open" /\ Phase(p)' \in {"approved", "rejected"}
      BY <2>2, <3>1 DEF Settles, Verdicts
    <3>3. phase' = [phase EXCEPT ![p] = Phase(p)']
      BY <2>2 DEF Rests
    <3> QED BY <2>2, <3>2, <3>3 DEF Settles, Decision!Judge
  <2>3. ASSUME NEW p \in Proposals, Opens(p), \A q \in Proposals \ {p} : Rests(q)
        PROVE  Decision!StartTimelock(p)
    <3>1. queue[p].executedAt = Null /\ queue[p].timelockEndsAt = Null
      BY <2>3 DEF Opens, WindowInv, NoQueueItem
    <3>2. Phase(p) = "approved" /\ Phase(p)' = "approved"
      BY <2>3, <3>1 DEF Opens, HasPassed
    <3>3. phase' = phase
      BY <2>3, <3>2 DEF Rests
    <3>4. opensAt' = [opensAt EXCEPT ![p] = queue'[p].timelockEndsAt]
      BY <2>3 DEF Rests
    <3>5. executedAt' = executedAt
      BY <2>3, <3>1 DEF Rests, Opens
    <3> QED BY <2>3, <3>1, <3>2, <3>3, <3>4, <3>5 DEF Opens, Decision!StartTimelock, Decision!NotSet
  <2>4. ASSUME NEW p \in Proposals, Enacts(p), \A q \in Proposals \ {p} : Rests(q)
        PROVE  Decision!Enact(p)
    <3>1. /\ queue[p].timelockEndsAt \in Nat
          /\ clock \in Nat
          /\ queue[p].timelockEndsAt <= clock
          /\ HasPassed(p)
      BY <2>4 DEF Enacts, WindowInv, DecisionInv, TypeOK
    <3>2. Phase(p) \in {"approved", "executed"} /\ Phase(p)' = "executed"
      BY <2>4, <3>1 DEF Enacts, HasPassed
    <3>3. phase' = [phase EXCEPT ![p] = "executed"]
      BY <2>4, <3>2 DEF Rests
    <3>4. opensAt' = opensAt /\ clock' = clock
      BY <2>4 DEF Rests, Enacts
    <3>5. executedAt' = [executedAt EXCEPT ![p] = queue'[p].executedAt]
      BY <2>4 DEF Rests
    <3>6. queue'[p].executedAt \in opensAt[p]..clock
      BY <2>4 DEF Enacts
    <3>7. \E t \in opensAt[p]..clock : executedAt' = [executedAt EXCEPT ![p] = t]
      BY <3>5, <3>6
    <3>8. phase[p] \in {"approved", "executed"} /\ opensAt[p] \in 0..clock
      BY <3>1, <3>2
    <3> QED BY <3>3, <3>4, <3>7, <3>8, Zenon DEF Decision!Enact
  <2> QED BY <2>1, <2>2, <2>3, <2>4 DEF Effect, Decision!ANext
<1> QED BY <1>1, <1>2, WindowCorrect, PTL DEF Spec, KeepsApproval, Decision!ASpec
=============================================================================
