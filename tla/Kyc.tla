--------------------------------- MODULE Kyc ---------------------------------
(***************************************************************************)
(* Identity verification of one user: the user's requests to start and to  *)
(* retry, the provider's webhooks, and decisions of administrators all     *)
(* write the newest row of kyc_verifications and users.kyc_status, in two  *)
(* statements.  Every await is a step of its own.                          *)
(*                                                                         *)
(* The provider is external: it gives the user one applicant id, so every  *)
(* row carries it, and delivers its events in any order and repeatedly.    *)
(***************************************************************************)
EXTENDS Integers, Sequences

CONSTANTS Processes,    \* requests and webhooks, each handled by a call of its own
          Events,       \* applicantId and createdAtMs of the provider's events
          Means,        \* status each event stands for
          MaxAttempts,  \* 3 in retryKYC
          MaxFailures   \* bound: failing statements and calls

Verdicts == {"approved", "rejected", "pending_review"}
Statuses == Verdicts \cup {"token_generated", "in_progress"}

ASSUME KycAssumption ==
  /\ Means \in [Events -> Verdicts \cup {"in_progress"}]
  /\ MaxAttempts \in Nat
  /\ MaxFailures \in Nat

VARIABLES
  rows,       \* kyc_verifications of the user, the newest last
  status,     \* users.kyc_status
  seen,       \* events with a key in Redis
  processes,  \* handlers: where they are, row read, whether to insert, status to write
  clean,      \* history: handlers between their writes that met no other since
  apart,      \* history: the last pair of writes was torn, or met another
  failures

vars == <<rows, status, seen, processes, clean, apart, failures>>

Idle == [at |-> "idle", row |-> 0, insert |-> FALSE, new |-> "token_generated"]

Init ==
  /\ rows = <<>>
  /\ status = "not_started"
  /\ seen = {}
  /\ processes = [p \in Processes |-> Idle]
  /\ clean = {}
  /\ apart = FALSE
  /\ failures = 0

Fail == failures < MaxFailures /\ failures' = failures + 1
At(p, place) == processes[p].at = place
Go(p, place) == processes' = [processes EXCEPT ![p].at = place]
End(p) == processes' = [processes EXCEPT ![p] = [Idle EXCEPT !.at = "end"]]
Newest == rows[Len(rows)]

\* A handler ends before it wrote anything.
GiveUp(p) ==
  /\ processes[p].at \in {"idle", "read", "store", "select", "row"}
  /\ Fail /\ End(p)
  /\ UNCHANGED <<rows, status, seen, clean, apart>>

\* Handlers that wrote one of row and user and not yet the other.
Between == {p \in Processes : processes[p].at \in {"user", "rows"}}

\* The first write of p; alone and on the newest row it is clean.
WriteFirst(p, newest) ==
  /\ clean' = IF Between = {} /\ newest THEN {p} ELSE {}
  /\ UNCHANGED apart

\* The second, or its failure.
WriteSecond(p) == apart' = (p \notin clean) /\ clean' = clean \ {p}
Tear(p) == Fail /\ apart' = TRUE /\ clean' = clean \ {p}

-----------------------------------------------------------------------------
(* The user *)

\* retryKYC up to the call of initiateKYC; resetting the applicant may fail.
Retry(p) ==
  /\ At(p, "idle")
  /\ IF rows # <<>> /\ Newest.attempts >= MaxAttempts THEN End(p) ELSE Go(p, "read")
  /\ UNCHANGED <<rows, status, seen, clean, apart, failures>>

\* initiateKYC: the newest row is read, before applicant and token are asked for.
Initiate(p) ==
  /\ At(p, "idle") \/ At(p, "read")
  /\ processes' = [processes EXCEPT ![p] =
       [at |-> "store", row |-> Len(rows),
        insert |-> rows = <<>> \/ Newest.status = "rejected",
        new |-> "token_generated"]]
  /\ UNCHANGED <<rows, status, seen, clean, apart, failures>>

Attempts(row) == IF row = 0 THEN 0 ELSE rows[row].attempts

\* A row more, counted on from the one read.
Insert(p) ==
  /\ rows' = Append(rows, [status |-> processes[p].new,
                           attempts |-> Attempts(processes[p].row) + 1])
  /\ WriteFirst(p, TRUE)

\* Mutant of UpdateRow: a new token for an open verification counts as an attempt.
UpdateRowCounted(p) ==
  /\ rows' = [rows EXCEPT ![processes[p].row] =
       [status |-> processes[p].new, attempts |-> @.attempts + 1]]
  /\ WriteFirst(p, processes[p].row = Len(rows))

\* The status of the row read, by its id.
UpdateRow(p) ==
  /\ rows' = [rows EXCEPT ![processes[p].row].status = processes[p].new]
  /\ WriteFirst(p, processes[p].row = Len(rows))

StoreVerification(p) ==
  /\ At(p, "store")
  /\ IF processes[p].insert THEN Insert(p) ELSE UpdateRow(p)
  /\ Go(p, "user")
  /\ UNCHANGED <<status, seen, failures>>

\* Mutant of UpdateUser: the user is not told about a review without verdict.
UpdateUserVerdict(p) ==
  /\ At(p, "user")
  /\ \/ /\ status' = IF processes[p].new = "pending_review" THEN status ELSE processes[p].new
        /\ WriteSecond(p) /\ UNCHANGED failures
     \/ Tear(p) /\ UNCHANGED status
  /\ End(p)
  /\ UNCHANGED <<rows, seen>>

UpdateUser(p) ==
  /\ At(p, "user")
  /\ \/ status' = processes[p].new /\ WriteSecond(p) /\ UNCHANGED failures
     \/ Tear(p) /\ UNCHANGED status
  /\ End(p)
  /\ UNCHANGED <<rows, seen>>

-----------------------------------------------------------------------------
(* The provider *)

\* processWebhookEvent up to the key; answered with 200 before, it is not sent
\* again because of what fails from here on.  Without Redis no key is looked at.
Deliver(p, e) ==
  /\ At(p, "idle")
  /\ \/ e \in seen /\ End(p) /\ UNCHANGED seen
     \/ /\ \/ e \notin seen /\ seen' = seen \cup {e}
           \/ UNCHANGED seen
        /\ processes' = [processes EXCEPT ![p] =
             [Idle EXCEPT !.at = "select", !.new = Means[e]]]
  /\ UNCHANGED <<rows, status, clean, apart, failures>>

\* Mutant of SelectVerification: an applicant without verification is not told apart.
SelectVerificationUnknown(p) ==
  /\ At(p, "select")
  /\ processes' = [processes EXCEPT ![p].at = "row", ![p].row = Len(rows)]
  /\ UNCHANGED <<rows, status, seen, clean, apart, failures>>

\* The newest row of the applicant; without one the event is dropped, its key set.
SelectVerification(p) ==
  /\ At(p, "select")
  /\ IF rows = <<>> THEN End(p)
       ELSE processes' = [processes EXCEPT ![p].at = "row", ![p].row = Len(rows)]
  /\ UNCHANGED <<rows, status, seen, clean, apart, failures>>

UpdateVerification(p) ==
  /\ At(p, "row")
  /\ UpdateRow(p)
  /\ Go(p, "user")
  /\ UNCHANGED <<status, seen, failures>>

\* The key's day is over, or Redis was restarted.
ForgetEvent(e) ==
  /\ e \in seen
  /\ seen' = seen \ {e}
  /\ UNCHANGED <<rows, status, processes, clean, apart, failures>>

-----------------------------------------------------------------------------
(* Administrators *)

\* manualReviewDecision: the user first, then all of the user's rows.
DecideUser(p, decision) ==
  /\ At(p, "idle")
  /\ status' = decision
  /\ WriteFirst(p, rows # <<>>)
  /\ processes' = [processes EXCEPT ![p] = [Idle EXCEPT !.at = "rows", !.new = decision]]
  /\ UNCHANGED <<rows, seen, failures>>

DecideRows(p) ==
  /\ At(p, "rows")
  /\ \/ /\ rows' = [i \in 1..Len(rows) |-> [rows[i] EXCEPT !.status = processes[p].new]]
        /\ WriteSecond(p) /\ UNCHANGED failures
     \/ Tear(p) /\ UNCHANGED rows
  /\ End(p)
  /\ UNCHANGED <<status, seen>>

\* makeDecision on a rejected assessment writes the user alone.
RejectUser(p) ==
  /\ At(p, "idle")
  /\ status' = "rejected"
  /\ apart' = TRUE /\ clean' = {}
  /\ End(p)
  /\ UNCHANGED <<rows, seen, failures>>

-----------------------------------------------------------------------------
Handle(p) ==
  \/ Retry(p) \/ Initiate(p) \/ StoreVerification(p) \/ UpdateUser(p)
  \/ \E e \in Events : Deliver(p, e)
  \/ SelectVerification(p) \/ UpdateVerification(p)
  \/ \E decision \in {"approved", "rejected"} : DecideUser(p, decision)
  \/ DecideRows(p) \/ RejectUser(p) \/ GiveUp(p)

Next ==
  \/ \E p \in Processes : Handle(p)
  \/ \E e \in Events : ForgetEvent(e)

Spec == Init /\ [][Next]_vars

-----------------------------------------------------------------------------
(* Properties *)

Row == [status : Statuses, attempts : Nat]
Process == [at : {"idle", "read", "store", "select", "row", "user", "rows", "end"},
            row : Nat, insert : BOOLEAN, new : Statuses]

\* A row a handler is about to update is one it read.
Reads(p) ==
  (At(p, "store") /\ ~processes[p].insert) \/ At(p, "row") => processes[p].row > 0

\* Every variable holds values of a column, a key or a handler's locals; a row
\* that was read is there, and one that is to be updated was read.
TypeOK ==
  /\ rows \in Seq(Row)
  /\ status \in Statuses \cup {"not_started"}
  /\ seen \subseteq Events
  /\ processes \in [Processes -> Process]
  /\ \A p \in Processes : processes[p].row <= Len(rows) /\ Reads(p)
  /\ clean \subseteq Processes
  /\ apart \in BOOLEAN
  /\ failures \in Nat

\* With no handler between its two writes the user has the status of the newest
\* verification, unless the last pair of writes was torn, met another, or was
\* on a row that was not the newest any more; the next one alone repairs it.
StatusesAgree ==
  Between = {} /\ ~apart /\ rows # <<>> => status = Newest.status

\* However requests, events and decisions overlap, no number of an attempt is
\* left out: a verification is the first or follows an older one that was the
\* attempt before it.  (Two over the same row share their number.)
AttemptsHaveNoGaps ==
  \A i \in 1..Len(rows) :
    \/ rows[i].attempts = 1
    \/ \E j \in 1..(i - 1) : rows[j].attempts = rows[i].attempts - 1

\* What a clean handler wrote first is still there.
CleanInv ==
  \A p \in clean :
    /\ Between = {p} /\ rows # <<>>
    /\ At(p, "user") => Newest.status = processes[p].new
    /\ At(p, "rows") => status = processes[p].new

IInv == TypeOK /\ CleanInv /\ StatusesAgree /\ AttemptsHaveNoGaps
=============================================================================
