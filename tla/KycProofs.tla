------------------------------ MODULE KycProofs ------------------------------
(* For any handlers, events and failures: user and newest verification agree
   but for torn and overlapping writes, and no number of an attempt is left out.

   The argument for the agreement: a handler that wrote one of the two, alone
   and on the newest row, still finds what it wrote when it writes the other;
   every other first write takes that property from it.  For the attempts: rows
   only grow, and a row read stays where it was with the number it had. *)
EXTENDS Kyc, SequenceTheorems, TLAPS

USE KycAssumption

Places == {"idle", "read", "store", "select", "row", "user", "rows", "end"}
Moved(p) == /\ processes' \in [Processes -> Process]
            /\ \A q \in Processes : q # p => processes'[q] = processes[q]

\* What a handler's record becomes when it goes on.
LEMMA Moves ==
  ASSUME TypeOK, NEW p \in Processes
  PROVE  /\ \A new \in Process : processes' = [processes EXCEPT ![p] = new] =>
              Moved(p) /\ processes'[p] = new
         /\ \A place \in Places : Go(p, place) =>
              /\ Moved(p) /\ processes'[p].at = place
              /\ processes'[p].row = processes[p].row
              /\ processes'[p].insert = processes[p].insert
              /\ processes'[p].new = processes[p].new
         /\ End(p) => Moved(p) /\ processes'[p].at = "end" /\ processes'[p].row = 0
<1>1. processes \in [Processes -> Process] /\ processes[p] \in Process
  BY DEF TypeOK
<1>2. ASSUME NEW new \in Process, processes' = [processes EXCEPT ![p] = new]
      PROVE  Moved(p) /\ processes'[p] = new
  BY <1>1, <1>2 DEF Moved
<1>3. ASSUME NEW place \in Places, Go(p, place)
      PROVE  /\ Moved(p) /\ processes'[p].at = place
             /\ processes'[p].row = processes[p].row
             /\ processes'[p].insert = processes[p].insert
             /\ processes'[p].new = processes[p].new
  BY <1>1, <1>3 DEF Go, Process, Places, Moved
<1>4. ASSUME End(p)
      PROVE  Moved(p) /\ processes'[p].at = "end" /\ processes'[p].row = 0
  <2> DEFINE ended == [Idle EXCEPT !.at = "end"]
  <2>1. ended \in Process /\ ended.at = "end" /\ ended.row = 0
    BY DEF Idle, Process, Statuses
  <2>2. processes' = [processes EXCEPT ![p] = ended]
    BY <1>4 DEF End
  <2> HIDE DEF ended
  <2> QED
    BY <1>2, <2>1, <2>2
<1> QED
  BY <1>2, <1>3, <1>4

\* A row more; the others stay.
LEMMA Inserted ==
  ASSUME TypeOK, NEW p \in Processes, Insert(p)
  PROVE  /\ rows' \in Seq(Row) /\ Len(rows') = Len(rows) + 1 /\ rows' # <<>>
         /\ rows'[Len(rows')].status = processes[p].new
         /\ rows'[Len(rows')].attempts = Attempts(processes[p].row) + 1
         /\ \A i \in 1..Len(rows) : rows'[i] = rows[i]
<1> DEFINE new == [status |-> processes[p].new, attempts |-> Attempts(processes[p].row) + 1]
<1>1. processes[p] \in Process /\ processes[p].row <= Len(rows) /\ rows \in Seq(Row)
  BY DEF TypeOK
<1>2. Attempts(processes[p].row) \in Nat
  <2>1. CASE processes[p].row = 0
    BY <2>1 DEF Attempts
  <2>2. CASE processes[p].row \in 1..Len(rows)
    <3>1. rows[processes[p].row] \in Row
      BY <1>1, <2>2
    <3>2. processes[p].row # 0
      BY <2>2
    <3> QED
      BY <3>1, <3>2 DEF Attempts, Row
  <2> QED
    BY <1>1, <2>1, <2>2 DEF Process
<1>3. new \in Row /\ new.status = processes[p].new
        /\ new.attempts = Attempts(processes[p].row) + 1
  BY <1>1, <1>2 DEF Row, Process
<1>4. rows' = Append(rows, new)
  BY DEF Insert
<1> HIDE DEF new
<1> QED
  BY <1>1, <1>3, <1>4, AppendProperties

\* The status of one row.
LEMMA Updated ==
  ASSUME TypeOK, NEW p \in Processes, processes[p].row > 0, UpdateRow(p)
  PROVE  /\ rows' \in Seq(Row) /\ Len(rows') = Len(rows) /\ rows' # <<>>
         /\ rows'[processes[p].row].status = processes[p].new
         /\ \A i \in 1..Len(rows) : rows'[i].attempts = rows[i].attempts
<1> DEFINE i == processes[p].row
           new == [rows[i] EXCEPT !.status = processes[p].new]
<1>1. processes[p] \in Process /\ processes[p].row <= Len(rows) /\ rows \in Seq(Row)
  BY DEF TypeOK
<1>2. i \in 1..Len(rows) /\ rows[i] \in Row
  BY <1>1 DEF Process
<1>3. new \in Row /\ new.status = processes[p].new /\ new.attempts = rows[i].attempts
  BY <1>1, <1>2 DEF Row, Process
<1>4. rows' = [rows EXCEPT ![i] = new]
  BY DEF UpdateRow
<1> HIDE DEF new
<1>5. /\ [rows EXCEPT ![i] = new] \in Seq(Row)
      /\ Len([rows EXCEPT ![i] = new]) = Len(rows)
      /\ \A j \in 1..Len(rows) : [rows EXCEPT ![i] = new][j] = IF j = i THEN new ELSE rows[j]
  BY <1>1, <1>2, <1>3, ExceptSeq
<1>6. Len(rows) > 0
  BY <1>1, <1>2
<1> QED
  BY <1>2, <1>3, <1>4, <1>5, <1>6, EmptySeq

\* The status of all rows.
LEMMA Decided ==
  ASSUME TypeOK, NEW p \in Processes,
         rows' = [i \in 1..Len(rows) |-> [rows[i] EXCEPT !.status = processes[p].new]]
  PROVE  /\ rows' \in Seq(Row) /\ Len(rows') = Len(rows)
         /\ \A i \in 1..Len(rows) : rows'[i].status = processes[p].new
                                    /\ rows'[i].attempts = rows[i].attempts
<1>1. processes[p] \in Process /\ rows \in Seq(Row) /\ Len(rows) \in Nat
  BY DEF TypeOK
<1>2. ASSUME NEW i \in 1..Len(rows)
      PROVE  /\ rows'[i] \in Row /\ rows'[i].status = processes[p].new
             /\ rows'[i].attempts = rows[i].attempts
  <2>1. rows[i] \in Row
    BY <1>1
  <2>2. rows'[i] = [rows[i] EXCEPT !.status = processes[p].new]
    OBVIOUS
  <2> QED
    BY <1>1, <2>1, <2>2 DEF Row, Process
<1>3. rows' \in [1..Len(rows) -> Row]
  BY <1>2
<1>4. rows' \in Seq(Row) /\ Len(rows') = Len(rows)
  BY <1>1, <1>3
<1> QED
  BY <1>2, <1>4

\* Who is between the two writes after a handler went on.
LEMMA BetweenSteps ==
  ASSUME TypeOK, NEW p \in Processes, Moved(p)
  PROVE  /\ processes'[p].at \in {"user", "rows"} => Between' = Between \cup {p}
         /\ processes'[p].at \notin {"user", "rows"} => Between' = Between \ {p}
BY DEF Moved, Between

\* What is known of a clean handler.
CleanPart(p) ==
  /\ Between = {p} /\ rows # <<>>
  /\ At(p, "user") => Newest.status = processes[p].new
  /\ At(p, "rows") => status = processes[p].new
\* A step before the first write.
LEMMA QuietStep ==
  ASSUME TypeOK, CleanInv, StatusesAgree, UNCHANGED <<rows, status, clean, apart>>,
         NEW p \in Processes, Moved(p), processes[p].at \notin {"user", "rows"},
         processes'[p].at \notin {"user", "rows"}
  PROVE  CleanInv' /\ StatusesAgree'
<1>1. Between' = Between /\ p \notin Between
  BY BetweenSteps DEF Between
<1>2. ASSUME NEW q \in clean'
      PROVE  CleanPart(q)'
  <2>1. q \in clean /\ CleanPart(q) /\ q \in Processes
    BY <1>2 DEF CleanInv, CleanPart, TypeOK
  <2>2. processes'[q] = processes[q]
    BY <1>1, <2>1 DEF Moved, CleanPart
  <2> QED
    BY <1>1, <2>1, <2>2 DEF CleanPart, At, Newest
<1>3. CleanInv'
  BY <1>2 DEF CleanInv, CleanPart
<1> QED
  BY <1>1, <1>3 DEF StatusesAgree, Newest

\* The first of two writes.
LEMMA FirstStep ==
  ASSUME TypeOK, CleanInv, NEW p \in Processes, Moved(p), NEW newest,
         processes'[p].at \in {"user", "rows"}, WriteFirst(p, newest),
         newest => rows' # <<>>,
         newest /\ processes'[p].at = "user" => Newest'.status = processes'[p].new,
         processes'[p].at = "rows" => status' = processes'[p].new
  PROVE  CleanInv' /\ StatusesAgree'
<1>1. Between' = Between \cup {p}
  BY BetweenSteps
<1>2. ASSUME NEW q \in clean'
      PROVE  CleanPart(q)'
  <2>1. q = p /\ Between = {} /\ newest
    BY <1>2, Zenon DEF WriteFirst
  <2> QED
    BY <1>1, <2>1 DEF CleanPart, At
<1>3. CleanInv'
  BY <1>2 DEF CleanInv, CleanPart
<1> QED
  BY <1>1, <1>3 DEF StatusesAgree

\* The second, or its failure.
LEMMA SecondStep ==
  ASSUME TypeOK, CleanInv, NEW p \in Processes, Moved(p),
         processes[p].at \in {"user", "rows"}, processes'[p].at = "end",
         WriteSecond(p) \/ Tear(p),
         p \in clean /\ WriteSecond(p) => status' = Newest'.status
  PROVE  CleanInv' /\ StatusesAgree'
<1>1. Between' = Between \ {p} /\ p \in Between
  BY BetweenSteps DEF Between
<1>2. clean' = clean \ {p}
  BY DEF WriteSecond, Tear
<1>3. clean' = {}
  BY <1>1, <1>2 DEF CleanInv
<1>5. CleanInv'
  BY <1>3 DEF CleanInv
<1>6. ~apart' => p \in clean /\ WriteSecond(p)
  BY Zenon DEF WriteSecond, Tear
<1> QED
  BY <1>5, <1>6 DEF StatusesAgree

\* What the steps of a handler do to its record; it has read what it updates.
LEMMA Records ==
  ASSUME TypeOK, NEW p \in Processes, Handle(p)
  PROVE  Moved(p) /\ processes'[p].row <= Len(rows) /\ Reads(p)'
<1>1. /\ processes[p] \in Process /\ rows \in Seq(Row) /\ Len(rows) \in Nat
      /\ processes[p].row <= Len(rows) /\ (rows # <<>> => Len(rows) > 0)
  BY EmptySeq DEF TypeOK
<1>2. "read" \in Places /\ "user" \in Places
  BY DEF Places
<1>3. CASE Initiate(p)
  <2> DEFINE new == [at |-> "store", row |-> Len(rows),
                     insert |-> rows = <<>> \/ Newest.status = "rejected",
                     new |-> "token_generated"]
  <2>1. /\ new \in Process /\ new.row = Len(rows) /\ new.at = "store"
        /\ rows = <<>> => new.insert
    BY <1>1 DEF Process, Statuses
  <2>2. processes' = [processes EXCEPT ![p] = new]
    BY <1>3 DEF Initiate
  <2> HIDE DEF new
  <2>3. Moved(p) /\ processes'[p] = new
    BY <2>1, <2>2, Moves
  <2> QED
    BY <1>1, <2>1, <2>3 DEF Reads, At
<1>4. ASSUME NEW e \in Events, Deliver(p, e)
      PROVE  Moved(p) /\ processes'[p].row <= Len(rows) /\ Reads(p)'
  <2> DEFINE new == [Idle EXCEPT !.at = "select", !.new = Means[e]]
  <2>1. new \in Process /\ new.row = 0 /\ new.at = "select"
    BY DEF Process, Statuses, Verdicts, Idle
  <2>2. End(p) \/ processes' = [processes EXCEPT ![p] = new]
    BY <1>4 DEF Deliver
  <2> HIDE DEF new
  <2> QED
    BY <1>1, <2>1, <2>2, Moves DEF Reads, At
<1>5. ASSUME NEW decision \in {"approved", "rejected"}, DecideUser(p, decision)
      PROVE  Moved(p) /\ processes'[p].row <= Len(rows) /\ Reads(p)'
  <2> DEFINE new == [Idle EXCEPT !.at = "rows", !.new = decision]
  <2>1. new \in Process /\ new.row = 0 /\ new.at = "rows"
    BY DEF Process, Statuses, Verdicts, Idle
  <2>2. processes' = [processes EXCEPT ![p] = new]
    BY <1>5 DEF DecideUser
  <2> HIDE DEF new
  <2>3. Moved(p) /\ processes'[p] = new
    BY <2>1, <2>2, Moves
  <2> QED
    BY <1>1, <2>1, <2>3 DEF Reads, At
<1>6. CASE SelectVerification(p)
  <2> DEFINE new == [processes[p] EXCEPT !.at = "row", !.row = Len(rows)]
  <2>1. new \in Process /\ new.row = Len(rows) /\ new.at = "row"
    BY <1>1 DEF Process
  <2>2. End(p) \/ (processes' = [processes EXCEPT ![p] = new] /\ rows # <<>>)
    BY <1>1, <1>6 DEF SelectVerification, TypeOK
  <2> HIDE DEF new
  <2>3. CASE End(p)
    BY <1>1, <2>3, Moves DEF Reads, At
  <2>4. CASE processes' = [processes EXCEPT ![p] = new] /\ rows # <<>>
    <3>1. Moved(p) /\ processes'[p] = new
      BY <2>1, <2>4, Moves
    <3> QED
      BY <1>1, <2>1, <2>4, <3>1 DEF Reads, At
  <2> QED
    BY <2>2, <2>3, <2>4
<1>7. CASE \/ Retry(p) \/ StoreVerification(p) \/ UpdateUser(p) \/ UpdateVerification(p)
           \/ DecideRows(p) \/ RejectUser(p) \/ GiveUp(p)
  <2>1. End(p) \/ Go(p, "read") \/ Go(p, "user")
    BY <1>7 DEF Retry, StoreVerification, UpdateUser, UpdateVerification, DecideRows,
                RejectUser, GiveUp
  <2> QED
    BY <1>1, <1>2, <2>1, Moves DEF Reads, At
<1> QED
  BY <1>3, <1>4, <1>5, <1>6, <1>7 DEF Handle

\* Who has a row or an insert to write.
LEMMA ReadyStep ==
  ASSUME TypeOK, NEW p \in Processes
  PROVE  /\ StoreVerification(p) => Insert(p) \/ (processes[p].row > 0 /\ UpdateRow(p))
         /\ UpdateVerification(p) => processes[p].row > 0 /\ UpdateRow(p)
BY DEF TypeOK, Reads, StoreVerification, UpdateVerification

\* Rows keep their type and are not deleted, attempts are not changed.
LEMMA RowsStep ==
  ASSUME TypeOK, NEW p \in Processes, Handle(p)
  PROVE  /\ rows' \in Seq(Row) /\ Len(rows') >= Len(rows)
         /\ Insert(p) \/ (/\ Len(rows') = Len(rows)
                          /\ \A i \in 1..Len(rows) : rows'[i].attempts = rows[i].attempts)
<1>1. rows \in Seq(Row) /\ Len(rows) \in Nat
  BY DEF TypeOK
<1>2. CASE StoreVerification(p) \/ UpdateVerification(p)
  <2>1. Insert(p) \/ (processes[p].row > 0 /\ UpdateRow(p))
    BY <1>2, ReadyStep
  <2>2. CASE Insert(p)
    BY <1>1, <2>2, Inserted
  <2>3. CASE processes[p].row > 0 /\ UpdateRow(p)
    BY <1>1, <2>3, Updated
  <2> QED
    BY <2>1, <2>2, <2>3
<1>3. CASE DecideRows(p)
  <2>1. CASE rows' = [i \in 1..Len(rows) |-> [rows[i] EXCEPT !.status = processes[p].new]]
    <3>1. /\ rows' \in Seq(Row) /\ Len(rows') = Len(rows)
          /\ \A i \in 1..Len(rows) : rows'[i].attempts = rows[i].attempts
      BY <2>1, Decided
    <3> QED
      BY <1>1, <3>1
  <2>2. CASE UNCHANGED rows
    BY <1>1, <2>2
  <2> QED
    BY <1>3, <2>1, <2>2 DEF DecideRows
<1>4. ASSUME ~StoreVerification(p), ~UpdateVerification(p), ~DecideRows(p)
      PROVE  UNCHANGED rows
  BY <1>4 DEF Handle, Retry, Initiate, UpdateUser, Deliver, SelectVerification, DecideUser,
              RejectUser, GiveUp
<1> QED
  BY <1>1, <1>2, <1>3, <1>4

\* The flag of the history stays a flag.
LEMMA Flags ==
  ASSUME TypeOK, NEW p \in Processes, Handle(p)
  PROVE  apart' \in BOOLEAN
<1>1. apart \in BOOLEAN
  BY DEF TypeOK
<1>2. apart' = apart \/ apart' = TRUE \/ apart' = (p \notin clean)
  <2>1. CASE StoreVerification(p) \/ UpdateVerification(p)
    BY <2>1, Zenon DEF StoreVerification, UpdateVerification, Insert, UpdateRow, WriteFirst
  <2>2. CASE UpdateUser(p) \/ DecideRows(p) \/ RejectUser(p)
    BY <2>2, Zenon DEF UpdateUser, DecideRows, RejectUser, WriteSecond, Tear
  <2>3. CASE Retry(p) \/ Initiate(p) \/ SelectVerification(p) \/ GiveUp(p)
             \/ \E e \in Events : Deliver(p, e)
    BY <2>3, Zenon DEF Retry, Initiate, SelectVerification, GiveUp, Deliver
  <2>4. CASE \E decision \in {"approved", "rejected"} : DecideUser(p, decision)
    BY <2>4, Zenon DEF DecideUser, WriteFirst
  <2> QED
    BY <2>1, <2>2, <2>3, <2>4, Zenon DEF Handle
<1>3. (p \notin clean) \in BOOLEAN
  OBVIOUS
<1> QED
  BY <1>1, <1>2, <1>3, Zenon

\* Columns, keys and locals keep their types.
LEMMA TypeStep ==
  ASSUME TypeOK, NEW p \in Processes, Handle(p)
  PROVE  TypeOK'
<1>1. processes[p] \in Process
  BY DEF TypeOK
<1>2. rows' \in Seq(Row) /\ Len(rows') >= Len(rows)
  BY RowsStep
<1>3. Moved(p) /\ processes'[p].row <= Len(rows) /\ Reads(p)'
  BY Records
<1>4. \A q \in Processes : processes'[q].row <= Len(rows') /\ Reads(q)'
  <2> SUFFICES ASSUME NEW q \in Processes
               PROVE  processes'[q].row <= Len(rows') /\ Reads(q)'
    OBVIOUS
  <2>1. /\ processes'[q].row <= Len(rows) /\ processes'[q].row \in Nat
        /\ Reads(q)'
    BY <1>3 DEF Moved, TypeOK, Process, Reads, At
  <2>2. Len(rows) \in Nat /\ Len(rows') \in Nat
    BY <1>2, LenProperties DEF TypeOK
  <2> QED
    BY <1>2, <2>1, <2>2
<1>5. status' \in Statuses \cup {"not_started"}
  <2>1. \/ UNCHANGED status \/ status' = processes[p].new
        \/ status' \in {"approved", "rejected"}
    BY DEF Handle, Retry, Initiate, StoreVerification, UpdateUser, Deliver, SelectVerification,
           UpdateVerification, DecideUser, DecideRows, RejectUser, GiveUp
  <2> QED
    BY <1>1, <2>1 DEF TypeOK, Process, Statuses, Verdicts
<1>6. seen' \subseteq Events
  <2>1. UNCHANGED seen \/ \E e \in Events : seen' = seen \cup {e}
    BY DEF Handle, Retry, Initiate, StoreVerification, UpdateUser, Deliver, SelectVerification,
           UpdateVerification, DecideUser, DecideRows, RejectUser, GiveUp
  <2> QED
    BY <2>1 DEF TypeOK
<1>7. clean' \subseteq Processes
  <2>1. clean' \in {clean, clean \ {p}, {p}, {}}
    <3>1. CASE StoreVerification(p) \/ UpdateVerification(p)
      BY <3>1 DEF StoreVerification, UpdateVerification, Insert, UpdateRow, WriteFirst
    <3>2. CASE UpdateUser(p) \/ DecideRows(p) \/ RejectUser(p)
      BY <3>2 DEF UpdateUser, DecideRows, RejectUser, WriteSecond, Tear
    <3>3. CASE Retry(p) \/ Initiate(p) \/ SelectVerification(p) \/ GiveUp(p)
               \/ \E e \in Events : Deliver(p, e)
      BY <3>3 DEF Retry, Initiate, SelectVerification, GiveUp, Deliver
    <3>4. CASE \E decision \in {"approved", "rejected"} : DecideUser(p, decision)
      BY <3>4 DEF DecideUser, WriteFirst
    <3> QED
      BY <3>1, <3>2, <3>3, <3>4 DEF Handle
  <2> QED
    BY <2>1 DEF TypeOK
<1>8. failures' \in Nat
  <2>1. UNCHANGED failures \/ Fail
    BY DEF Handle, Retry, Initiate, StoreVerification, UpdateUser, Deliver, SelectVerification,
           UpdateVerification, DecideUser, DecideRows, RejectUser, GiveUp, Tear
  <2> QED
    BY <2>1 DEF Fail, TypeOK
<1>9. apart' \in BOOLEAN
  BY Flags
<1> QED
  BY <1>2, <1>3, <1>4, <1>5, <1>6, <1>7, <1>8, <1>9 DEF TypeOK, Moved

\* What a clean handler wrote is still there, and user and row agree.
LEMMA CleanStep ==
  ASSUME TypeOK, CleanInv, StatusesAgree, NEW p \in Processes, Handle(p)
  PROVE  CleanInv' /\ StatusesAgree'
<1>1. /\ processes[p] \in Process /\ rows \in Seq(Row) /\ Len(rows) \in Nat
      /\ processes[p].row <= Len(rows) /\ (rows # <<>> => Len(rows) > 0)
  BY EmptySeq DEF TypeOK
<1>2. Moved(p)
  BY Records
<1>3. "read" \in Places /\ "user" \in Places
  BY DEF Places
<1>5. CASE Retry(p) \/ GiveUp(p)
  <2>1. UNCHANGED <<rows, status, clean, apart>> /\ (Go(p, "read") \/ End(p))
        /\ processes[p].at \notin {"user", "rows"}
    BY <1>5 DEF Retry, GiveUp, At
  <2>2. processes'[p].at \in {"read", "end"}
    BY <1>3, <2>1, Moves
  <2> QED
    BY <1>2, <2>1, <2>2, QuietStep
<1>6. CASE Initiate(p)
  <2>1. UNCHANGED <<rows, status, clean, apart>> /\ processes[p].at \in {"idle", "read"}
    BY <1>6 DEF Initiate, At
  <2>2. processes'[p].at = "store"
    BY <1>6 DEF Initiate, TypeOK
  <2> QED
    BY <1>2, <2>1, <2>2, QuietStep
<1>7. ASSUME NEW e \in Events, Deliver(p, e)
      PROVE  CleanInv' /\ StatusesAgree'
  <2>1. UNCHANGED <<rows, status, clean, apart>> /\ processes[p].at = "idle"
    BY <1>7 DEF Deliver, At
  <2>2. processes'[p].at \in {"end", "select"}
    <3>1. CASE End(p)
      BY <3>1, Moves
    <3>2. CASE processes' = [processes EXCEPT ![p] =
                 [Idle EXCEPT !.at = "select", !.new = Means[e]]]
      BY <3>2 DEF TypeOK, Idle
    <3> QED
      BY <1>7, <3>1, <3>2 DEF Deliver
  <2> QED
    BY <1>2, <2>1, <2>2, QuietStep
<1>8. CASE SelectVerification(p)
  <2>1. UNCHANGED <<rows, status, clean, apart>> /\ processes[p].at = "select"
    BY <1>8 DEF SelectVerification, At
  <2>2. processes'[p].at \in {"row", "end"}
    <3>1. CASE End(p)
      BY <3>1, Moves
    <3>2. CASE processes' = [processes EXCEPT ![p].at = "row", ![p].row = Len(rows)]
      BY <1>1, <3>2 DEF TypeOK, Process
    <3> QED
      BY <1>8, <3>1, <3>2 DEF SelectVerification
  <2> QED
    BY <1>2, <2>1, <2>2, QuietStep
<1>9. CASE StoreVerification(p) \/ UpdateVerification(p)
  <2>1. Insert(p) \/ (processes[p].row > 0 /\ UpdateRow(p))
    BY <1>9, ReadyStep
  <2>2. processes'[p].at = "user" /\ processes'[p].new = processes[p].new
    BY <1>3, <1>9, Moves DEF StoreVerification, UpdateVerification
  <2>3. CASE Insert(p)
    <3> DEFINE newest == TRUE
    <3>1. rows' # <<>> /\ Newest'.status = processes'[p].new
      BY <2>2, <2>3, Inserted DEF Newest
    <3>2. WriteFirst(p, newest)
      BY <2>3 DEF Insert
    <3> HIDE DEF newest
    <3> QED
      BY <1>2, <2>2, <3>1, <3>2, FirstStep
  <2>4. CASE processes[p].row > 0 /\ UpdateRow(p)
    <3> DEFINE newest == processes[p].row = Len(rows)
    <3>1. rows' # <<>> /\ (newest => Newest'.status = processes'[p].new)
      BY <2>2, <2>4, Updated DEF Newest
    <3>2. WriteFirst(p, newest)
      BY <2>4 DEF UpdateRow
    <3> HIDE DEF newest
    <3> QED
      BY <1>2, <2>2, <3>1, <3>2, FirstStep
  <2> QED
    BY <2>1, <2>3, <2>4
<1>10. ASSUME NEW decision \in {"approved", "rejected"}, DecideUser(p, decision)
       PROVE  CleanInv' /\ StatusesAgree'
  <2> DEFINE newest == rows # <<>>
  <2>1. /\ rows' = rows /\ (newest => rows # <<>>) /\ status' = decision /\ WriteFirst(p, newest)
        /\ processes' = [processes EXCEPT ![p] = [Idle EXCEPT !.at = "rows", !.new = decision]]
    BY <1>10 DEF DecideUser
  <2>2. processes'[p].at = "rows" /\ processes'[p].new = decision
    BY <2>1 DEF TypeOK, Idle
  <2> HIDE DEF newest
  <2> QED
    BY <1>2, <2>1, <2>2, FirstStep
<1>11. CASE UpdateUser(p)
  <2>1. /\ processes[p].at = "user" /\ rows' = rows /\ (WriteSecond(p) \/ Tear(p))
        /\ End(p)
        /\ (status' = processes[p].new \/ Tear(p))
    BY <1>11 DEF UpdateUser, At
  <2>2. processes'[p].at = "end"
    BY <2>1, Moves
  <2>3. p \in clean => Newest.status = processes[p].new
    BY <2>1 DEF CleanInv, At
  <2>4. WriteSecond(p) /\ p \in clean => status' = Newest'.status
    <3>1. Tear(p) /\ WriteSecond(p) => p \notin clean
      BY Zenon DEF Tear, WriteSecond
    <3>2. Newest' = Newest
      BY <2>1 DEF Newest
    <3> QED
      BY <2>1, <2>3, <3>1, <3>2
  <2> QED
    BY <1>2, <2>1, <2>2, <2>4, SecondStep
<1>12. CASE DecideRows(p)
  <2>1. /\ processes[p].at = "rows" /\ status' = status /\ (WriteSecond(p) \/ Tear(p))
        /\ End(p)
        /\ \/ rows' = [i \in 1..Len(rows) |-> [rows[i] EXCEPT !.status = processes[p].new]]
           \/ Tear(p)
    BY <1>12 DEF DecideRows, At
  <2>2. processes'[p].at = "end"
    BY <2>1, Moves
  <2>3. p \in clean => status = processes[p].new
    BY <2>1 DEF CleanInv, At
  <2>4. ASSUME WriteSecond(p), p \in clean
        PROVE  status' = Newest'.status
    <3>1. ~Tear(p)
      BY <2>4, Zenon DEF Tear, WriteSecond
    <3>2. rows # <<>>
      BY <2>4 DEF CleanInv
    <3>3. Len(rows) \in 1..Len(rows)
      BY <1>1, <3>2
    <3>4. CASE rows' = [i \in 1..Len(rows) |-> [rows[i] EXCEPT !.status = processes[p].new]]
      <4>1. Newest'.status = processes[p].new
        BY <3>3, <3>4, Decided DEF Newest
      <4> QED
        BY <2>1, <2>3, <2>4, <4>1
    <3> QED
      BY <2>1, <3>1, <3>4
  <2> QED
    BY <1>2, <2>1, <2>2, <2>4, SecondStep
<1>13. CASE RejectUser(p)
  <2>1. processes[p].at = "idle" /\ apart' = TRUE /\ clean' = {} /\ End(p)
    BY <1>13 DEF RejectUser, At
  <2> QED
    BY <2>1 DEF CleanInv, StatusesAgree
<1> QED
  BY <1>5, <1>6, <1>7, <1>8, <1>9, <1>10, <1>11, <1>12, <1>13 DEF Handle

\* A number is counted on from a row that is there.
LEMMA AttemptsStep ==
  ASSUME TypeOK, AttemptsHaveNoGaps, NEW p \in Processes, Handle(p)
  PROVE  AttemptsHaveNoGaps'
<1>1. /\ rows \in Seq(Row) /\ Len(rows) \in Nat /\ processes[p] \in Process
      /\ processes[p].row <= Len(rows)
  BY DEF TypeOK
<1>2. CASE Insert(p)
  <2> SUFFICES ASSUME NEW i \in 1..Len(rows')
               PROVE  \/ rows'[i].attempts = 1
                      \/ \E j \in 1..(i - 1) : rows'[j].attempts = rows'[i].attempts - 1
    BY DEF AttemptsHaveNoGaps
  <2>1. /\ Len(rows') = Len(rows) + 1
        /\ rows'[Len(rows')].attempts = Attempts(processes[p].row) + 1
        /\ \A j \in 1..Len(rows) : rows'[j] = rows[j]
    BY <1>2, Inserted
  <2>2. CASE i \in 1..Len(rows)
    <3>1. \/ rows[i].attempts = 1
          \/ \E j \in 1..(i - 1) : rows[j].attempts = rows[i].attempts - 1
      BY <2>2 DEF AttemptsHaveNoGaps
    <3>2. \A j \in 1..(i - 1) : j \in 1..Len(rows)
      BY <1>1, <2>2
    <3> QED
      BY <2>1, <2>2, <3>1, <3>2
  <2>3. CASE i = Len(rows') /\ processes[p].row = 0
    BY <2>1, <2>3 DEF Attempts
  <2>4. CASE i = Len(rows') /\ processes[p].row # 0
    <3> DEFINE j == processes[p].row
    <3>1. j \in 1..Len(rows) /\ j \in 1..(i - 1) /\ rows[j] \in Row
      BY <1>1, <2>1, <2>4 DEF Process
    <3>2. rows'[i].attempts = rows[j].attempts + 1 /\ rows'[j] = rows[j]
      BY <2>1, <2>4, <3>1 DEF Attempts
    <3>3. rows'[j].attempts = rows'[i].attempts - 1
      BY <3>1, <3>2 DEF Row
    <3> QED
      BY <3>1, <3>3
  <2> QED
    BY <1>1, <2>1, <2>2, <2>3, <2>4
<1>3. CASE /\ Len(rows') = Len(rows)
           /\ \A i \in 1..Len(rows) : rows'[i].attempts = rows[i].attempts
  <2> SUFFICES ASSUME NEW i \in 1..Len(rows)
               PROVE  \/ rows'[i].attempts = 1
                      \/ \E j \in 1..(i - 1) : rows'[j].attempts = rows'[i].attempts - 1
    BY <1>3 DEF AttemptsHaveNoGaps
  <2>1. \A j \in 1..(i - 1) : j \in 1..Len(rows)
    BY <1>1
  <2> QED
    BY <1>3, <2>1 DEF AttemptsHaveNoGaps
<1> QED
  BY <1>2, <1>3, RowsStep

\* Nothing has been asked for yet.
LEMMA Initially == Init => IInv
<1> SUFFICES ASSUME Init
             PROVE  IInv
  OBVIOUS
<1>1. TypeOK
  <2>1. Idle \in Process /\ Idle.row = 0 /\ Idle.at = "idle"
    BY DEF Idle, Process, Statuses
  <2>2. rows \in Seq(Row) /\ Len(rows) = 0
    BY EmptySeq DEF Init
  <2>3. /\ processes \in [Processes -> Process]
        /\ \A p \in Processes : processes[p].row <= Len(rows) /\ Reads(p)
    BY <2>1, <2>2 DEF Init, Reads, At
  <2> QED
    BY <2>2, <2>3 DEF Init, TypeOK
<1>2. CleanInv
  BY DEF Init, CleanInv, At, Idle
<1>3. StatusesAgree
  BY DEF Init, StatusesAgree
<1>4. AttemptsHaveNoGaps
  BY EmptySeq DEF Init, AttemptsHaveNoGaps
<1> QED
  BY <1>1, <1>2, <1>3, <1>4 DEF IInv

\* Every step keeps the inductive invariant.
LEMMA Inductive == IInv /\ [Next]_vars => IInv'
<1> SUFFICES ASSUME IInv, [Next]_vars
             PROVE  IInv'
  OBVIOUS
<1>1. ASSUME NEW p \in Processes, Handle(p)
      PROVE  TypeOK' /\ CleanInv' /\ StatusesAgree' /\ AttemptsHaveNoGaps'
  BY <1>1, TypeStep, CleanStep, AttemptsStep DEF IInv
<1>2. ASSUME NEW e \in Events, ForgetEvent(e)
      PROVE  TypeOK' /\ CleanInv' /\ StatusesAgree' /\ AttemptsHaveNoGaps'
  <2>1. UNCHANGED <<rows, status, processes, clean, apart, failures>> /\ seen' \subseteq Events
    BY <1>2 DEF ForgetEvent, IInv, TypeOK
  <2>2. TypeOK'
    BY <2>1 DEF IInv, TypeOK, Reads, At
  <2> QED
    BY <2>1, <2>2 DEF IInv, CleanInv, StatusesAgree, AttemptsHaveNoGaps, Between, At, Newest
<1>3. CASE Next
  BY <1>1, <1>2, <1>3 DEF Next, IInv
<1>4. CASE UNCHANGED vars
  <2>1. TypeOK'
    BY <1>4 DEF vars, IInv, TypeOK, Reads, At
  <2> QED
    BY <1>4, <2>1 DEF vars, IInv, CleanInv, StatusesAgree, AttemptsHaveNoGaps, Between, At,
                      Newest
<1> QED
  BY <1>3, <1>4

\* The inductive invariant holds in every reachable state.
THEOREM KycInvariant == Spec => []IInv
<1>1. Init => IInv
  BY Initially
<1> QED
  BY <1>1, Inductive, PTL DEF Spec

\* Columns, keys and locals hold values of their kinds, and rows read are there.
THEOREM TypeCorrect == Spec => []TypeOK
<1>1. IInv => TypeOK
  BY DEF IInv
<1> QED
  BY <1>1, KycInvariant, PTL

\* The user's status is that of the newest verification but for torn or
\* overlapping writes and writes to a row that is not the newest.
THEOREM UserFollowsVerification == Spec => []StatusesAgree
<1>1. IInv => StatusesAgree
  BY DEF IInv
<1> QED
  BY <1>1, KycInvariant, PTL

\* A verification is a first attempt or follows an older one that was the attempt
\* before it, whatever requests, events and decisions overlap.
THEOREM AttemptsNumbered == Spec => []AttemptsHaveNoGaps
<1>1. IInv => AttemptsHaveNoGaps
  BY DEF IInv
<1> QED
  BY <1>1, KycInvariant, PTL

=============================================================================
