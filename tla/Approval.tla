-------------------------------- MODULE Approval ------------------------------
(***************************************************************************)
(* What governance promises about each proposal, whichever layer runs it   *)
(* (the tables of the API or the Daml contracts): a verdict is given at    *)
(* most once and never withdrawn, the end of the timelock is fixed once    *)
(* and only for an approved proposal, and every execution is of an         *)
(* approved proposal whose timelock is over.  An execution may be recorded *)
(* again, with another time, but is never taken back.                      *)
(***************************************************************************)
EXTENDS Integers

CONSTANTS Proposals

VARIABLES now,         \* the clock that timelocks are measured with
          phase,       \* phase[p]: how far the decision on p has come
          opensAt,     \* opensAt[p]: when the timelock of p ends (NotSet before)
          executedAt   \* executedAt[p]: when p was last executed (NotSet before)

avars == <<now, phase, opensAt, executedAt>>

NotSet == -1

AInit ==
  /\ now = 0
  /\ phase = [p \in Proposals |-> "open"]
  /\ opensAt = [p \in Proposals |-> NotSet]
  /\ executedAt = [p \in Proposals |-> NotSet]

Pass ==
  /\ now' = now + 1
  /\ UNCHANGED <<phase, opensAt, executedAt>>

Judge(p) ==
  /\ phase[p] = "open"
  /\ \E verdict \in {"approved", "rejected"} :
       phase' = [phase EXCEPT ![p] = verdict]
  /\ UNCHANGED <<now, opensAt, executedAt>>

StartTimelock(p) ==
  /\ phase[p] = "approved"
  /\ opensAt[p] = NotSet
  /\ opensAt'[p] \in Nat
  /\ opensAt' = [opensAt EXCEPT ![p] = opensAt'[p]]
  /\ UNCHANGED <<now, phase, executedAt>>

Enact(p) ==
  /\ phase[p] \in {"approved", "executed"}
  /\ opensAt[p] \in 0..now
  /\ phase' = [phase EXCEPT ![p] = "executed"]
  /\ \E t \in opensAt[p]..now : executedAt' = [executedAt EXCEPT ![p] = t]
  /\ UNCHANGED <<now, opensAt>>

ANext == Pass \/ \E p \in Proposals : Judge(p) \/ StartTimelock(p) \/ Enact(p)

ASpec == AInit /\ [][ANext]_avars
=============================================================================
