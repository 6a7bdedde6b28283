-------------------------------- MODULE Book --------------------------------
(***************************************************************************)
(* What a lending pool promises, whatever happens to the calls that move   *)
(* it: a request moves the pool at most once, and what is lent out never   *)
(* exceeds what is supplied.                                               *)
(***************************************************************************)
EXTENDS Integers

CONSTANTS Requests, Amounts, InitialSupply

VARIABLES supply, lent,
          applied   \* the requests that moved the pool

bookVars == <<supply, lent, applied>>

BInit ==
  /\ supply = InitialSupply
  /\ lent = 0
  /\ applied = {}

Once(r) ==
  /\ r \notin applied
  /\ applied' = applied \cup {r}

AddSupply(a) ==
  /\ supply' = supply + a
  /\ UNCHANGED lent

TakeSupply(a) ==
  /\ a <= supply - lent
  /\ supply' = supply - a
  /\ UNCHANGED lent

Lend(a) ==
  /\ a <= supply - lent
  /\ lent' = lent + a
  /\ UNCHANGED supply

GiveBack(a) ==
  /\ lent' = IF a < lent THEN lent - a ELSE 0
  /\ UNCHANGED supply

BNext == \E r \in Requests, a \in Amounts :
           /\ Once(r)
           /\ AddSupply(a) \/ TakeSupply(a) \/ Lend(a) \/ GiveBack(a)

BSpec == BInit /\ [][BNext]_bookVars
=============================================================================
