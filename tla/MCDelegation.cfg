SPECIFICATION Spec
CONSTANTS
  alice = alice
  Users = {alice, bob, carol}
  Holders = {alice, bob}
  Balance <- MCBalance
  Requests = {r1, r2, r3}
  MaxFailures = 1
SYMMETRY MCSymmetry
INVARIANTS TypeOK PowerIsRight OneActiveDelegation VotesAreConserved
CHECK_DEADLOCK FALSE
