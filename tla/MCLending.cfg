SPECIFICATION Spec
CONSTANTS
  Requests = {r1, r2, r3}
  Amounts = {2}
  One = 2
  Indices = {2, 3}
  InitialSupply = 4
  SupplyCap = 6
  BorrowCap = 4
  MaxInflight = 3
  MaxFailures = 1
SYMMETRY MCSymmetry
INVARIANTS TypeOK Solvent NothingIsForgiven TokensFollowTheBook
PROPERTIES KeepsBook
CHECK_DEADLOCK FALSE
