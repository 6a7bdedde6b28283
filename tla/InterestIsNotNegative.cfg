SPECIFICATION Spec
CONSTANTS
  Requests = {r1, r2, r3}
  Amounts = {2, 3}
  One = 2
  Indices = {2, 3}
  InitialSupply = 4
  SupplyCap = 6
  BorrowCap = 4
  MaxInflight = 1
  MaxFailures = 0
SYMMETRY MCSymmetry
INVARIANTS InterestIsNotNegative
CHECK_DEADLOCK FALSE
