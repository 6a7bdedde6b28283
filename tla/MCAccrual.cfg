SPECIFICATION AccrualSpec
CONSTANTS
  Pools = {p1, p2}
  MaxClock = 4
SYMMETRY MCSymmetry
INVARIANTS AccrualTypeOK InterestAccountedFor NothingChargedAhead
