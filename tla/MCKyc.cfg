SPECIFICATION Spec
CONSTANTS
  pending = pending
  review = review
  rejection = rejection
  Processes = {p1, p2, p3, p4, p5}
  Events = {pending, review, rejection}
  Means <- MCMeans
  MaxAttempts = 2
  MaxFailures = 1
SYMMETRY MCSymmetry
INVARIANTS TypeOK StatusesAgree AttemptsHaveNoGaps
CHECK_DEADLOCK FALSE
