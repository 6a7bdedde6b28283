SPECIFICATION Spec
CONSTANTS
  alice = alice
  dip2 = dip2
  Proposals = {dip4}
  Voters = {alice, bob}
  Requests = {r1, r2, r3}
  Weight <- MCWeight
  QuorumRequired = 2
  VotingEndsAt <- MCVotingEndsAt
  TimelockEndsAt <- MCTimelockEndsAt
  ExecutionWindow = 1
  MaxClock = 3
  MaxFailures = 1
SYMMETRY MCSymmetry
INVARIANTS TypeOK ExecutedOnlyIfApproved ExecutionInsideWindow CountedBallotsWereCast
PROPERTIES VerdictAndTimelockAreFinal KeepsApproval
