SPECIFICATION Spec
CONSTANTS
  alice = alice
  dip2 = dip2
  Proposals = {dip2, dip4}
  Voters = {alice}
  Requests = {r1, r2}
  Weight <- MCWeight
  QuorumRequired = 2
  VotingEndsAt <- MCVotingEndsAt
  TimelockEndsAt <- MCTimelockEndsAt
  ExecutionWindow = 0
  MaxClock = 2
  MaxFailures = 1
PROPERTIES VotingCloses QueueDrains
