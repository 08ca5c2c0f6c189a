SPECIFICATION FairSpec
CONSTANTS
  Serve = serve
  Requests = {r1, r2}
  Commands = {c1}
  r1 = r1
  r2 = r2
  RequestJobs <- TwoRequests
  CommandJobs <- AnyCommand
  FleetAircraft = {"syn"}
  Limit = 1
  Allowance = 2
  MaxFaults = 1
INVARIANT AcceptedInTurn
INVARIANT RefusedLeavesNothing
INVARIANT AnswersAreTrue
PROPERTY EverythingEnds
