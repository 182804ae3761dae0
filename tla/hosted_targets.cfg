CONSTANTS
  main = main  next = next
  r1 = r1  r2 = r2
  Target = {main, next}
  Kind <- BranchAndPull
  Revision = {r1, r2}
  Heads <- MainMoves
  Rank <- PreferredFirst
  Closed = Closed  NoRow = NoRow  NoRun = NoRun
  MaxTooling = 2
  MaxRequests = 3
  MaxChanges = 1
  MaxFaults = 1
SPECIFICATION MCHostedSpec
INVARIANTS
  ShownIsGenuine
  DispatchOnce
  CollectedIsExact
CHECK_DEADLOCK FALSE
