SPECIFICATION MCSpec
CONSTANTS
  Runs = {r1, r2}
  Workers = {w1, w2}
  Capable = {w1}
  Sessions = {s1, s2}
  Timer = timer
  NoWorker = none
  NoLease = nolease
  MaxAttempts = 2
  LeaseTicks = 1
  TimeoutTicks = 1
  BackoffTicks = 2
  BackoffMaxTicks = 2
  FollowedRun = r1
  FollowedWorker = w1
SYMMETRY Interchangeable
INVARIANTS LeasedIsReapable RetryFollowsAHandout OneChainAlone
PROPERTIES HandedOutOnce ImplementsReportRunAlone
