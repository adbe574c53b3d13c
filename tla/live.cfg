SPECIFICATION MCLiveSpec
CONSTANTS
  Runs = {r1}
  Workers = {w1}
  Capable = {w1}
  Sessions = {s1}
  Timer = timer
  NoWorker = none
  NoLease = nolease
  MaxAttempts = 2
  LeaseTicks = 1
  TimeoutTicks = 1
  BackoffTicks = 1
  BackoffMaxTicks = 1
  Callers = {c1, c2}
  Seats = {s1}
  None = None
  MaxConfigs = 1
  MaxRetries = 0
  Threshold = 2
  Turns = {t1}
  Conversations = {k1}
  Tools = {a, b}
  Granted = {a}
  NoConv = NoConv
  Limits = {1}
  Reserve = 1
  MaxRounds = 2
  Window = 2
  SilentLimit = 2
  ErrorRetries = 1
  MaxQueued = 2
  MaxTaps = 2
CHECK_DEADLOCK FALSE
PROPERTIES EverySettles ConnectionsSettle TurnsEnd VoiceComesBack
