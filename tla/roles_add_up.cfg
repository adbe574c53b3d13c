SPECIFICATION MCSpec
CONSTANTS
  Sessions = {s1, s2}
  MaxMinted = 4
  MaxVersion = 4
  Links = {l1}
  MaxTokens = 3
  MaxTime = 4
  MaxPasswords = 2
  Tabs = {t1}
  Calls = {c1, c2}
  MaxPairs = 3
  SilentLimit = 2
  ErrorRetries = 1
  MaxQueued = 2
  MaxTaps = 3
CHECK_DEADLOCK FALSE
PROPERTIES RolesAddUp
