\* One thread, all entry points, calls within calls.
CONSTANTS
  MaxDepth = 3
  MaxAttempts = 4
  WaitOnRetry = TRUE
SPECIFICATION Spec
INVARIANTS GuardExact TalliesAddUp
