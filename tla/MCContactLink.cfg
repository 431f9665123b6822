\* One inbox case, two workers, a crash and a manual retry.
CONSTANTS
  Jobs = {contact}
  Workers = {w1, w2}
  NumTokens = 3
  MaxAttempts = 2
  BaseDelay = 0
  MaximumDelay = 0
  Lease = 1
  HandlerTimeout = 0
  Retention = 1
  PurgeLimit = 1
  Horizon = 0
  MaxManual = 1
  MaxCrashes = 1
  Parked = {}
  Unhandled = {}
  Timed = {contact}
  Resolvable = {contact}
  Referenced = {}
SPECIFICATION ContactSpec
INVARIANTS
  ContactRecordsAgree
PROPERTIES
  NoSecondCreate
  DecisionsStand
SYMMETRY WorkerSymmetry
