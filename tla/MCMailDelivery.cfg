\* One invoice mail and one other mail, two workers.
CONSTANTS
  Jobs = {invoicemail, othermail}
  Workers = {w1, w2}
  NumTokens = 4
  MaxAttempts = 1
  BaseDelay = 0
  MaximumDelay = 0
  Lease = 1
  HandlerTimeout = 0
  Retention = 1
  PurgeLimit = 1
  Horizon = 0
  MaxManual = 1
  MaxCrashes = 1
  Parked = {}
  Unhandled = {}
  Timed = {}
  Resolvable = {}
  Referenced = {invoicemail}
SPECIFICATION MailSpec
INVARIANTS
  CompletedMeansMailed
  InvoiceShowsRecords
  ResendNeedsLostClaim
SYMMETRY WorkerSymmetry
