SPECIFICATION Spec
CONSTANTS
  o1 = o1
  o2 = o2
  w1 = w1
  c1 = c1
  c2 = c2
  Orders = {o1, o2}
  Windows = {w1}
  Calls = {c1, c2}
  KindsOf <- MCKindsOf
  Details = {1, 2}
  NoWindow = NoWindow
  NoInvoice = NoInvoice
  MaxLaw = 2
  MaxChanges = 2
SYMMETRY Symmetry
CHECK_DEADLOCK FALSE
INVARIANT NumbersGapless
INVARIANT OrderAndInvoiceAgree
INVARIANT CancelledStaysUndelivered
INVARIANT TargetsChangeOnce
PROPERTY BookingRespectsSwitches
PROPERTY IssuedOnCurrentTerms
