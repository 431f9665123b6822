\* Three commands at once on two orders in windows of their own, whose tasks are in
\* two lists.
CONSTANTS
  Orders = {1, 2}
  Windows = {1, 2}
  Users = {1, 2}
  WindowOf <- BookedWindows
  FirstCloser <- Closers
  Invoiced = {1}
  Looks = 2
  Calls = {c1, c2, c3}
  MaxCommands = 3
SPECIFICATION Spec
SYMMETRY CallSymmetry
CHECK_DEADLOCK FALSE
INVARIANTS OrderCommandsGoThrough ClosureTakesTasks
