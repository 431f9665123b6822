SPECIFICATION Spec
CONSTANTS
  u1 = u1
  u2 = u2
  c1 = c1
  c2 = c2
  Users = {u1, u2}
  Actions = {a1}
  Calls = {c1, c2}
  Nobody = Nobody
  MaxAttempts = 2
  MaxRequests = 2
SYMMETRY Symmetry
CHECK_DEADLOCK FALSE
INVARIANT SystemAdminRemains
INVARIANT OpenActionKeepsLead
INVARIANT AppliedOnce
PROPERTY ChangesByManagers
PROPERTY SeenIsWhatChanges
