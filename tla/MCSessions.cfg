SPECIFICATION Spec
CONSTANTS
  Users = {u1, u2}
  Addresses = {e1, e2, e3}
  Slots = {s1, s2}
  Calls = {c1, c2}
  Nobody = Nobody
  Holders = {u1}
  MaxAttempts = 2
  MaxRequests = 2
SYMMETRY Symmetry
CHECK_DEADLOCK FALSE
INVARIANTS LiveSessionSound OldAddressOpensNothing GuessesLimited SuspensionGoesThrough
PROPERTIES ChallengeWorksOnce
