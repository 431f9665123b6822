CONSTANTS
  a1 = a1
  a2 = a2
  b = b
  c = c
  k1 = k1
  k2 = k2
  k3 = k3
  NoCall = NoCall
  Calls = {a1, a2, b, c}
  Keys = {k1, k2, k3}
  KeyOf <- CallKeys
  CommandsOf <- CallCommands
  Amounts = {1, 2}
  Gross = 2
  MaxAttempts = 2
  MaxMails = 1
SPECIFICATION Spec
INVARIANTS
  DerivedStatus
  ExactlyOnce
PROPERTIES
  StaleFormRefused
  AccountSpec
CHECK_DEADLOCK FALSE
