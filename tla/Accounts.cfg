CONSTANTS
  s1 = s1
  s2 = s2
  Session = {s1, s2}
  Subject <- Google
  MaxAttempts = 2
  MaxGuesses = 2
  Scenarios <- Everything
SPECIFICATION Spec
INVARIANTS
  AccountsTypeOK
  OneChainPerFamily
  SuspendedHasNoSession
  AddressIsProved
  OneUsableCode
  GuessesAreCounted
PROPERTIES
  DeadFamilyStaysDead
CHECK_DEADLOCK FALSE
