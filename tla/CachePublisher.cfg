CONSTANTS
  Order <- MCOrder
  Closure <- MCClosure
  Early = {"image"}
  Extra <- MCExtra
  Poison = {"bad"}
  SwaOnly = {"image"}
  References = {"app"}
  BatchSize = 2
  Batches = 1
  VerifyRoots = 1
  VerifyPaths = 1
  MaxAttempts = 4
  MaxEvictions = 1
  MaxFailures = 1
SPECIFICATION Spec
INVARIANTS PushesSound
PROPERTIES CacheFills
