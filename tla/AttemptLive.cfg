CONSTANTS
  Attempt = {a1}
  Plans = {a1}
  NoAttempt = NoAttempt
  MaxFaults = 4
SPECIFICATION FairSpec
PROPERTIES Settles
CHECK_DEADLOCK FALSE
