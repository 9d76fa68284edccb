CONSTANTS
  Attempt = {a1, a2}
  Plans = {a1}
  NoAttempt = NoAttempt
  MaxFaults = 1
SPECIFICATION Spec
INVARIANTS FilesInPlace ResultIsRecorded
PROPERTIES SettledIsFinal ContractSpec
CHECK_DEADLOCK FALSE
