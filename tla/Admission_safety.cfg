SPECIFICATION Spec
CONSTANTS
  Shells = {s1, s2, s3}
  Rules = {"rm"}
  Budget = 2
  Hour = 3
  TTL = 2
  Cooldown = 3
  Retention = 4
  Trigger = 2
  PromptMax = 1
  Faults = {}
  Severities = {FALSE}
  MaxNow = 5
  MaxAdmissions = 4
  MaxOutcomes = 3
SYMMETRY Symmetric
CHECK_DEADLOCK FALSE
INVARIANTS
  TypeOK
  BudgetHeld
