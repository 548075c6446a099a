SPECIFICATION Spec
CONSTANTS
  Shells = {s1, s2}
  Rules = {"rm"}
  Budget = 1
  Hour = 3
  TTL = 2
  Cooldown = 3
  Retention = 4
  Trigger = 2
  PromptMax = 1
  Faults = {"lost"}
  Severities = {FALSE}
  MaxNow = 4
  MaxAdmissions = 3
  MaxOutcomes = 3
SYMMETRY Symmetric
CHECK_DEADLOCK FALSE
INVARIANTS
  BudgetHeld
