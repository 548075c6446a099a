SPECIFICATION Spec
CONSTANTS
  Shells = {s1, s2}
  Rules = {"rm"}
  Budget = 1
  Hour = 4
  TTL = 3
  Cooldown = 4
  Retention = 5
  Trigger = 2
  PromptMax = 1
  Faults = {"lost", "crash", "suspend", "torn"}
  Severities = {TRUE, FALSE}
  MaxNow = 4
  MaxAdmissions = 2
  MaxOutcomes = 3
SYMMETRY Symmetric
CHECK_DEADLOCK FALSE
INVARIANTS
  BurstHeld
  NoSlotLeaks
  CooldownEarned
