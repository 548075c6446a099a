SPECIFICATION Spec
CONSTANTS
  Det = 1
  ModelT = 1
  Margin = 1
  MaxKeys = 1
  Faults = {}
INVARIANTS
  ReplacementExact
