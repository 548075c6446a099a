SPECIFICATION Spec
CONSTANTS
  Procs = {p1, p2}
  Records = {r1, r2, r3}
  NoFile = NoFile
  NoProc = NoProc
  NoRecord = NoRecord
  Clean = Clean
  Torn = Torn
  Retention = 1
  Interval = 2
  MaxNow = 3
  MaxCrashes = 1
SYMMETRY Symmetry
INVARIANTS TypeOK RetentionHeld OrphansOnlyByCrash PurgeIsTotal
PROPERTIES ImplementsRecordLog ReportComplete
