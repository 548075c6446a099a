SPECIFICATION FairSpec
CONSTANTS
  Det = 2
  ModelT = 2
  Margin = 1
  MaxKeys = 2
  Faults = {"kill", "restore"}
INVARIANTS
  TypeOK
  TenMeansDelivered
  AnswerHonoured
  RecordsAreTruthful
  ReturnByDeadline
  ConsultOutlivedByGrant
PROPERTIES
  ImplementsConsent
  ShellRegainsControl
