SPECIFICATION MCSpec
CONSTANTS
  NameAtoms <- MCNames
  Clusters <- MCClusters
  LongFlags <- MCLongFlags
  BlockNames = {"sda"}
  Home <- MCHome
  MaxTargets = 3
  Letters <- MCLetters
  MaxWordChars = 5
  MaxNameBytes = 5
  MaxStats = 3
  NoName = NoName
  WalkUpCap = 2
  LineCap = 4
  OutputCap = 3
  Unavailable = Unavailable
  NoRepo = NoRepo
  Inputs <- MCInputs
  Shells <- MCShells
  Worlds <- MCWorlds
  MaxDirEntries = 3
  Commands = {c1, c2}
  Default <- MCDefault
  Valid <- MCValid
  Overrides = {"absent", "confirm", "bad"}
  NoFile = NoFile
  ByteKinds <- MCKinds
  Payloads <- MCPayloads
  FlagLists <- MCFlagLists
  InputCap = 14
  MaxNames = 2
  MaxRecency = 2
  Timeouts = {4, 8}
  ProbeShare = 4
  ProbeMin = 1
  ProbeMax = 1
  HeadCap = 2
  ReadSize = 3
  PsCap = 2
  ChatCap = 2
  Slack = 1
  Writes = 2
  SizeOf <- MCSizeOf
  Replies <- MCReplies
  NoReply = NoReply
  Limit = 4
  PollEvery = 2
  KeepCap = 2
  PipeSize = 2
  MaxOutput = 5
  MaxTime = 8
  Bytes <- MCBytes
  Events <- MCEvents
  Final = {"y", "r", "A"}
  Parameter = {"1", ";"}
  CsiBytes = 3
  MaxKeys = 4
INVARIANTS
  LexesAsTheShell
  NoSegmentShields
  SuggestionIsNearest
  ReplacementKeepsTheRest
  VerdictIsEarned
  ComplaintsAreTrue
  TakenIsSent
  EndsByDeadline
  CommandOnlyToTrusted
  EvidenceIffSound
  HelperIsBounded
  AnswerWasTyped
PROPERTIES
  SaidOnce
