SPECIFICATION Spec
CONSTANTS
  NameAtoms <- MCNames
  Clusters <- MCClusters
  LongFlags <- MCLongFlags
  BlockNames = {"sda"}
  Home <- MCHome
  MaxTargets = 3
  Letters <- MCLetters
  MaxWordChars = 5
  MaxNameBytes = 5
  MaxStats = 3
  NoName = NoName
  WalkUpCap = 2
  LineCap = 4
  OutputCap = 3
  Unavailable = Unavailable
  NoRepo = NoRepo
  Inputs <- MCInputs
  Shells <- MCShells
  Worlds <- MCWorlds
  MaxDirEntries = 3
INVARIANTS
  CatastrophicConfirmed
