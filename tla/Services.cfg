SPECIFICATION ServicesSpec
CONSTANTS
  i1 = i1
  i2 = i2
  d1 = d1
  d2 = d2
  p1 = p1
  founding = founding
  Note = {"n1"}
  Author = {"app"}
  Run = {"job", "other"}
  MaxSends = 3
  Crashes = 2
  Instance <- Containers
  Id <- ThreeIds
  Initially <- AllButTwo
  ChunkSize = 2
  MaxRuns = 2
  MaxStops = 1
  MaxBreaks = 1
  Dossier <- Dossiers
  Person = {p1}
  Founding <- FoundedIt
  Scan = {s1}
  Class = {"notifications", "refused", "former", "drafts"}
  HolderId <- ThreeIds
  FirstHolders <- AllButTwo
  HoldersAChunk = 2
  MaxStatements = 2
  MaxInterrupts = 1
SYMMETRY Alike
CHECK_DEADLOCK FALSE
INVARIANTS
  OneOpenRun
  NothingMissed
  
  
PROPERTIES
  
  NeverForgotten
  EveryRunEnds
