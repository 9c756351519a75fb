\* Three keys through a queue of two, one lifetime that ends by itself, closes and failures
CONSTANTS
  Workers = {w1, w2}
  QueueSize = 2
  Keys = {"q", "r", "space", "plus"}
  MaxKeys = 3
  MaxTimeouts = 1
  MaxLive = 2
  InitialAnts = 1
  Modes = {TRUE, FALSE}
SPECIFICATION FairSpec
INVARIANTS KeysInOrder ModesAgree ExportAtRest FreedUnused
PROPERTIES DrainIsFinal ContractUsed QuitEnds DebugQuitEnds
