\* Two workers and two ants, callbacks in any order
CONSTANTS
  Workers = {w1, w2}
  AntCount = 2
SPECIFICATION FairSpec
INVARIANTS OffMeansOff EngineFreedUnused SleepersCovered
PROPERTY CallbacksEnd
