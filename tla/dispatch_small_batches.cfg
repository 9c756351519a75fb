\* One worker, single-instruction batches, weights farther apart than a batch
CONSTANTS
  Ants <- MCAnts
  Weight <- MCUnevenWeight
  Rate <- MCRate
  Capacity <- MCCapacity
  Workers = {w1}
  One = 2
  Second = 2
  Divisor = 2
  MinService = 3
  Quanta = {1}
  MinNap = 1
  WordMax = 3
  ShortMax = 1
  LongMod = 16
  MaxLead = 4
  MaxHalts = 0
SPECIFICATION FairSpec
PROPERTY EveryAntServed
