\* Batches outweigh the weights: a slow light ant and a fast heavy one under the workers of the pool
CONSTANTS
  Ants <- MCAnts
  Weight <- MCWeight
  Rate <- MCRate
  Capacity <- MCCapacity
  Workers = {w1, w2}
  One = 2
  Second = 2
  Divisor = 2
  MinService = 3
  Quanta = {2, 3}
  MinNap = 1
  WordMax = 3
  ShortMax = 1
  LongMod = 16
  MaxLead = 4
  MaxHalts = 1
SPECIFICATION FairSpec
INVARIANTS NeverOversleeps NewbornNearBaseline
PROPERTIES TimeIsPaid EveryAntServed
