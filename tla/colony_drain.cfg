\* Liveness: a drain with partial batches and collision pauses ends
CONSTANTS
  Workers = {w1, w2}
  Controller = Controller
  Nobody = Nobody
  MaxAnts = 2
  InitialAnts = 2
  Width = 2
  Height = 1
  TokenOne = 1
  Capacities = {2}
  Quantum = 2
  MinService = 2
  HalveAbove = 1
  Effects = {"halt", "hold", "move"}
  Commands = {"drain"}
SPECIFICATION FairSpec
PROPERTY DrainCompletes
