\* Three ants on three cells: a third party at every collision
CONSTANTS
  Workers = {w1, w2}
  Controller = Controller
  Nobody = Nobody
  MaxAnts = 3
  InitialAnts = 3
  Width = 3
  Height = 1
  TokenOne = 1
  Capacities = {1}
  Quantum = 1
  MinService = 1
  HalveAbove = 1
  Effects = {"move"}
  Commands = {}
SYMMETRY WorkerSymmetry
SPECIFICATION Spec
INVARIANTS OneCellPerAnt Residency
