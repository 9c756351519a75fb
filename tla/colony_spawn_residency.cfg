\* A spawn while workers run: the flag word is stored after the cell is claimed
CONSTANTS
  Workers = {w1, w2}
  Controller = Controller
  Nobody = Nobody
  MaxAnts = 2
  InitialAnts = 1
  Width = 3
  Height = 1
  TokenOne = 1
  Capacities = {1, 2}
  Quantum = 2
  MinService = 2
  HalveAbove = 1
  Effects = {"halt", "hold", "move"}
  Commands = {"spawn"}
SPECIFICATION Spec
INVARIANT Residency
