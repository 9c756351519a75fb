\* Two ants with fractional balances under all the operator's commands
CONSTANTS
  Workers = {w1, w2}
  Controller = Controller
  Nobody = Nobody
  MaxAnts = 2
  InitialAnts = 1
  Width = 2
  Height = 1
  TokenOne = 2
  Capacities = {3}
  Quantum = 2
  MinService = 2
  HalveAbove = 1
  Effects = {"halt", "hold", "move"}
  Commands = {"spawn", "cull", "drain", "pause"}
SYMMETRY WorkerSymmetry
SPECIFICATION Spec
INVARIANTS TypeOK NoGhosts LeaseExclusive PopulationAgrees PrivateBalance DrainingEarnsNothing
PROPERTIES MarkNeverLost DrainCreatesNothing HalvingSpares
