\* Liveness: one universe, work is found, suspension and destruction end
CONSTANTS
  Workers = {w1, w2}
  Slots = {1}
  MaxReady = 1
  Events = {"locked", "setting", "suspend", "deadline", "spurious"}
  Owner = Owner
  Unheld = Unheld
SPECIFICATION FairSpec
PROPERTIES WorkIsFound SuspendEnds DestroyEnds
