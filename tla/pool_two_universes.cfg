\* Two workers, two universes enabled, changed and suspended in any order
CONSTANTS
  Workers = {w1, w2}
  Slots = {1, 2}
  MaxReady = 1
  Events = {"locked", "setting", "suspend", "deadline", "spurious"}
  Owner = Owner
  Unheld = Unheld
SYMMETRY WorkerSymmetry
SPECIFICATION Spec
INVARIANTS NoLostWakeup SuspendedUntouched NoForgottenSuspension
PROPERTY ContractSpec
