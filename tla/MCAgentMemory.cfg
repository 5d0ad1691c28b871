SPECIFICATION Spec
CONSTANTS
  Runtime = {r1, r2}
  Text = {0, 1}
  Capacity = 2
  MaxAttempts = 2
  Confidant = confidant
  None = None
  MaxTurns = 0
  MaxEvents = 5
  MaxWrites = 1
  MaxRestarts = 1
CONSTRAINT OneTrouble
SYMMETRY Symmetry
INVARIANTS Reconstructs StoresHonest AppliedOnce InvokedOnce
CHECK_DEADLOCK FALSE
