SPECIFICATION Spec
CONSTANTS
  Handle = {h1, h2}
  Key = {k1}
  Candidate = {c1}
  None = None
  MaxGenerations = 5
  MaxAttempts = 2
  MaxFaults = 2
INVARIANTS RecoveryAccepted HandlesHonest
PROPERTY ImplementsLog
SYMMETRY Symmetry
