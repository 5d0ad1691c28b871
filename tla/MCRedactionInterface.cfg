SPECIFICATION Spec
CONSTANTS
  Polity = {a}
  Text = {1, 2}
  MaxSteps = 3
INVARIANTS InterfacesErased
CHECK_DEADLOCK FALSE
