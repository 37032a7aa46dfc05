SPECIFICATION Spec
CONSTANTS
  a1 = a1
  a2 = a2
  b = b
  c = c
  d1 = d1
  d2 = d2
  Component = {a1, a2, b, c}
  Driver = {d1, d2}
  Name <- NameOf
SYMMETRY Symmetry
INVARIANTS AcceptedAreDriven DrivenHaveOwnNames DrivenOnce
