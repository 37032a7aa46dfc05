SPECIFICATION Spec
CONSTANTS
  Call = {c1, c2}
  Header = {h}
SYMMETRY Calls
INVARIANTS PanicsAreContained LinesNameTheCall PanicsAreTold EndTellsTheAnswer
