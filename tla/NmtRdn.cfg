SPECIFICATION Spec
CONSTANTS
  A = A
  B = B
  Bus = {A, B}
  Ms = 2
  Period = 1
  Storeds <- MCStoreds
  Ttoggles = {0, 1, 2}
  Ntoggles = {0, 1, 2}
  MaxChange = 5
  SteadyCap = 16
INVARIANTS TypeOK SelectionIsOn
PROPERTIES NoMasterMeansGone SelectionEnds
