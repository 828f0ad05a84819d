SPECIFICATION Spec
CONSTANTS
  Tests = {test1, test2, test3}
  FirstTest = test1
  Canvases <- MCCanvases
  MaxLoads = 3
INVARIANTS
  OneLoadVisible
  FailedLoadsReported
  TypeOK
\* The user may leave the page as it is.
CHECK_DEADLOCK FALSE
