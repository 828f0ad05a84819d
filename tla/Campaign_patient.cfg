SPECIFICATION CampaignSpec
CONSTANTS
  Tests = {test1, test2}
  FirstTest = test1
  DefaultName = test1
  Canvases <- MCCanvases
  MaxLoads = 3
  MaxBuilds = 1
  MaxRuns = 3
INVARIANTS
  ThisTestcase
PROPERTIES
  DisplaysMeasurement
\* The user may leave the page as it is.
CHECK_DEADLOCK FALSE
