SPECIFICATION PredictorSpec
CONSTANTS
  Branches <- MCBranches
  HIST1 = 0
  HIST2 = 1
  T1_BITS = 0
  T2_BITS = 0
  AgePeriod = 2
INVARIANT PredictorTypeOK
PROPERTIES
  MissTeaches
  ShadowStays
  UsefulStays
  UnusedDecays
  SteadyDecided
