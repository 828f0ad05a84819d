SPECIFICATION WorkloadSpec
CONSTANTS
  Programs <- MCChangeOfMind
  Branches <- MCBranches
  HIST1 = 8
  HIST2 = 16
  T1_BITS = 9
  T2_BITS = 9
  AgePeriod = 256
PROPERTY LearnsSteady
