SPECIFICATION MeasureSpec
CONSTANTS
  Images <- MCImages
  Addresses <- MCAddresses
  MaxBranches = 10000
  HIST1 = 8
  HIST2 = 16
  T1_BITS = 9
  T2_BITS = 9
  AgePeriod = 1024
  n = 50
  N = 20
  V = 9
  graph <- MCGraph
  Programs <- MCPrograms
  Code <- MCCode
  Measured <- MCMeasured
INVARIANTS
  AsMeasured
  BubbleSorts
  EveryTestSwaps
  MatrixMultiplies
  ShortestPaths
PROPERTIES
  ProgramsEnd
