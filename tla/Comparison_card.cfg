SPECIFICATION BothSpec
CONSTANTS
  Images <- MCImages
  Addresses <- MCAddresses
  MaxBranches = 4
  HIST1 = 2
  HIST2 = 3
  T1_BITS = 2
  T2_BITS = 2
  AgePeriod = 4
INVARIANTS
  MispredictionsOfAll
\* The program under test exits: nothing happens after Fini.
CHECK_DEADLOCK FALSE
