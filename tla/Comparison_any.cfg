SPECIFICATION BothSpec
CONSTANTS
  Images <- MCImages
  Addresses <- MCAddresses
  MaxBranches = 7
  HIST1 = 2
  HIST2 = 3
  T1_BITS = 2
  T2_BITS = 2
  AgePeriod = 4
INVARIANTS
  OneProgram
  BaseIsTwoBit
  WinnerIsBetter
\* The program under test exits: nothing happens after Fini.
CHECK_DEADLOCK FALSE
