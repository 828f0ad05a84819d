SPECIFICATION Spec
CONSTANTS
  Images <- MCImages
  Branches <- MCBranches
  MaxBranches = 6
  HIST1 = 2
  HIST2 = 3
  T1_BITS = 2
  T2_BITS = 2
  AgePeriod = 4
INVARIANTS
  TypeOK
  MissesAttributed
  RegisterInterleaves
  BaseFollowsRuns
PROPERTY ImplementsBranchTool
\* The program under test exits: nothing happens after Fini.
CHECK_DEADLOCK FALSE
