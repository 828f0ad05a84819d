SPECIFICATION Spec
CONSTANTS
  Images <- MCImages
  Addresses <- MCAddresses
  MaxBranches = 10
INVARIANTS
  TypeOK
  OneBitMissesAreFlips
  TwoBitFollowsRuns
  MissesAttributed
  HybridTracksTwoBit
  HybridTracksOneBit
  TwoBitTracksOneBit
  OneBitTracksTwoBit
  Competitive
PROPERTY ImplementsBranchTool
\* The program under test exits: nothing happens after Fini.
CHECK_DEADLOCK FALSE
