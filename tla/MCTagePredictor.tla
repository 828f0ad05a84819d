-------------------------- MODULE MCTagePredictor ---------------------------
EXTENDS TagePredictor

MCBranches == {4, 5}
=============================================================================
