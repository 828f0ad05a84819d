------------------------------ MODULE MCMyTage ------------------------------
(***************************************************************************)
(* Two branches at the first and the last address of the main executable,  *)
(* and a branch of a library right below and right above it.               *)
(***************************************************************************)
EXTENDS MyTage

MCImages == { [main |-> FALSE, low |-> 1, high |-> 3],
              [main |-> TRUE,  low |-> 4, high |-> 6],
              [main |-> FALSE, low |-> 7, high |-> 9] }

MCBranches == {3, 4, 6, 7}
=============================================================================
