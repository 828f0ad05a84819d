--------------------------- MODULE MCTageWorkload ---------------------------
(***************************************************************************)
(* Programs for the predictor with its real tables and histories.          *)
(***************************************************************************)
EXTENDS TageWorkload, Basic1, TLC

\* The branches of the loop of basic1, by their offset in the image.
MCLoopBranch == 4497
MCTestBranch == 4421
MCSecondBranch == 4427
MCBranches == {MCLoopBranch, MCTestBranch, MCSecondBranch}

\* The outcomes of a branch that closes a loop of k iterations, and of one
\* that leaves it at the top.
MCBottomTest(k) == [i \in 1 .. k |-> IF i < k THEN "T" ELSE "N"]
MCTopTest(k) == [i \in 1 .. k |-> IF i < k THEN "N" ELSE "T"]

MCOn(ip, outcomes) == [i \in DOMAIN outcomes |-> <<ip, outcomes[i]>>]

\* Every pattern of at most 5 outcomes, and loops of up to HIST1 iterations.
MCPatterns ==
  [outcomes \in UNION {[1 .. n -> Outcome] : n \in 1 .. 5}
                  \cup UNION {{MCBottomTest(k), MCTopTest(k)} : k \in 1 .. HIST1}
     |-> [start |-> <<>>, body |-> MCOn(MCLoopBranch, outcomes)]]

\* ... and basic1.
MCLoops ==
  MCPatterns @@
  <<"basic1">> :> StateMachine(MCLoopBranch, MCTestBranch, MCSecondBranch)

\* One round: a loop of 31 iterations, then a test with the given outcome.
MCRound(o) ==
  MCOn(MCLoopBranch, MCBottomTest(31)) \o << <<MCTestBranch, o>> >>

\* A test that goes one way, twice the other way, and then the first way for
\* ever.
MCChangeOfMind ==
  << [start |-> MCRound("T") \o MCRound("N") \o MCRound("N"),
      body  |-> MCRound("T")] >>
=============================================================================
