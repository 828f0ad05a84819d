----------------------------- MODULE Comparison -----------------------------
(***************************************************************************)
(* The comparison that the project is built for: MyBranch and MyTage run   *)
(* over the same program, and the page puts their results side by side.    *)
(*                                                                         *)
(* The two tools run one after the other.  A program without input that    *)
(* changes executes the same branches in both runs, so the runs are paired *)
(* here step by step: each branch is recorded by both tools.  The images   *)
(* are taken to be at the same addresses in both runs.                     *)
(***************************************************************************)
EXTENDS MyBranch

CONSTANTS HIST1, HIST2, T1_BITS, T2_BITS, AgePeriod   \* see TagePredictor

VARIABLES
  T0, T1, T2, GHR, clock_,               \* MyTage: the predictor
  lowT, highT,                           \* its watched range
  totalT, takenT, nottakenT,             \* its statistics and its output,
  tagePred, tageCorrect,                 \* see MyTage
  historyT, mispredPerBranch,
  consoleT, jsonT

Tage == INSTANCE MyTage WITH
  Branches <- Addresses,
  low <- lowT, high <- highT,
  total <- totalT, taken <- takenT, nottaken <- nottakenT,
  history <- historyT, console <- consoleT, json <- jsonT

bothVars ==
  <<vars, T0, T1, T2, GHR, clock_, lowT, highT, totalT, takenT, nottakenT,
    tagePred, tageCorrect, historyT, mispredPerBranch, consoleT, jsonT>>

BothInit == Init /\ Tage!Init

\* The program loads an image in both runs.
BothImage(img) == Image(img) /\ Tage!Image(img)

\* The program executes a branch in both runs.
BothExecute(ip, actual) == ExecuteBranch(ip, actual) /\ Tage!ExecuteBranch(ip, actual)

\* The program exits in both runs; each tool may fail to open its file.
BothFini(opened, openedT) == Fini(opened) /\ Tage!Fini(openedT)

BothNext ==
  \/ \E img \in Images : BothImage(img)
  \/ \E ip \in Addresses, actual \in Outcome : BothExecute(ip, actual)
  \/ \E opened, openedT \in BOOLEAN : BothFini(opened, openedT)

BothSpec == BothInit /\ [][BothNext]_bothVars
-----------------------------------------------------------------------------
(***************************************************************************)
(* What the page makes of the two results files.                           *)
(***************************************************************************)
Winner(h, t) ==
  IF t.best_accuracy > h.best_accuracy THEN "TAGE wins" ELSE "Hybrid wins"

Larger(a, b) == IF a > b THEN a ELSE b

\* The cards at the top.
Cards(h, t) ==
  [total   |-> h.total,
   best    |-> Larger(h.best_accuracy, t.best_accuracy),
   winner  |-> Winner(h, t),
   mispred |-> h.mispred]

\* The bars of the comparison chart, from top to bottom.
Bars(h, t) ==
  <<t.predictors.tage, h.predictors.hybrid, h.predictors.two, h.predictors.one>>

Written == json # NoFile /\ jsonT # NoFile

Shown == Cards(json, jsonT)
-----------------------------------------------------------------------------
\* The base predictor of MyTage (MyTage.cpp:102-103, 124-126) is the 2-bit
\* predictor of MyBranch (MyBranch.cpp:48-52, 69-71): the same branches and
\* the same counters at every moment, whatever the tagged tables do.  What
\* TAGE wins or loses against the 2-bit column is due to those.
BaseIsTwoBit == T0 = BHT2

\* The page puts one total above the accuracies of two files (script.js:22)
\* and compares percentages that were counted in two runs.  That means
\* something only because the tools observe the same program: they hold the
\* same trace, branch for branch and outcome for outcome, and the total of
\* the one file is the number of executions behind the other's accuracy too.
OneProgram ==
  /\ historyT = history
  /\ Written =>
       /\ Shown.total = jsonT.total
       /\ Shown.total = Cardinality(Calls)

MispredT == tagePred - tageCorrect

\* Up to here one misprediction is at least one unit of the last digit that
\* the files have; in longer programs it may disappear in the rounding.
RoundingLimit == 1000000

\* The page names the winner from rounded numbers of two files.  It says that
\* TAGE wins exactly when MyTage made fewer mispredictions than the hybrid on
\* this program (script.js:26), and the accuracy above it is the one of the
\* winner's bar (script.js:24, 32).
WinnerIsBetter ==
  Written /\ total <= RoundingLimit =>
    /\ Shown.winner = "TAGE wins" <=> MispredT < MispredH
    /\ Shown.best = Bars(json, jsonT)[IF MispredT < MispredH THEN 1 ELSE 2]

\* The card of the mispredictions is labelled "Total mispredictions", "across
\* all predictors" (index.html:34-36).
MispredictionsOfAll ==
  Written => Shown.mispred = Mispred1 + Mispred2 + MispredH + MispredT
=============================================================================
