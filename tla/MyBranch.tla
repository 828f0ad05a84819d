------------------------------ MODULE MyBranch ------------------------------
(***************************************************************************)
(* The pintool of MyBranch.cpp: a 1-bit predictor, a 2-bit saturating      *)
(* counter predictor and a hybrid that chooses between them, all three     *)
(* keyed by the full address of the branch and run side by side.           *)
(*                                                                         *)
(* Pin is the environment.  It announces every image it loads (Image),     *)
(* calls RecordBranch before every branch instruction it executes, and     *)
(* calls Fini when the program exits.  The program under test is the       *)
(* nondeterminism: any branch of a loaded image may run with any outcome.  *)
(*                                                                         *)
(* Left out: the branch targets in the trace and the layout of the console *)
(* output, which no decision of the tool reads.                            *)
(*                                                                         *)
(* A definition whose name ends in Mut is the next definition with a       *)
(* plausible bug in it.  No action uses it: it shows that the properties   *)
(* below would notice that bug.                                            *)
(***************************************************************************)
EXTENDS FiniteSets, StdMap, Percent

CONSTANTS
  Images,        \* the images of the program: [main, low, high] records
  Addresses,     \* the addresses of the branch instructions of the program
  MaxBranches    \* bound on the number of recorded branches

InImage(ip, img) == img.low <= ip /\ ip <= img.high

MainImage == CHOOSE img \in Images : img.main

\* Page 0 is never mapped, images do not overlap, Pin was started on one of
\* them, and every branch instruction lies in one of them.
ASSUME ImagesAssumption ==
  /\ Images \subseteq [main : BOOLEAN, low : Nat \ {0}, high : Nat \ {0}]
  /\ \E img \in Images : img.main
  /\ \A i, j \in Images : i.main /\ j.main => i = j
  /\ \A i, j \in Images : i # j => i.high < j.low \/ j.high < i.low
  /\ Addresses \subseteq Nat \ {0}
  /\ \A ip \in Addresses : \E img \in Images : InImage(ip, img)

ASSUME MaxBranchesAssumption == MaxBranches \in Nat

VARIABLES
  loaded,                    \* Pin: the images announced so far
  low, high,                 \* the watched address range
  BHT, BHT2, selector,       \* the tables of the three predictors
  predictions, correct,      \* 1-bit: predictions made, and right
  pred2, correct2,           \* 2-bit
  predH, correctH,           \* hybrid
  total, taken, nottaken,    \* recorded branches, and by outcome
  history,                   \* branch -> sequence of its outcomes
  mispredBranch,             \* branch -> mispredictions of the hybrid
  console,                   \* what Fini printed, NoReport before
  json                       \* the results file Fini wrote, NoFile before

range == <<low, high>>
tables == <<BHT, BHT2, selector>>
counts == <<predictions, correct, pred2, correct2, predH, correctH,
            total, taken, nottaken>>
traces == <<history, mispredBranch>>
output == <<console, json>>
vars == <<loaded, range, tables, counts, traces, output>>

Outcome == {"T", "N"}

NoReport == [total |-> -1]
NoFile == [total |-> -1]
-----------------------------------------------------------------------------
(***************************************************************************)
(* The three predictions made for a branch, and the training of the        *)
(* tables.  A branch that has no entry in BHT is "predicted" by its actual *)
(* outcome, so its first execution always counts as right for the 1-bit    *)
(* predictor; one that has no entry in BHT2 starts weakly taken.           *)
(***************************************************************************)
\* Mutant: an unknown branch is predicted taken.
OneBitPredictionMut(ip, actual) == Lookup(BHT, ip, "T")

OneBitPrediction(ip, actual) == Lookup(BHT, ip, actual)

TwoBitState(ip) == Lookup(BHT2, ip, 2)

TwoBitPrediction(ip) == IF TwoBitState(ip) >= 2 THEN "T" ELSE "N"

HybridPrediction(ip, actual) ==
  IF Lookup(selector, ip, 2) <= 1
    THEN OneBitPrediction(ip, actual)
    ELSE TwoBitPrediction(ip)

Disagree(ip, actual) ==
  /\ ip \in DOMAIN BHT /\ ip \in DOMAIN BHT2
  /\ OneBitPrediction(ip, actual) # TwoBitPrediction(ip)

\* Mutant: the selector moves towards the predictor that was wrong.
SelectorAfterMut(ip, actual) ==
  LET sel == Lookup(selector, ip, 2)
  IN  CASE Disagree(ip, actual) /\ TwoBitPrediction(ip) # actual /\ sel < 3 -> sel + 1
        [] Disagree(ip, actual) /\ TwoBitPrediction(ip) = actual /\ sel > 0 -> sel - 1
        [] OTHER -> sel

\* The selector moves only when both predictors know the branch and
\* disagree: up when the 2-bit predictor was right, down when the 1-bit was.
SelectorAfter(ip, actual) ==
  LET sel == Lookup(selector, ip, 2)
  IN  CASE Disagree(ip, actual) /\ TwoBitPrediction(ip) = actual /\ sel < 3 -> sel + 1
        [] Disagree(ip, actual) /\ TwoBitPrediction(ip) # actual /\ sel > 0 -> sel - 1
        [] OTHER -> sel

\* Mutant: the counter of a taken branch does not saturate.
TwoBitAfterUncapped(ip, actual) ==
  IF actual = "T" THEN TwoBitState(ip) + 1
  ELSE IF TwoBitState(ip) > 0 THEN TwoBitState(ip) - 1 ELSE 0

\* Mutant: a taken branch counts down, one that is not taken up.
TwoBitAfterSwapped(ip, actual) ==
  CASE actual = "N" /\ TwoBitState(ip) < 3 -> TwoBitState(ip) + 1
    [] actual = "T" /\ TwoBitState(ip) > 0 -> TwoBitState(ip) - 1
    [] OTHER -> TwoBitState(ip)

\* Mutant: the counter of a taken branch stops one short of the maximum.
TwoBitAfterShort(ip, actual) ==
  CASE actual = "T" /\ TwoBitState(ip) < 2 -> TwoBitState(ip) + 1
    [] actual = "N" /\ TwoBitState(ip) > 0 -> TwoBitState(ip) - 1
    [] OTHER -> TwoBitState(ip)

TwoBitAfter(ip, actual) ==
  CASE actual = "T" /\ TwoBitState(ip) < 3 -> TwoBitState(ip) + 1
    [] actual = "N" /\ TwoBitState(ip) > 0 -> TwoBitState(ip) - 1
    [] OTHER -> TwoBitState(ip)

\* Mutant: a misprediction is flagged and not counted.
MispredBranchAfterMut(ip, wrong) ==
  IF wrong THEN Put(mispredBranch, ip, 1) ELSE mispredBranch

MispredBranchAfter(ip, wrong) ==
  IF wrong
    THEN Put(mispredBranch, ip, Lookup(mispredBranch, ip, 0) + 1)
    ELSE mispredBranch

Same(prediction, actual) == IF prediction = actual THEN 1 ELSE 0
-----------------------------------------------------------------------------
Init ==
  /\ loaded = {}
  /\ low = 0 /\ high = 0
  /\ BHT = EmptyMap /\ BHT2 = EmptyMap /\ selector = EmptyMap
  /\ predictions = 0 /\ correct = 0
  /\ pred2 = 0 /\ correct2 = 0
  /\ predH = 0 /\ correctH = 0
  /\ total = 0 /\ taken = 0 /\ nottaken = 0
  /\ history = EmptyMap /\ mispredBranch = EmptyMap
  /\ console = NoReport /\ json = NoFile

Running == console = NoReport

\* Mutant: every image sets the range.
WatchMut(img) == low' = img.low /\ high' = img.high

\* Only the main executable sets the range.
Watch(img) ==
  IF img.main THEN low' = img.low /\ high' = img.high ELSE UNCHANGED range

\* Image: Pin has loaded an image.
Image(img) ==
  /\ Running
  /\ img \notin loaded
  /\ loaded' = loaded \cup {img}
  /\ Watch(img)
  /\ UNCHANGED <<tables, counts, traces, output>>

Watched(ip) == low <= ip /\ ip <= high

\* RecordBranch for a branch outside the watched range: it returns at once.
IgnoreBranch(ip) == ~Watched(ip) /\ UNCHANGED vars

\* RecordBranch for a branch of the main executable.
RecordBranch(ip, actual) ==
  /\ Watched(ip)
  /\ total < MaxBranches
  /\ total' = total + 1
  /\ predictions' = predictions + 1
  /\ correct' = correct + Same(OneBitPrediction(ip, actual), actual)
  /\ pred2' = pred2 + 1
  /\ correct2' = correct2 + Same(TwoBitPrediction(ip), actual)
  /\ predH' = predH + 1
  /\ correctH' = correctH + Same(HybridPrediction(ip, actual), actual)
  /\ selector' = Put(selector, ip, SelectorAfter(ip, actual))
  /\ BHT' = Put(BHT, ip, actual)
  /\ BHT2' = Put(BHT2, ip, TwoBitAfter(ip, actual))
  /\ taken' = taken + Same("T", actual)
  /\ nottaken' = nottaken + Same("N", actual)
  /\ history' = Put(history, ip, Append(Lookup(history, ip, <<>>), actual))
  /\ mispredBranch' =
       MispredBranchAfter(ip, HybridPrediction(ip, actual) # actual)
  /\ UNCHANGED <<loaded, range, output>>

\* Pin executes a branch instruction: the call inserted by Instruction.
ExecuteBranch(ip, actual) ==
  /\ Running
  /\ \E img \in loaded : InImage(ip, img)
  /\ IgnoreBranch(ip) \/ RecordBranch(ip, actual)

\* Fini prints the totals and then writes the results file, if it opens.
Fini(opened) ==
  /\ Running
  /\ console' = [total |-> total, taken |-> taken, nottaken |-> nottaken,
                 mispred1 |-> predictions - correct,
                 mispred2 |-> pred2 - correct2,
                 mispredH |-> predH - correctH]
  /\ json' =
       IF opened
         THEN [total |-> total,
               best_accuracy |-> Accuracy(correctH, predH),
               winner |-> "Hybrid",
               mispred |-> predH - correctH,
               predictors |-> [one |-> Accuracy(correct, predictions),
                               two |-> Accuracy(correct2, pred2),
                               hybrid |-> Accuracy(correctH, predH)],
               branches |-> mispredBranch]
         ELSE json
  /\ UNCHANGED <<loaded, range, tables, counts, traces>>

Next == \/ \E img \in Images : Image(img)
        \/ \E ip \in Addresses, actual \in Outcome : ExecuteBranch(ip, actual)
        \/ \E opened \in BOOLEAN : Fini(opened)

Spec == Init /\ [][Next]_vars
-----------------------------------------------------------------------------
\* Every variable has the type of its declaration, the two-bit counters stay
\* in 0..3, and the four tables know the same branches (RecordBranch).
TypeOK ==
  /\ loaded \subseteq Images
  /\ low \in Nat /\ high \in Nat
  /\ IsMap(BHT, Addresses, Outcome)
  /\ IsMap(BHT2, Addresses, 0 .. 3)
  /\ IsMap(selector, Addresses, 0 .. 3)
  /\ predictions \in Nat /\ correct \in Nat
  /\ pred2 \in Nat /\ correct2 \in Nat
  /\ predH \in Nat /\ correctH \in Nat
  /\ total \in Nat /\ taken \in Nat /\ nottaken \in Nat
  /\ IsMap(history, Addresses, Seq(Outcome) \ {<<>>})
  /\ IsMap(mispredBranch, Addresses, Nat)
  /\ DOMAIN BHT = DOMAIN history
  /\ DOMAIN BHT2 = DOMAIN history
  /\ DOMAIN selector = DOMAIN history
  /\ DOMAIN mispredBranch \subseteq DOMAIN history

\* The mispredictions that Fini prints for the three predictors.
Mispred1 == predictions - correct
Mispred2 == pred2 - correct2
MispredH == predH - correctH

\* The recorded executions: <<ip, i>> is the i-th execution of branch ip.
Calls == Units(Lengths(history))

Flipped(ip, i) == i > 1 /\ history[ip][i] # history[ip][i - 1]

\* The executions whose outcome differs from the one before, same branch.
Flips == {c \in Calls : Flipped(c[1], c[2])}

\* The 1-bit predictor is wrong exactly when a branch changes direction: the
\* mispredictions that Fini prints for it are the changes of direction in the
\* recorded trace, branch by branch, with no interference between branches
\* and a free first prediction.
OneBitMissesAreFlips == Mispred1 = Cardinality(Flips)

\* The last n outcomes of branch ip were all o.
LastOutcomes(ip, n, o) ==
  LET h == history[ip]
  IN  Len(h) >= n /\ \A i \in 0 .. n - 1 : h[Len(h) - i] = o

\* The hysteresis of the 2-bit counter, whatever came before: two equal
\* outcomes in a row always retrain it, three saturate it, so that after
\* three a single deviation does not change the prediction.
TwoBitFollowsRuns ==
  \A ip \in DOMAIN history :
    /\ LastOutcomes(ip, 1, "T") => BHT2[ip] >= 1
    /\ LastOutcomes(ip, 1, "N") => BHT2[ip] <= 2
    /\ LastOutcomes(ip, 2, "T") => BHT2[ip] >= 2
    /\ LastOutcomes(ip, 2, "N") => BHT2[ip] <= 1
    /\ LastOutcomes(ip, 3, "T") => BHT2[ip] = 3
    /\ LastOutcomes(ip, 3, "N") => BHT2[ip] = 0

\* The per-branch list of the results file accounts for every misprediction
\* of the hybrid, the number printed as "mispred" in its summary.
MissesAttributed == Cardinality(Units(mispredBranch)) = MispredH

\* The hybrid is competitive with the 2-bit predictor on every program: it
\* makes at most four mispredictions for three of the 2-bit predictor.
HybridTracksTwoBit == 3 * MispredH <= 4 * Mispred2

\* ... and with the 1-bit predictor in the same ratio, up to five thirds of a
\* misprediction for each branch, the price of its cold start (the first
\* prediction of the 1-bit predictor is always right).
HybridTracksOneBit ==
  3 * MispredH <= 4 * Mispred1 + 5 * Cardinality(DOMAIN history)

\* Neither of the two parts can be left far behind by the other: a change of
\* direction costs the 2-bit predictor two mispredictions at most, and it
\* starts one behind for each branch, whose first outcome is a right guess of
\* the 1-bit predictor whatever it is (pred1, MyBranch.cpp:43), while the 2-bit
\* predictor takes the branch for taken (state2, MyBranch.cpp:49).
TwoBitTracksOneBit == Mispred2 <= 2 * Mispred1 + Cardinality(DOMAIN history)

\* The other way round, an outcome that the 2-bit predictor sits out costs the
\* 1-bit predictor two: when it comes, and when the branch comes back.
OneBitTracksTwoBit == Mispred1 <= 2 * Mispred2
-----------------------------------------------------------------------------
(***************************************************************************)
(* Why the two bounds hold.  A branch whose predictors disagree can make   *)
(* the hybrid wrong where one of them is right, a limited number of times, *)
(* before its selector moves to the other.  Reserve2 and Reserve1 measure  *)
(* what such a branch must already have cost the 2-bit, respectively the   *)
(* 1-bit predictor, for it to be in its present state.                     *)
(***************************************************************************)

\* How firmly the 2-bit counter agrees with the last outcome; at least 1.
Grip(ip) == IF BHT[ip] = "T" THEN BHT2[ip] ELSE 3 - BHT2[ip]

LooseGrip(ip) == IF Grip(ip) = 1 THEN 1 ELSE 0

Reserve2(ip) ==
  LooseGrip(ip) + CASE selector[ip] = 0 -> 7
                    [] selector[ip] = 1 -> 2
                    [] selector[ip] = 2 -> 0
                    [] OTHER            -> 1

Reserve1(ip) ==
  LooseGrip(ip) + CASE selector[ip] = 0 -> 1
                    [] selector[ip] = 1 -> 0
                    [] selector[ip] = 2 -> 2
                    [] OTHER            -> 7

Reserves2 == [ip \in DOMAIN history |-> Reserve2(ip)]
Reserves1 == [ip \in DOMAIN history |-> Reserve1(ip)]

\* The table entries of a branch against its trace: BHT holds the last
\* outcome, and the 2-bit counter leans towards it.
TablesFollowTrace ==
  \A ip \in DOMAIN history :
    /\ BHT[ip] = history[ip][Len(history[ip])]
    /\ Grip(ip) >= 1

\* What a misprediction of the hybrid costs has been paid for by
\* mispredictions of the predictor it is compared with, and the reserves of
\* all branches are still there.
ReservesCovered ==
  /\ 3 * MispredH + Cardinality(Units(Reserves2)) <= 4 * Mispred2
  /\ 3 * MispredH + Cardinality(Units(Reserves1))
       <= 4 * Mispred1 + 5 * Cardinality(DOMAIN history)

\* The inductive part of the two bounds: what RecordBranch preserves.
Competitive == TablesFollowTrace /\ ReservesCovered
-----------------------------------------------------------------------------
\* MyBranch is a branch tool: it watches the main executable only, whatever
\* the order in which images load, and what it prints at exit are the totals
\* of the trace it recorded.
Tool == INSTANCE BranchTool WITH
  MainAddresses <- {ip \in Addresses : InImage(ip, MainImage)},
  trace <- history,
  missed <- mispredBranch,
  report <- IF Running THEN NoReport
            ELSE [total |-> console.total, taken |-> console.taken,
                  nottaken |-> console.nottaken, mispred |-> console.mispredH]

ImplementsBranchTool == Tool!Spec
=============================================================================
