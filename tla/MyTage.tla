------------------------------- MODULE MyTage -------------------------------
(***************************************************************************)
(* The pintool of MyTage.cpp: the TAGE predictor of TagePredictor, fed by  *)
(* Pin with the branches of the main executable, and the statistics that   *)
(* it prints and writes when the program exits.  Pin and the program under *)
(* test are the environment, as in MyBranch.                               *)
(*                                                                         *)
(* Left out: the branch targets in the trace and the layout of the output, *)
(* which no decision of the tool reads.                                    *)
(***************************************************************************)
EXTENDS TagePredictor, FiniteSets, Percent

CONSTANTS
  Images,        \* the images of the program: [main, low, high] records
  MaxBranches    \* bound on the number of recorded branches

InImage(ip, img) == img.low <= ip /\ ip <= img.high

MainImage == CHOOSE img \in Images : img.main

\* Page 0 is never mapped, images do not overlap, Pin was started on one of
\* them, and every branch instruction lies in one of them.
ASSUME ImagesAssumption ==
  /\ Images \subseteq [main : BOOLEAN, low : Nat \ {0}, high : Nat \ {0}]
  /\ \E img \in Images : img.main
  /\ \A i, j \in Images : i.main /\ j.main => i = j
  /\ \A i, j \in Images : i # j => i.high < j.low \/ j.high < i.low
  /\ \A ip \in Branches : \E img \in Images : InImage(ip, img)

ASSUME MaxBranchesAssumption == MaxBranches \in Nat

VARIABLES
  loaded,                   \* Pin: the images announced so far
  low, high,                \* the watched address range
  total, taken, nottaken,   \* recorded branches, and by outcome
  tagePred, tageCorrect,    \* predictions made, and right
  history,                  \* branch -> sequence of its outcomes
  mispredPerBranch,         \* branch -> mispredictions
  console,                  \* what Fini printed, NoReport before
  json                      \* the results file Fini wrote, NoFile before

range == <<low, high>>
counts == <<total, taken, nottaken, tagePred, tageCorrect>>
traces == <<history, mispredPerBranch>>
output == <<console, json>>
vars == <<predictor, loaded, range, counts, traces, output>>

NoReport == [total |-> -1]
NoFile == [total |-> -1]

Init ==
  /\ PredictorInit
  /\ loaded = {}
  /\ low = 0 /\ high = 0
  /\ total = 0 /\ taken = 0 /\ nottaken = 0
  /\ tagePred = 0 /\ tageCorrect = 0
  /\ history = EmptyMap /\ mispredPerBranch = EmptyMap
  /\ console = NoReport /\ json = NoFile

Running == console = NoReport

\* Image: Pin has loaded an image; only the main executable sets the range.
Image(img) ==
  /\ Running
  /\ img \notin loaded
  /\ loaded' = loaded \cup {img}
  /\ IF img.main THEN low' = img.low /\ high' = img.high ELSE UNCHANGED range
  /\ UNCHANGED <<predictor, counts, traces, output>>

\* Mutant: the branches of all images are recorded.
WatchedMut(ip) == TRUE

Watched(ip) == low <= ip /\ ip <= high

\* RecordBranch for a branch outside the watched range: it returns at once.
IgnoreBranch(ip) == ~Watched(ip) /\ UNCHANGED vars

Same(guess, actual) == IF guess = actual THEN 1 ELSE 0

\* Mutant: a misprediction is charged to the branch only once.
MispredAfterMut(ip, wrong) ==
  IF wrong THEN Put(mispredPerBranch, ip, 1) ELSE mispredPerBranch

MispredAfter(ip, wrong) ==
  IF wrong
    THEN Put(mispredPerBranch, ip, Lookup(mispredPerBranch, ip, 0) + 1)
    ELSE mispredPerBranch

\* RecordBranch for a branch of the main executable.
RecordBranch(ip, actual) ==
  /\ Watched(ip)
  /\ total < MaxBranches
  /\ total' = total + 1
  /\ tagePred' = tagePred + 1
  /\ tageCorrect' = tageCorrect + Same(prediction(ip), actual)
  /\ mispredPerBranch' = MispredAfter(ip, prediction(ip) # actual)
  /\ Predict(ip, actual)
  /\ taken' = taken + Same("T", actual)
  /\ nottaken' = nottaken + Same("N", actual)
  /\ history' = Put(history, ip, Append(Lookup(history, ip, <<>>), actual))
  /\ UNCHANGED <<loaded, range, output>>

\* Pin executes a branch instruction: the call inserted by Instruction.
ExecuteBranch(ip, actual) ==
  /\ Running
  /\ \E img \in loaded : InImage(ip, img)
  /\ IgnoreBranch(ip) \/ RecordBranch(ip, actual)

\* Fini prints the totals and then writes the results file, if it opens.
Fini(opened) ==
  /\ Running
  /\ console' = [total |-> total, taken |-> taken, nottaken |-> nottaken,
                 mispred |-> tagePred - tageCorrect]
  /\ json' =
       IF opened
         THEN [total |-> total,
               best_accuracy |-> Accuracy(tageCorrect, tagePred),
               winner |-> "TAGE",
               mispred |-> tagePred - tageCorrect,
               predictors |-> [tage |-> Accuracy(tageCorrect, tagePred)]]
         ELSE json
  /\ UNCHANGED <<predictor, loaded, range, counts, traces>>

Next == \/ \E img \in Images : Image(img)
        \/ \E ip \in Branches, actual \in Outcome : ExecuteBranch(ip, actual)
        \/ \E opened \in BOOLEAN : Fini(opened)

Spec == Init /\ [][Next]_vars
-----------------------------------------------------------------------------
\* The statistics have the types of their declarations and the predictor is
\* well typed; a branch has a base counter iff it has a trace.
TypeOK ==
  /\ PredictorTypeOK
  /\ loaded \subseteq Images
  /\ low \in Nat /\ high \in Nat
  /\ total \in Nat /\ taken \in Nat /\ nottaken \in Nat
  /\ tagePred \in Nat /\ tageCorrect \in Nat
  /\ IsMap(history, Branches, Seq(Outcome) \ {<<>>})
  /\ IsMap(mispredPerBranch, Branches, Nat)
  /\ DOMAIN T0 = DOMAIN history
  /\ DOMAIN mispredPerBranch \subseteq DOMAIN history

\* The mispredictions charged to the branches are all that were made.
MissesAttributed ==
  Cardinality(Units(mispredPerBranch)) = tagePred - tageCorrect

Recent == IF total < HIST2 THEN total ELSE HIST2

\* The global history register holds the outcomes of the last branches of the
\* main executable, whichever they were, in the order they happened: its bits
\* are an interleaving of the ends of the recorded traces, and zero before
\* the first.  source[b] is the branch that bit b came from.
RegisterInterleaves ==
  /\ GHR \subseteq 0 .. Recent - 1
  /\ \E source \in [0 .. Recent - 1 -> DOMAIN history] :
       \A b \in 0 .. Recent - 1 :
         LET trace == history[source[b]]
             later == Cardinality({c \in 0 .. b - 1 : source[c] = source[b]})
         IN  /\ later < Len(trace)
             /\ b \in GHR <=> trace[Len(trace) - later] = "T"

\* The last n outcomes of branch ip were all o.
LastOutcomes(ip, n, o) ==
  LET h == history[ip]
  IN  Len(h) >= n /\ \A i \in 0 .. n - 1 : h[Len(h) - i] = o

\* The base predictor follows every branch, also while the tagged tables
\* predict it: two equal outcomes retrain it and three saturate it.
BaseFollowsRuns ==
  \A ip \in DOMAIN history :
    /\ LastOutcomes(ip, 1, "T") => T0[ip] >= 1
    /\ LastOutcomes(ip, 1, "N") => T0[ip] <= 2
    /\ LastOutcomes(ip, 2, "T") => T0[ip] >= 2
    /\ LastOutcomes(ip, 2, "N") => T0[ip] <= 1
    /\ LastOutcomes(ip, 3, "T") => T0[ip] = 3
    /\ LastOutcomes(ip, 3, "N") => T0[ip] = 0

\* MyTage is a branch tool, like MyBranch: it watches the main executable
\* only, and what it prints at exit are the totals of the trace it recorded.
Tool == INSTANCE BranchTool WITH
  MainAddresses <- {ip \in Branches : InImage(ip, MainImage)},
  trace <- history,
  missed <- mispredPerBranch,
  report <- IF Running THEN NoReport ELSE console

ImplementsBranchTool == Tool!Spec
=============================================================================
