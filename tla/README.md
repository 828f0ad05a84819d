# A TLA+ model of the branch predictor project

The repository measures four branch predictors (1-bit, 2-bit, a hybrid of the
two, and a small TAGE) on programs that run under Intel Pin, and shows the
results on a web page. This directory holds a model of it: TLA+ modules
translated from the C++ and JavaScript source, TLC configurations that check
them on small instances, and TLAPS proofs of the properties that matter most.

## 1. The system

| part | state | operations | talks to |
|---|---|---|---|
| `MyBranch.cpp` pintool | tables `BHT`, `BHT2`, `selector`; counters; trace `history`; `mispredBranch`; the watched range `low..high` | `Image`, `Instruction`, `RecordBranch`, `Fini` | called back by Pin; writes `results/<name>.json` and the console |
| `MyTage.cpp` pintool | base table `T0`; tagged tables `T1`, `T2`; `GHR`; `clock_`; counters; trace; `mispredPerBranch`; the range | the same four | writes `results/<name>_tage.json` |
| results directory | one pair of files for each test name | written at program exit, read by the page | |
| `dashboard/` page | the selected test, the charts and cards on display | selector change, two fetches per load, `render` | reads both files of a pair over HTTP |
| workloads (`basic1.cpp`, `bubble2.cpp`, `matrix3.cpp`, `bfs4.cpp`, `logs5.cpp`) | their own data | run once under each tool | produce the branches |
| Pin kit (`project_pin/`, vendored) | | calls the tools | environment |

The two tools never talk to each other: the same program is run twice, and the
page puts the two files side by side. The commands are in a comment of `MyTage.cpp` (lines 18-35):
one pair of tool runs for each of the five tests, from a shell, with the name of the test as `-o`.

**What is hard here.** A predictor is a feedback loop: its error changes the
state that makes the next prediction. That a table is updated right is easy to
see; what the loop does over a long sequence of branches is not. For TAGE,
different branches and histories also meet in the same slots, and two tables
share the decision. Around the predictors: Pin's callbacks come in an order
the tools do not choose (images, branches, exit); the handlers run without a lock
in every thread of the program; the file is written only at a normal exit and
only if it opens; the page loads two files per selection without cancelling
earlier loads.

**What makes each part correct.**

- *1-bit*: wrong exactly when a branch changes direction. *2-bit*: retrained
  by two equal outcomes, saturated by three. Neither ever makes much more than twice the
  mispredictions of the other. *Hybrid*: never much worse than
  the better of the two, however the branch behaves.
- *TAGE*: every misprediction teaches something; useful entries survive;
  entries that are not useful lose their protection; repeating patterns are
  learned; the history register is the order in which branches really ran.
- *Tools*: only branches of the main executable count; what is printed and
  written agrees with the trace; every misprediction is charged to a branch.
- *Comparison*: both files are about the same executions, the base of TAGE is the 2-bit predictor it is compared with, and the
  winner that is named made fewer mispredictions.
- *Results directory*: a file is about the last complete measurement of its test, or it is
  not a valid report.
- *Workloads*: they end, since the tools write nothing before, and they compute what they say, so that their branches are those of a bubble
  sort, a matrix product, a shortest-path search.
- *Page*: what is shown belongs to the selected test, one run of it, and every failure
  is reported (that nothing else is, does not hold: see 4).

## 2. Modules

| module | models | source |
|---|---|---|
| `StdMap` | the operations of `std::map` the tools use; sums over maps | library (external) |
| `BranchTool` | abstract specification: what any of the two pintools promises | none: the promise both implement |
| `MyBranch` | the whole of `MyBranch.cpp` | `MyBranch.cpp` |
| `TageHash` | `get_index`, `get_tag` on machine words | `MyTage.cpp:73-82` |
| `TagePredictor` | the predictor inside `RecordBranch` | `MyTage.cpp:91-165` |
| `TageWorkload` | the predictor under programs that end in a loop | |
| `Basic1` | the branches of `basic1.cpp` as such a program | `basic1.cpp` |
| `Percent` | accuracies as the results files have them | `Fini` of both tools |
| `MyTage` | the tool around the predictor | `MyTage.cpp` |
| `Comparison` | both tools over one program, and what the page makes of their two reports | both tools, `script.js:22-32` |
| `Bubble`, `Matrix`, `Dijkstra` | three workloads, loop by loop | `bubble2.cpp`, `matrix3.cpp`, `logs5.cpp` |
| `Measurement` | a workload runs under both tools | all of these |
| `Dashboard` | the page: selections, loads, `render` | `script.js`, `index.html` |
| `Campaign` | builds, tool runs, the results directory, and the page that reads it | `Dashboard`, `KnobOutputFile`, the file part of `Fini` |
| `MC*` | constants for TLC | |
| `StdMapTheorems` | lemmas about maps and their sums | |
| `MyBranch_proofs` | theorems about `MyBranch` | |
| `TagePredictor_proofs` | theorems about `TagePredictor` | |
| `MyTage_proofs` | theorems about `MyTage` | |
| `TageHash_proofs` | theorems about the hash functions at their real sizes | |
| `Comparison_proofs` | theorems about `Comparison` | |
| `Workloads_proofs` | theorems about `Bubble`, `Matrix`, `Dijkstra` and `Measurement` | |
| `Dashboard_proofs` | theorems about `Dashboard` and `Campaign` | |

**MyBranch.** The variables have the names of the globals. `loaded` is Pin's
state: the images it has announced. `RecordBranch(ip, actual)` is the whole
handler; its early return is `IgnoreBranch`. The outcome of a branch is free:
the program under test is the nondeterminism of the model. The mapping of code to
definitions follows the handler from top to bottom: `OneBitPrediction` (lines
41-45), `TwoBitPrediction` (47-52), `HybridPrediction` (54-59), `SelectorAfter`
(61-65), `TwoBitAfter` (69-71), `MispredBranchAfter` (79). `Fini(opened)` prints,
and writes the file when it opens.

**TagePredictor.** The tagged tables are 512 entries each in the code. The model keeps
the slots that were written; an absent slot is `BlankEntry`, which is what the
C++ initialisers put there, and which hits when the tag looked for happens to be
0 (so does the code). `clock_` is kept modulo `AgePeriod`: the code only tests its
low bits. Constants `HIST1`, `HIST2`, `T1_BITS`, `T2_BITS` and `AgePeriod` are the
`#define`s of the code; the real values are 8, 16, 9, 9 and 1024.
`TageHash` represents a machine word by the set of its 1 bits, so that the exact
hash functions can be evaluated and proved about.

**MyTage** extends `TagePredictor` with the hooks and statistics: its
`RecordBranch` contains the action `Predict`.

**BranchTool** knows nothing about prediction: a tool observes branches of the main
executable, charges some of the executions, and prints totals of what it
observed. `MyBranch` and `MyTage` are refinements of it (`Tool == INSTANCE
BranchTool WITH ...`); totals that the code counts one by one become
cardinalities of the recorded trace.

**Dashboard.** `Select` is the change listener, `Answer` the resolution or rejection
of one of the two fetches of a load. The answer that completes `Promise.all` runs
`render` in the same turn of the event loop, so `Render` is part of it. `Steps` lists
what `render` updates, in its order; `Throws` says which steps raise an exception: a
chart whose canvas is not in the page or whose library did not come, and the aliasing
chart, which reads a member that no tool writes. Everything before the first exception is
done, the rest is not, and `loadData`'s handler logs the error. Each element of the page
holds the number of the load that it was last updated by; the numbers shown and
their colours are left out, and the contents of the files are taken to have the members the
tools write.

**Comparison** extends `MyBranch` with an instance of `MyTage`. The two tools run one after
the other; since the workloads have no input, the runs execute the same branches and are paired
step by step. `Cards`, `Winner` and `Bars` are what `render` computes from the two reports.
`Percent` has the accuracies in the form in which both tools write them: six significant digits.

**Bubble, Matrix, Dijkstra.** One action is the test of one loop and, when it holds, one round
of its body up to the next test. `min_index` of `minDistance`, which is not initialized, starts
as `NoVertex`; that the search always replaces it is part of the proof.

**Measurement** composes `Comparison` with the three workloads. A step of a workload evaluates
conditions of the source (`BubbleTests`, ..., with the short circuits of `&&`), and `Code` says which
branch instructions the processor executes for them. `Code` stands for the compiler. Its values in
`MCMeasurement` are read off the committed executables, start-up code included, by offset in
the image: the slots of the tagged tables only use the offset of a branch within a page, so that the
load address, which differs from run to run, matters at most where a tag happens to be 0.

**Campaign** extends `Dashboard` with a shell and the results directory. `Fini` is split
where the file changes: opening truncates it, closing completes it, and a kill may come before, between
or after. What a file holds is reduced to the program it is about, a test and its build. `fate` is
what a user who watches the shell knows of the last measurement of a test: made, cut short, or none since
the program was rebuilt. It is a history variable and restrains no step.

A definition whose name ends in `Mut` (or a variant such as
`TwoBitAfterUncapped`) is the definition below it with a plausible bug. No action
uses it; `PROJECT.json` pairs it with the property that notices the bug.

## 3. What TLC checks

| run | question | bounds |
|---|---|---|
| `branch_program` | do the 1-bit and 2-bit predictors and the statistics do what they say, over two branches of the executable and two outside? Is the hybrid competitive with both its parts, and are they with each other? Does MyBranch implement `BranchTool` for every loading order? | 10 recorded branches |
| `tage_steps` | action properties of the predictor in all reachable states; is protection lost, and how does a steady branch end? | two branches, histories of 0 and 1 bits, one-slot tables, aging every 2 branches |
| `tage_patterns` | are all short repeating patterns, and basic1, learned? | real tables and histories, patterns to length 5 and loops to length 8, aging every 64 |
| `tage_steady` | are steady branches always learned? (violated, see below) | real tables and histories, one program, aging every 256 |
| `tage_program` | statistics and history register of MyTage; does it implement `BranchTool`? | 6 recorded branches, histories of 2 and 3 bits, tables of 4 slots, aging every 4 |
| `compare` | do the two files account for the same executions? Is the base of TAGE the 2-bit predictor? Is the winner that is named the better tool? | 7 recorded branches, two addresses in the executable and one outside, tables as in `tage_program` |
| `compare_card` | does the card of all mispredictions show all? (violated, see below) | 4 recorded branches |
| `measured` | do three workloads compute what they say, in the number of steps counted for them, and are the committed results theirs? | none: real programs, real sizes |
| `campaign` | does a user who waits see the selected test, and its last measurement? | 2 tests, 3 loads, 3 tool runs, each program rebuilt once |
| `page_any` | is what can be seen of one load, if Chart.js is there? With and without it, is every failed load reported once and without a trace on the page? | 3 tests, 3 loads |
| `page_stale` | does everything that can be seen belong to the selected test? (violated, see below) | 3 tests, 3 loads |
| `page_error` | is an error reported only for a load that failed? (violated, see below) | 3 tests, 3 loads |

Why the bounds are enough. `MaxBranches` bounds only the traces. One branch of
`MyBranch` has 22 states (last outcome, 2-bit counter, selector), all reached within
9 outcomes, and the tenth takes the transitions between them.
The theorems then remove the bound.
Two branches at the first and last address of the main image, and one on either side of
it in a library, cover every case of the address filter. `tage_steps` has no
bound at all: the predictor is finite, and with one slot per table every pair of
branch and history collides, which with 512 slots would take thousands of
branches. `tage_patterns` and `tage_steady` have the real sizes and start from the real
initial state; the predictor is deterministic, so one program is one behaviour. The
aging period of `tage_patterns` is 64 instead of 1024 to keep the number of
states down: it ages more often, which is harder for learning, not easier. That of `tage_steady` is
256 to keep the counterexample short; it is the same at 1024.

`measured` has no bound: each program ends by itself (`ProgramsEnd` counts its steps down to zero), after 2659, 9732 and 479 branches, and the run
checks deadlock, so that none of them stops before its end. All totals,
all four accuracies and the mispredictions of each branch of the committed `test2`, `test3` and `test5` come
out of the model to the last digit, which is also the strongest evidence that the predictors are
modelled as they were built. `test1` (`basic1`, half a million branches) is too long to be
counted out; its loop is in `tage_patterns` instead.

In `campaign`, three tool runs are what it takes to measure a test with both tools and then spoil
one of the two files, or to leave one of two measurements of a rebuilt program out; three loads let one fail
between two that do not.

`WinnerIsBetter` is stated for programs of up to a million branches. Up to there one misprediction is
at least one unit of the sixth digit; beyond it two tools that differ may be rounded to the same accuracy, and the page then
names the hybrid. It is checked on the exact rounding of `Percent` with short programs.

Three loads of the page, each with two fetches, give every order in which two loads overlap while a
third has been answered before, begins after or fails. `campaign` checks `ThisTestcase`, of the cards, and `page_stale`
`AllOfThisTestcase`, the same of all that can be seen, with Chart.js at hand so that every chart that has a canvas is drawn. With Chart.js
the two say the same, because `OneLoadVisible` holds, and the runs differ for them in whether selections wait: the violation in
`page_stale` is due to the overlap alone.

The addresses are below 2^30 because TLC's integers have 32 bits; no definition
depends on that, the hash functions only read the low 16 bits of an address.

**Fairness.** `TagePredictor` and `TageWorkload` assume weak fairness of their only
action: the program under test keeps executing branches. Without it "eventually"
says nothing about a predictor, and nothing weaker is assumed about *which* branches run.
`MyBranch` and `MyTage` need none: their properties are safety properties, and the
program may exit at any time (`CHECK_DEADLOCK FALSE`, nothing happens after `Fini`).
`Dashboard` needs none either: a fetch may never be answered, and the user may never select again
(`CHECK_DEADLOCK FALSE`). The same holds for `Comparison` and `Campaign`. In `Measurement` the end
of the program is the step `Rest`.

**What is assumed of the environment of the page** in `campaign`: the user gives one command after the other and leaves the page alone while a
command runs or a load is under way, and server and browser deliver the files as they are on disk (no cache).
The failures are those of the real parts: a kill at any moment, a results file that does not open, a
forgotten `-o`, a fetch that fails.

## 4. Findings

### A branch that is never learned

`tage_steady` runs two branches with the real tables and histories: a loop of 31
iterations, then a test; the test goes T, N, N and from then on always T. The history
seen by the test is the same on every round, and yet it is mispredicted for ever:

- T2 has an entry for this history and it says T, but `u` is 0, so the
  alternative decides (`MyTage.cpp:115`), which is T1's entry, and T1 says N;
- the misprediction trains T2 (already right) and decrements its `u` (already
  0); T1 is not the provider and is never trained; nothing is allocated because T2 hits.

Nothing in the state of T1 and T2 changes any more. `SteadyDecided` says that this
shadowing is the only way in which a steady branch is not learned: such a branch comes to be predicted right for
ever, or wrong for ever, in a shadow, while the 2-bit base counter is right. `MissTeaches` says that it is the only way in which a misprediction leaves no trace, and `ShadowStays` that mispredictions
do not end it; `NeverLearned` proves that a steady program never leaves it.
README.md:35-36 of the repository describe "provider-based
prediction selection" and usefulness counters; here the provider is right each time and is
neither selected nor found useful.

### A page that shows another test

`page_stale`: `loadData` has no notion of the latest selection, so `render` runs for every load that
is read, in the order of the answers (`script.js:11-15`). Select a second test before both files of the first have
arrived and let the last file of the first arrive after those of the second: in the end nothing is pending, no fetch has
failed, and all that can be seen is the first test, under the name of the second. The console tells nothing about it: it has one message
for each of the two loads, as it has for every load (see the next finding). `index.html:26` calls the
numbers those of "this testcase". `campaign` shows that overlapping loads are the only cause.

### An error for every load

`page_error`: `render` draws the history chart on a canvas that `index.html:74-85` has
commented out. `getElementById` returns null, the exception leaves `render` and lands in the handler of
`loadData`, which logs "Data load failed. Check filenames and CORS." (`script.js:17`) for a load that
went well. Nothing visible is lost, because the charts without a canvas come last: `OneLoadVisible`
depends on that order, and its mutant swaps it. Nor would more canvases help: the last chart reads a member that no tool
writes. `EveryLoadReported` proves that every load that has been answered is reported exactly once, read or not, so that
the message tells nothing about the load.

### A total that is not one

`compare_card`: the card "Total mispredictions", "across all predictors" (`index.html:34-36`) is filled with
`h.summary.mispred` (`script.js:27`), and `MyBranch.cpp:146` writes the mispredictions of the hybrid
there. Those of the 1-bit and 2-bit predictors are in no file, those of MyTage are in the other one and not read.

## 5. What is proved

All theorems hold for every value of the constants, under the named assumptions of the
modules: `ImagesAssumption` (images do not overlap, Pin was started on exactly one of
them, page 0 is not mapped), `MaxBranchesAssumption`, `PredictorAssumption` (history
lengths of at most 16 bits, `HIST1 <= HIST2`, a positive aging period), `BubbleAssumption` (a
positive length), `ProgramsAssumption` (the measured programs are those with a module), `MatrixAssumption` (a size, which may be 0), `DijkstraAssumption` (weights that are not negative and
at most `INT_MAX` divided by the number of vertices), `CampaignAssumption` (the default of `-o` is the name of a test).

**`StdMapTheorems`** has the lemmas about maps. A sum over a map of counts is stated as the
cardinality of a set of pairs `<<key, unit>>` (`Units`), and the elements of a map of
sequences as a set of cells (`Cells`), because a sum defined by recursion over the keys would need
an induction for each of its lemmas. `UnitsPut`, `UnitsNext` and `CellsCount` say what one insertion
adds to them.

**`MyBranch_proofs`**

- `TypeCorrect` is inductive as it stands.
- `TwoBitRuns`: the implications about the last one, two and three outcomes are
  inductive only together. `TablesAgree`: `BHT` holds the last outcome of the trace and the
  2-bit counter leans towards it.
- `OneBitMisses` counts the changes of direction as cells of the trace, and needs
  `TablesAgree` to identify the prediction with the outcome before.
- `MissesAddUp`: each misprediction adds one unit to the map.
- `HybridTwoBit` and `HybridOneBit` cannot be proved by counting alone,
  because the hybrid may be wrong where one of its parts is right. The invariant `Competitive` adds
  a *reserve* for every branch: what its present state must already have
  cost the predictor it is compared with. Each step pays for a misprediction of the
  hybrid out of the reserve or out of a misprediction of the other.
  `TablesFollowTrace` excludes the states in which the reserve would be too small. The ratio
  4/3 cannot be improved: there are repeating sequences that attain it.
- `TwoBitOneBit` and `OneBitTwoBit` compare the two parts with each other, again with something in hand
  (`GripPayments`): a branch whose counter has only just come round to its last outcome (`LooseGrip`) has one misprediction to spend, and
  the same reserve does for both directions. The start costs the 2-bit predictor one for each branch and the 1-bit
  predictor nothing, because of the values they take for a branch without an entry.
- `IsBranchTool`: refinement of `BranchTool`. It needs `Totals` (the counters are the
  numbers of cells of the trace) and `RangeFollows` (the watched range is that of the
  main image once it has loaded, and empty of branches before).

**`TagePredictor_proofs`**: `PredictorTypeCorrect` (inductive as it stands: the signed
counters stay in the -2..3 that the comment in the code announces, in an `INT8`),
`MissesTeach` and `UsefulEntriesStay`. Both action properties follow from types and from
`TablesAfter`, which says that a step touches one slot of each table and that
aging changes only `u`; the case analysis of `MissStep` goes over who provided and who
predicted, and finds the shadowed entry as the one case left over. What happens to that entry is the subject
of two more: `ShadowedForGood` (`ShadowStep`: T2's counter moves further in the direction in which it is not
asked, its `u` stays 0, T1's entry is not touched), and `NeverLearned`, which repeats that step for ever. Its invariant
`Stuck` adds that the history is full of the branch's outcome, so that the branch finds the same slots and tags
again, and the theorem shows that neither the sizes of the tables nor the aging period matter. (In the counterexample of `tage_steady` the
same comes about in another way: there a loop before each execution of the test puts the history back to what it was.) `NeverLearned` needs no fairness: it says what never happens. `ProtectionFades` is the
safety half of `UnusedDecays`: each single step lowers what is not earned.

Two liveness properties of `TagePredictor` are proved, for every behaviour that keeps executing branches
(`Executing`: infinitely many steps that change the state). The provers know neither `ENABLED` nor induction under a temporal operator,
so the two arguments count their steps out.

- `SteadyIsDecided`: a branch that is the only one from some point on and always goes the same way. `Lag` is how far the counters
  it uses are from where they saturate, `Filled` how many of the youngest bits of the history are its outcome. Each execution fills one bit; once
  the register is full the branch finds the same slots and tags for ever and each execution trains the same counters (`Come`). After at most 22 executions,
  16 bits and 6 more, it is `Settled` (`SteadySettles`): the base counter and the counter of the provider are saturated in its direction. In a settled state
  a right prediction makes the entry more useful or leaves it so, and stays right; a wrong one can only come from T1's stale entry in
  the shadow, where nothing moves (`SettledForGood`). Which of the two it is depends on what came before; both occur in `tage_steps`.
- `UnusedEntriesDecay`: `clock_` is taken as a binary counter (`Digit`, `Carries`): each digit turns infinitely often because the lower one does
  (`DigitTurns`, ten times), so that it is 0 again and again and the tables age; two agings bring a usefulness of at most 3 to 0, and
  `ProtectionFades` keeps it from rising in between. Ten digits are enough for periods of up to 1024, which is the one of the code; this is an assumption
  of the theorem.

That `PredictorSpec` is such a behaviour is not proved: by the definition of weak fairness it is one if a step that changes the state is always
enabled, and `clock_` changes in every step unless `AgePeriod` is 1, but `ENABLED` is left to TLC, which evaluates it in `tage_steps`.

**`MyTage_proofs`**: `TypeCorrect`, `MissesAddUp`, `BaseRuns`, `IsBranchTool` along the
same lines as for `MyBranch`, and `HistoryRegister`: the register is an interleaving of the
traces. The witness is a function from bits to branches; recording a branch pushes it
(`Pushed`), and `NearerPushed` counts how many later executions of the same branch
a bit has passed.

**`TageHash_proofs`** is about the real sizes. `T1KeepsHistoriesApart`: for one branch the tag of
T1 determines the 8 bits of history. `T2KeepsHistoriesApart`: slot and tag of T2
together determine the 16 bits; the tag alone does not: `T2TagLoses` shows that two histories share it exactly
when they are equal or differ by `0x9249`, in which `h >> 2` and `h << 1` cancel out. So a branch is never served an entry that it trained under another history;
aliasing is always with another branch or with a slot never written.

**`Comparison_proofs`**: `BaseTwoBit`. The invariant `Paired` adds to the equality of the two tables
that the counters are in 0..3 (where the two ways to saturate agree) and that both tools watch the
same range, so that they record the same branches. With it every pair of runs is a run of each tool by
itself (`RunsMyBranch`, `RunsMyTage`), so that all theorems about the tools hold where they are compared.

`SameProgram` is what the comparison rests on: the two traces are equal, and the total on the page is the number of executions
behind the accuracies of both files. Its invariant `OneRecord` needs `Paired` (both tools record a branch or neither does) and `Scored` (the files
are written once, at the end); the length of the trace comes from `Totals` of `MyBranch_proofs`, by way of `RunsMyBranch`.

`WinnerRight` is about rounded numbers. `AccuracyRounds` says what the digits of `Percent` come to: the result is the
nearest integer to `1000000 * c / p`, up to the tie. Two tallies that differ by one are `1000000 / p` apart, at least
1 up to the limit, and the result is strictly monotone there (`AccuracyStrict`), ties included. The invariant `Scored`
connects this with the files: both tools have counted the same branches, a hit at most for each, and a file that has been
written holds the accuracy of the final counters. `LimitIsExact` shows that the limit is not a convenience of the proof.

**`Workloads_proofs`.** `BubbleSort` and `OneWayTest` share the invariant `Contents`, which gives the element at every
place at every moment: the element that pass `i` carries is `n - i`, those behind it are in place, those before
it have moved down by one. `ShortestPathsFound` is Dijkstra's argument: marked vertices are nearer
than the others (`Tree`), the search finds the nearest of those left (`Nearest`), and the last vertex marked is the
farthest of the marked ones (`Farthest`), so that no marked distance changes any more. `RoundsMark` counts the
marked vertices: before each search one is left, so that `min_index` is set (`SearchFinds`), and at the end
at most one is not marked, which is why the loop may stop one round early (`OneLeft`).

`NoOverflow` justifies the unbounded integers of `Dijkstra`: after `count` rounds a distance within reach is at most
`count` times the heaviest weight (`Bounded`), so the sum that is tested (`logs5.cpp:77`) stays below `INT_MAX`. A
reachable vertex is never taken for one that is not.

`MatrixProduct` compares `C` with a sum defined by recursion. The induction theorems of the library cannot be used, but the
least-number principle can: it is stated about sets (`FirstNumber`, from `WFMin`). It gives the existence of the recursive
function (`SumsExist`: the first number up to which there is none cannot be), and with it the equation of the sum (`SumsUnfold`).
The invariant `MatrixInv` then says for every element of `C` how far its sum has come: complete, up to `k`, or still 0.

`WorkloadsEnd`: the number of steps that are left is given in closed form for every state of the three programs (`BubbleLeft`,
`MatrixLeft`, `DijkstraLeft`), by counting the loops from the inside out, and every step of a program lowers it by exactly one (`BubbleCounts`, `MatrixCounts`,
`DijkstraCounts`). Since it is a natural number, and 0 only at the end, no execution is longer than the number at the start: termination for every size, as a property of
single steps and without a temporal induction. That a next step is always possible until the end is left to TLC's deadlock check.

`MeasurementRuns` takes the measurement apart: it is a run of both tools, and of each workload, that the tools and the other
workloads only interleave with. `MeasurementRight` collects what follows for the measurement: three programs that are right and a comparison
that is fair. Both hold for every `Code`, that is for every compiler; only `AsMeasured` depends on the one that was used.

**`Dashboard_proofs`.** `FailuresReported` needs the invariant `LoadsInv`: a load that is waiting and has
not failed is not reported, a failed one is reported once, one that was read too, and only a load with both files read is on the
page. Without the first part the second is not inductive (the first failure must find no report),
without the last a failed load could already be on display. `EveryLoadReported` follows from the same invariant and from
`RenderReports`: `render` never comes to its end. `OneLoad` assumes the two canvases
of `index.html`; the property is inductive by itself, because `render` completes the same four
steps whenever Chart.js is there. `TypeCorrect` needs no assumption on the canvases.
`PatientSeesTestcase` and `MeasurementDisplayed` are about `Campaign`, with `CampaignAssumption` (the default of `-o`
is the name of a test). Their invariant `CampaignInv` says that the files agree with what the user knows
(`FilesFollow`), that a tool in progress is about to write what is meant (`RunOnCourse`), and that only the load of the
selected test waits, with no tool running (`OnePending`); from these, what a waiting load has read so far
is still on disk (`ReadFromDisk`), so that both halves of a displayed pair are current when the second arrives.
`CampaignUsesPage`: every step of the campaign is a step of the page or leaves it alone, so that the theorems about the page hold
in the campaign too.

## 6. What is only model-checked, and what is not modelled

Only model-checked:

- `LearnsLoop`: the learning of a pattern is a computation over thousands of branches, not an invariant.
- Of the fairness of `PredictorSpec`, that a step that changes the state is always enabled: `ENABLED` is out of the provers'
  reach. `UnusedDecays` and `SteadyDecided` are proved from what fairness then gives, and checked under `PredictorSpec` itself.
- `AsMeasured` is the result of one computation per program, with the code of one compiler.

`Competitive` is proved as `HybridPays`, the invariant behind `HybridTwoBit` and `HybridOneBit`.

Not modelled:

- Concurrent calls of `RecordBranch`. It takes no lock, and in a program with threads two insertions into a
  `std::map` race, which C++ leaves undefined: nothing can be stated about what follows. The five workloads have
  one thread. A crash of the tool is covered by `Kill` in `Campaign`.
- `bfs4.cpp`: most of its branches are inside `std::vector` and `std::queue`, instantiated in the executable. `test1.cpp` and
  `test2.cpp`: demonstrations without a results file, which the page does not offer.
- Branch targets, the layout of the console output, colours and wording of the page, a cache between server and page.
- Memory exhaustion by the growing trace and 32-bit overflow of `mispredBranch` (2^31 mispredictions of one branch).
- The vendored Pin kit, which is nearly all of the repository by size: the tools use a dozen of its functions, and
  appear here as the callbacks it makes.

## 7. Plan

Done, in this order, the most important behaviour first: `MyBranch` and its proofs, `BranchTool`,
`TageHash`, `TagePredictor`, `TageWorkload`, `MyTage` and their proofs; `Dashboard` and its proofs; then
`Comparison`, the workloads with their proofs, `Measurement`, and `Campaign`; the proofs of every invariant of theirs but
`AsMeasured`; last the two liveness properties of `TagePredictor`, the comparison of the two parts of the hybrid, and the termination of the workloads.

| next | what | why |
|---|---|---|
| 1 | `bfs4.cpp` in `Measurement`, from the branches of its executable | the one test of the page with a results file of moderate size that is not recomputed |
