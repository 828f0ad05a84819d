------------------------------ MODULE Dashboard ------------------------------
(***************************************************************************)
(* The page of dashboard/index.html and its program, script.js.  Each      *)
(* selection starts a load, which fetches the two results files of a test; *)
(* when both have been read, render brings the page up to date, step by    *)
(* step, and an exception in a step leaves the rest of the page as it was. *)
(*                                                                         *)
(* Left out: the numbers that are displayed.  Every element of the page    *)
(* remembers the load that it was last updated by.                         *)
(***************************************************************************)
EXTENDS Integers, Sequences

CONSTANTS
  Tests,      \* the options of the selector
  FirstTest,  \* the option that is selected when the page opens
  Canvases,   \* the ids of the canvas elements of index.html
  MaxLoads    \* bound on the number of loads

ASSUME DashboardAssumption ==
  /\ FirstTest \in Tests
  /\ MaxLoads \in Nat \ {0}

VARIABLES
  chartLibrary,  \* Chart.js has come from its server
  selected,      \* what the selector shows
  loads,         \* all calls of loadData: the test, and how its fetches stand
  page,          \* element -> the load that last updated it, 0 at the start
  console        \* the loads that an error was reported for, in order

vars == <<chartLibrary, selected, loads, page, console>>

Charts == {"barChart", "missChart", "ghrChart", "aliasChart"}

Elements == {"cards", "list"} \cup Charts

File == {"h", "t"}   \* the results of MyBranch and of MyTage

Load == [base : Tests, status : [File -> {"pending", "read", "failed"}]]

NewLoad(base) == [base |-> base, status |-> [f \in File |-> "pending"]]
-----------------------------------------------------------------------------
\* Mutant: the history chart is drawn before the list of branches.
StepsMut == <<"cards", "barChart", "ghrChart", "list", "missChart", "aliasChart">>

\* What render updates, in this order.
Steps == <<"cards", "barChart", "list", "missChart", "ghrChart", "aliasChart">>

\* A chart needs the library and its canvas; the chart of the aliasing rates
\* also reads a member that no tool writes to the results files.
Throws(element) ==
  \/ element \in Charts /\ (~chartLibrary \/ element \notin Canvases)
  \/ element = "aliasChart"

\* The steps that render completes: those before the first that throws.
Completed == {k \in DOMAIN Steps : \A j \in 1 .. k : ~Throws(Steps[j])}

Render(i) ==
  /\ page' = [e \in Elements |->
                IF \E k \in Completed : Steps[k] = e THEN i ELSE page[e]]
  /\ console' = IF Completed = DOMAIN Steps THEN console ELSE Append(console, i)

Has(load, outcome) == \E f \in File : load.status[f] = outcome

\* Mutant: each fetch that fails is reported.
RejectMut(before, i) ==
  /\ console' = Append(console, i)
  /\ UNCHANGED page

\* A fetch of load i fails: Promise.all rejects with the first failure, which
\* is reported, and ignores a second one.
Reject(before, i) ==
  /\ console' = IF Has(before, "failed") THEN console ELSE Append(console, i)
  /\ UNCHANGED page
-----------------------------------------------------------------------------
\* Mutant: the page waits for the first selection.
InitMut ==
  /\ chartLibrary \in BOOLEAN
  /\ selected = FirstTest
  /\ loads = <<>>
  /\ page = [e \in Elements |-> 0]
  /\ console = <<>>

\* The script runs at the end of the page, after Chart.js has come or has not.
Init ==
  /\ chartLibrary \in BOOLEAN
  /\ selected = FirstTest
  /\ loads = <<NewLoad(FirstTest)>>
  /\ page = [e \in Elements |-> 0]
  /\ console = <<>>

\* Mutant: the handler runs before the selector has changed.
StartedMut(test) == NewLoad(selected)

\* loadData(e.target.value)
Started(test) == NewLoad(test)

\* The user selects another test.
Select(test) ==
  /\ test # selected
  /\ Len(loads) < MaxLoads
  /\ selected' = test
  /\ loads' = Append(loads, Started(test))
  /\ UNCHANGED <<chartLibrary, page, console>>

\* A file has arrived and is valid JSON, or it has not or is not.
Answer(i, f, outcome) ==
  /\ loads[i].status[f] = "pending"
  /\ loads' = [loads EXCEPT ![i].status[f] = outcome]
  /\ CASE outcome = "failed" -> Reject(loads[i], i)
       [] outcome = "read" /\ ~Has(loads'[i], "pending") /\ ~Has(loads'[i], "failed") -> Render(i)
       [] OTHER -> UNCHANGED <<page, console>>
  /\ UNCHANGED <<chartLibrary, selected>>

AnswerSome ==
  \E i \in DOMAIN loads, f \in File, outcome \in {"read", "failed"} : Answer(i, f, outcome)

Next == (\E test \in Tests : Select(test)) \/ AnswerSome

Spec == Init /\ [][Next]_vars

\* No fetch is pending.
Quiet == \A i \in DOMAIN loads : ~Has(loads[i], "pending")
-----------------------------------------------------------------------------
\* Every element shows a load that has been started, or nothing, and the
\* console names loads; the first load is started with the page.
TypeOK ==
  /\ chartLibrary \in BOOLEAN
  /\ selected \in Tests
  /\ loads \in Seq(Load) /\ Len(loads) \in 1 .. MaxLoads
  /\ page \in [Elements -> 0 .. Len(loads)]
  /\ console \in Seq(DOMAIN loads)

\* The load of the selected test.
Current == Len(loads)

\* What can be seen of the page.
Visible == {"cards", "list"} \cup (Charts \cap Canvases)

\* Although render gives up halfway on every load, what is visible is of one
\* load: the cards, the comparison, the list and the chart of mispredictions
\* (script.js:22-58), however loads overlap and whichever fail.  Without Chart.js
\* the first chart already throws, and only the cards follow the loads.
OneLoadVisible ==
  chartLibrary => \A e, f \in Visible : page[e] = page[f]

Reports(i) == {k \in DOMAIN console : console[k] = i}

\* A load of which a fetch failed is reported, once, and leaves no trace on
\* the page, not even in part.
FailedLoadsReported ==
  \A i \in DOMAIN loads :
    Has(loads[i], "failed") =>
      /\ \E k \in Reports(i) : Reports(i) = {k}
      /\ \A e \in Elements : page[e] # i

\* Once all fetches have been answered, and those of the last load well, the
\* page shows the selected test (index.html:26, "this testcase").
ThisTestcase ==
  Quiet /\ ~Has(loads[Current], "failed")
    => page["cards"] > 0 /\ loads[page["cards"]].base = selected

\* The same of everything that can be seen, if Chart.js is there: the total, the
\* comparison, the list and the chart of mispredictions.
AllOfThisTestcase ==
  chartLibrary /\ Quiet /\ ~Has(loads[Current], "failed") =>
    \A e \in Visible : page[e] > 0 /\ loads[page[e]].base = selected

\* An error is reported only for a load that failed (script.js:17, "Data load
\* failed. Check filenames and CORS.").
ErrorsAreFailures ==
  \A k \in DOMAIN console :
    chartLibrary => Has(loads[console[k]], "failed")
=============================================================================
