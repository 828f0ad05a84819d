----------------------------- MODULE BranchTool -----------------------------
(***************************************************************************)
(* What a branch prediction pintool promises, whatever it predicts with.   *)
(*                                                                         *)
(* The tool watches the branches of the program under test.  It remembers  *)
(* the outcomes of every branch of the main executable in the order they   *)
(* happened, charges each misprediction to the branch it was made for, and *)
(* when the program exits prints totals that agree with what it remembers. *)
(* MyBranch and MyTage are both shown to implement this specification.     *)
(***************************************************************************)
EXTENDS FiniteSets, StdMap

CONSTANT MainAddresses   \* the addresses of the main executable

VARIABLES
  trace,    \* branch address -> sequence of its outcomes
  missed,   \* branch address -> number of mispredictions charged to it
  report    \* what was printed at exit, NoReport while the program runs

vars == <<trace, missed, report>>

Outcome == {"T", "N"}

NoReport == [total |-> -1]

\* <<ip, i>> is the i-th execution of branch ip.
Executions == Units(Lengths(trace))

\* The executions that had the given outcome.
With(outcome) == {e \in Executions : trace[e[1]][e[2]] = outcome}

Mispredictions == Units(missed)

Init == /\ trace = EmptyMap
        /\ missed = EmptyMap
        /\ report = NoReport

\* A branch of the main executable runs, predicted rightly or wrongly.
Observe(ip, outcome) ==
  /\ report = NoReport
  /\ trace' = Put(trace, ip, Append(Lookup(trace, ip, <<>>), outcome))
  /\ \/ missed' = missed
     \/ missed' = Put(missed, ip, Lookup(missed, ip, 0) + 1)
  /\ UNCHANGED report

\* The program exits and the tool prints its totals.
Exit ==
  /\ report = NoReport
  /\ report' = [total    |-> Cardinality(Executions),
                taken    |-> Cardinality(With("T")),
                nottaken |-> Cardinality(With("N")),
                mispred  |-> Cardinality(Mispredictions)]
  /\ UNCHANGED <<trace, missed>>

Next == \/ \E ip \in MainAddresses, outcome \in Outcome : Observe(ip, outcome)
        \/ Exit

Spec == Init /\ [][Next]_vars
=============================================================================
