----------------------------- MODULE Measurement -----------------------------
(***************************************************************************)
(* The experiments of the project: a workload runs under both pintools,    *)
(* and the two results files are what dashboard/results/ holds.            *)
(*                                                                         *)
(* A step of the program evaluates some of its conditions.  The branches   *)
(* of the executable that this makes the processor execute come from the   *)
(* compiler, Code; they are recorded, one by one, before the next step.    *)
(***************************************************************************)
EXTENDS Comparison, Bubble, Matrix, Dijkstra, SequencesExt

CONSTANTS
  Programs,   \* the names of the programs that are measured
  Code,       \* program -> condition -> value -> the branches that it makes,
              \* a sequence of <<address, outcome>>
  Measured    \* program -> the two files that were committed for it

\* The programs that have a module of their own.
ASSUME ProgramsAssumption == Programs \subseteq {"bubble2", "matrix3", "logs5"}

VARIABLES
  program,    \* the program that runs
  pending     \* the branches of its last step that are not executed yet

algorithms == <<bubble, matrix, dijkstra>>

all == <<bothVars, algorithms, program, pending>>

MeasureInit ==
  /\ BothInit
  /\ BubbleInit /\ MatrixInit /\ DijkstraInit
  /\ program \in Programs
  /\ pending = <<>>

\* The branches for a sequence of <<condition, value>>.
Compiled(tests) ==
  FlattenSeq([m \in DOMAIN tests |-> Code[program][tests[m][1]][tests[m][2]]])

\* The conditions of a && that are evaluated: up to the first that is false.
Evaluated(conditions) ==
  LET first == SelectInSeq(conditions, LAMBDA c : ~c[2])
  IN  IF first = 0 THEN conditions ELSE SubSeq(conditions, 1, first)

\* The test of a loop, and behind it the conditions in its body if it holds.
Loop(name, holds, body) ==
  << <<name, holds>> >> \o (IF holds THEN body ELSE <<>>)
-----------------------------------------------------------------------------
\* The conditions that the next step of a program evaluates.
BubbleTests ==
  CASE atB = "fill"  -> Loop("fill", i < n, <<>>)
    [] atB = "outer" -> Loop("outer", i < n - 1, <<>>)
    [] atB = "inner" -> Loop("inner", Inner, << <<"if", OutOfOrder>> >>)

MatrixTests ==
  Loop(atM, CASE atM \in {"initRow", "row"} -> row < N
              [] atM \in {"initCol", "col"} -> col < N
              [] atM = "inner"              -> k < N, <<>>)

CandidateTests ==
  Evaluated(<< <<"candidate", ~sptSet[v]>>, <<"closer", Candidate>> >>)

ShorterTests ==
  Evaluated(<< <<"unmarked", ~sptSet[v]>>, <<"edge", graph[u][v] # 0>>,
               <<"reached", dist[u] # INT_MAX>>,
               <<"shorter", Shorter>> >>)

DijkstraTests ==
  CASE atD \in {"init", "print"} -> Loop(atD, v < V, <<>>)
    [] atD = "count" -> Loop(atD, count < V - 1, <<>>)
    [] atD = "find"  -> Loop(atD, v < V, IF v < V THEN CandidateTests ELSE <<>>)
    [] atD = "relax" -> Loop(atD, v < V, IF v < V THEN ShorterTests ELSE <<>>)
-----------------------------------------------------------------------------
\* pin starts the program: the start-up code, up to the first loop of main.
Launch ==
  /\ loaded = {}
  /\ BothImage(MainImage)
  /\ pending' = Compiled(<< <<"start", TRUE>> >>)
  /\ UNCHANGED <<algorithms, program>>

Ready == loaded # {} /\ Running /\ pending = <<>>

\* main and what it calls; the start-up code's way out is behind the last test.
Compute ==
  /\ Ready
  /\ \/ /\ program = "bubble2"
        /\ BubbleNext
        /\ pending' = Compiled(BubbleTests)
        /\ UNCHANGED <<matrix, dijkstra>>
     \/ /\ program = "matrix3"
        /\ MatrixNext
        /\ pending' = Compiled(MatrixTests)
        /\ UNCHANGED <<bubble, dijkstra>>
     \/ /\ program = "logs5"
        /\ DijkstraNext
        /\ pending' = Compiled(DijkstraTests)
        /\ UNCHANGED <<bubble, matrix>>
  /\ UNCHANGED <<bothVars, program>>

Branch ==
  /\ pending # <<>>
  /\ \E ip \in Addresses, actual \in Outcome :
       Head(pending) = <<ip, actual>> /\ BothExecute(ip, actual)
  /\ pending' = Tail(pending)
  /\ UNCHANGED <<algorithms, program>>

Ended == CASE program = "bubble2" -> atB = "done"
           [] program = "matrix3" -> atM = "done"
           [] program = "logs5"   -> atD = "done"

\* Both files opened when the committed results were written.
Exit ==
  /\ Ready /\ Ended
  /\ BothFini(TRUE, TRUE)
  /\ UNCHANGED <<algorithms, program, pending>>

\* Both tools have ended.
Rest == ~Running /\ UNCHANGED all

MeasureNext == Launch \/ Compute \/ Branch \/ Exit \/ Rest

MeasureSpec == MeasureInit /\ [][MeasureNext]_all
-----------------------------------------------------------------------------
\* The two files are those that were committed with the project: all totals,
\* accuracies, and the mispredictions of each branch (dashboard/results).  The
\* programs never execute more branches than were measured.
AsMeasured ==
  /\ total <= Measured[program].hybrid.total
  /\ Written => json = Measured[program].hybrid /\ jsonT = Measured[program].tage

StepsLeft == CASE program = "bubble2" -> BubbleLeft
               [] program = "matrix3" -> MatrixLeft
               [] program = "logs5"   -> DijkstraLeft

\* The tools write their files when the program exits (MyBranch.cpp:103), and
\* it does: every step takes it one step closer to its end, which is the only
\* place where no step is left.
ProgramsEnd ==
  [][/\ UNCHANGED algorithms \/ StepsLeft' = StepsLeft - 1
     /\ StepsLeft' >= 0 /\ (Ended' <=> StepsLeft' = 0)]_all
=============================================================================
