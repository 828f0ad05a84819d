---------------------------- MODULE TageWorkload ----------------------------
(***************************************************************************)
(* The predictor of MyTage.cpp under programs that settle into a loop: a   *)
(* start-up sequence of branch outcomes, then a loop body for ever.  The   *)
(* predictor is deterministic, so a program fixes the behaviour.           *)
(***************************************************************************)
EXTENDS TagePredictor

CONSTANT Programs   \* a function from names to [start, body] programs, both
                    \* parts sequences of <<branch, outcome>>

ASSUME ProgramsAssumption ==
  \A p \in DOMAIN Programs :
    /\ Programs[p].start \in Seq(Branches \X Outcome)
    /\ Programs[p].body \in Seq(Branches \X Outcome)
    /\ Programs[p].body # <<>>

VARIABLES
  program,   \* the program that runs
  pc         \* the branch it executes next, counted through start and body

workload == <<program, pc>>

Start == Programs[program].start
Body == Programs[program].body

\* The branch that is about to execute, and its outcome.
Current == IF pc <= Len(Start) THEN Start[pc] ELSE Body[pc - Len(Start)]

WorkloadInit ==
  /\ PredictorInit
  /\ program \in DOMAIN Programs
  /\ pc = 1

Execute ==
  /\ \E ip \in {Current[1]}, actual \in {Current[2]} : Predict(ip, actual)
  /\ pc' = IF pc = Len(Start) + Len(Body) THEN Len(Start) + 1 ELSE pc + 1
  /\ UNCHANGED program

\* The program is not stopped from the outside.
WorkloadSpec ==
  /\ WorkloadInit
  /\ [][Execute]_<<predictor, workload>>
  /\ WF_<<predictor, workload>>(Execute)

Right == prediction(Current[1]) = Current[2]

\* From some point on every branch is predicted right.
LearnsLoop == <>[]Right

\* The branches that always go the same way in the loop.
Steady == {ip \in Branches :
             \A i, j \in DOMAIN Body :
               Body[i][1] = ip /\ Body[j][1] = ip => Body[i][2] = Body[j][2]}

\* From some point on those are predicted right.
LearnsSteady == <>[](Current[1] \in Steady => Right)
=============================================================================
