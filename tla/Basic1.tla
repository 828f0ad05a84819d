------------------------------- MODULE Basic1 -------------------------------
(***************************************************************************)
(* The workload basic1.cpp: a state machine on residues modulo 7 whose     *)
(* states 0 and 3 are tested for in a loop.  Its branches are given as a   *)
(* start and a body that repeats: from state 0 the machine comes back to   *)
(* state 0 after six rounds, and the program goes round 100000 times.      *)
(***************************************************************************)
EXTENDS Integers, Sequences

\* state = (state * 5 + 1) % 7
StateAfter(state) == (state * 5 + 1) % 7

StateIn[round \in 0 .. 6] == IF round = 0 THEN 0 ELSE StateAfter(StateIn[round - 1])

Period == CHOOSE p \in 1 .. 6 : StateIn[p] = 0 /\ \A q \in 1 .. p - 1 : StateIn[q] # 0

\* One round: the loop goes on, and state == 0 || state == 3 is evaluated.  The
\* branch of the first condition is taken if it holds, the one of the second
\* condition, which is reached if the first does not, if it does not hold.
Round(state, loop, first, second) ==
  << <<loop, "T">>, <<first, IF state = 0 THEN "T" ELSE "N">> >>
  \o IF state = 0 THEN <<>>
     ELSE << <<second, IF state = 3 THEN "N" ELSE "T">> >>

\* The branches of the first p rounds.
Rounds(loop, first, second) ==
  LET rounds[p \in 0 .. 6] ==
        IF p = 0 THEN <<>>
        ELSE rounds[p - 1] \o Round(StateIn[p - 1], loop, first, second)
  IN  rounds

\* The program as it runs for ever.
StateMachine(loop, first, second) ==
  [start |-> <<>>, body |-> Rounds(loop, first, second)[Period]]
=============================================================================
