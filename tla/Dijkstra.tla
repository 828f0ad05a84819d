------------------------------ MODULE Dijkstra ------------------------------
(***************************************************************************)
(* The workload logs5.cpp: Dijkstra's shortest paths from vertex 0 over an *)
(* adjacency matrix.  Each action is the test of a loop and, if it holds,  *)
(* one round of its body up to the next test of a loop.                    *)
(*                                                                         *)
(* The printing of the distances is reduced to its loop.                   *)
(***************************************************************************)
EXTENDS Integers

CONSTANTS
  V,       \* the number of vertices: 9
  graph    \* graph[u][v] is the weight of the edge from u to v, 0 if none

Vertices == 0 .. V - 1

INT_MAX == 2147483647

\* The length of a path without cycles, and one edge more, fits into an int.
ASSUME DijkstraAssumption ==
  /\ V \in Nat \ {0}
  /\ graph \in [Vertices -> [Vertices -> 0 .. INT_MAX \div V]]

src == 0

VARIABLES
  atD,              \* the loop whose test comes next
  count, v,         \* the loop variables of dijkstra and minDistance, and
                    \* the i of the loops that initialize and print
  min, min_index,   \* the locals of minDistance; the result becomes u
  dist, sptSet      \* what they hold before they are filled is never read

dijkstra == <<atD, count, v, min, min_index, dist, sptSet>>

\* min_index is not initialized.
NoVertex == -1

DijkstraInit ==
  /\ atD = "init"
  /\ count = 0 /\ v = 0
  /\ min = INT_MAX /\ min_index = NoVertex
  /\ dist = [x \in Vertices |-> 0]
  /\ sptSet = [x \in Vertices |-> FALSE]

InitVertex ==
  /\ atD = "init" /\ v < V
  /\ dist' = [dist EXCEPT ![v] = INT_MAX]
  /\ sptSet' = [sptSet EXCEPT ![v] = FALSE]
  /\ v' = v + 1
  /\ UNCHANGED <<atD, count, min, min_index>>

\* dist[src] = 0
EndInit ==
  /\ atD = "init" /\ v >= V
  /\ dist' = [dist EXCEPT ![src] = 0]
  /\ atD' = "count"
  /\ count' = 0
  /\ UNCHANGED <<v, min, min_index, sptSet>>

\* The call of minDistance.
StartSearch ==
  /\ atD = "count" /\ count < V - 1
  /\ atD' = "find"
  /\ min' = INT_MAX /\ min_index' = NoVertex
  /\ v' = 0
  /\ UNCHANGED <<count, dist, sptSet>>

\* Mutant: the distance of the best candidate so far is not looked at.
CandidateMut == sptSet[v] = FALSE /\ dist[v] < INT_MAX

\* With <= an unreachable vertex is taken rather than none.
Candidate == sptSet[v] = FALSE /\ dist[v] <= min

Examine ==
  /\ atD = "find" /\ v < V
  /\ IF Candidate
       THEN min' = dist[v] /\ min_index' = v
       ELSE UNCHANGED <<min, min_index>>
  /\ v' = v + 1
  /\ UNCHANGED <<atD, count, dist, sptSet>>

\* minDistance returns, and its result, called u from here on, is marked.
MarkVertex ==
  /\ atD = "find" /\ v >= V
  /\ sptSet' = [sptSet EXCEPT ![min_index] = TRUE]
  /\ atD' = "relax"
  /\ v' = 0
  /\ UNCHANGED <<count, min, min_index, dist>>

u == min_index

Shorter ==
  /\ ~sptSet[v]
  /\ graph[u][v] # 0
  /\ dist[u] # INT_MAX
  /\ dist[u] + graph[u][v] < dist[v]

Relax ==
  /\ atD = "relax" /\ v < V
  /\ dist' = IF Shorter THEN [dist EXCEPT ![v] = dist[u] + graph[u][v]] ELSE dist
  /\ v' = v + 1
  /\ UNCHANGED <<atD, count, min, min_index, sptSet>>

EndRelax ==
  /\ atD = "relax" /\ v >= V
  /\ atD' = "count"
  /\ count' = count + 1
  /\ UNCHANGED <<v, min, min_index, dist, sptSet>>

StartPrint ==
  /\ atD = "count" /\ count >= V - 1
  /\ atD' = "print"
  /\ v' = 0
  /\ UNCHANGED <<count, min, min_index, dist, sptSet>>

PrintVertex ==
  /\ atD = "print" /\ v < V
  /\ v' = v + 1
  /\ UNCHANGED <<atD, count, min, min_index, dist, sptSet>>

EndPrint ==
  /\ atD = "print" /\ v >= V
  /\ atD' = "done"
  /\ UNCHANGED <<count, v, min, min_index, dist, sptSet>>

DijkstraNext ==
  \/ InitVertex \/ EndInit
  \/ StartSearch \/ Examine \/ MarkVertex \/ Relax \/ EndRelax
  \/ StartPrint \/ PrintVertex \/ EndPrint

DijkstraSpec == DijkstraInit /\ [][DijkstraNext]_dijkstra
-----------------------------------------------------------------------------
\* The steps of a round of the main loop, a search and a relaxation of V
\* vertices each, and of the printing.
RoundSteps == 2 * V + 3
PrintSteps == V + 2

\* The steps that are left.
DijkstraLeft ==
  CASE atD = "init"  -> (V - v) + 1 + (V - 1) * RoundSteps + PrintSteps
    [] atD = "count" -> (V - 1 - count) * RoundSteps + PrintSteps
    [] atD = "find"  -> (V - v) + V + 2 + (V - 2 - count) * RoundSteps + PrintSteps
    [] atD = "relax" -> (V - v) + 1 + (V - 2 - count) * RoundSteps + PrintSteps
    [] atD = "print" -> (V - v) + 1
    [] atD = "done"  -> 0

\* There is a path to x with y as its last stop, as long as dist says for y
\* and the edge behind it.
Via(y, x) ==
  /\ graph[y][x] # 0 /\ dist[y] # INT_MAX
  /\ dist[x] = dist[y] + graph[y][x]

\* What is printed are the shortest distances: those are the only ones that
\* no edge can shorten and that are the length of a path, edge by edge.  One
\* vertex is never marked, its edges are never looked at (logs5.cpp:58), and
\* the distances hold for them all the same.
ShortestPaths ==
  atD \in {"print", "done"} =>
    /\ dist[src] = 0
    /\ \A x, y \in Vertices :
         graph[y][x] # 0 /\ dist[y] # INT_MAX => dist[x] <= dist[y] + graph[y][x]
    /\ \A x \in Vertices \ {src} :
         dist[x] # INT_MAX => \E y \in Vertices \ {x} : Via(y, x)
=============================================================================
