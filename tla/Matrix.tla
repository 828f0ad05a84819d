------------------------------- MODULE Matrix -------------------------------
(***************************************************************************)
(* The workload matrix3.cpp: the product of two N by N matrices.  Each     *)
(* action is the test of a loop and, if it holds, one round of its body up *)
(* to the next test of a loop.                                             *)
(***************************************************************************)
EXTENDS Integers

CONSTANT N   \* the size of the matrices: 20

ASSUME MatrixAssumption == N \in Nat

VARIABLES
  atM,          \* the loop whose test comes next
  row, col, k,  \* the loop variables i, j and k
  C             \* the product; what it holds before is never read

matrix == <<atM, row, col, k, C>>

\* The matrices A and B as the first loops initialize them.
A(r, c) == (r + c) % 10
B(r, c) == (r * c) % 10

MatrixInit ==
  /\ atM = "initRow"
  /\ row = 0 /\ col = 0 /\ k = 0
  /\ C = [r \in 0 .. N - 1 |-> [c \in 0 .. N - 1 |-> -1]]

\* for (int i = 0; i < N; i++), at one place of the program: into the body
\* with a new inner loop, or on to the code behind the loop.
Row(here, body, behind) ==
  /\ atM = here
  /\ IF row < N
       THEN atM' = body /\ col' = 0 /\ UNCHANGED row
       ELSE atM' = behind /\ row' = 0 /\ UNCHANGED col
  /\ UNCHANGED <<k, C>>

InitElement ==
  /\ atM = "initCol" /\ col < N
  /\ C' = [C EXCEPT ![row][col] = 0]
  /\ col' = col + 1
  /\ UNCHANGED <<atM, row, k>>

EndInitRow ==
  /\ atM = "initCol" /\ col >= N
  /\ atM' = "initRow"
  /\ row' = row + 1
  /\ UNCHANGED <<col, k, C>>

StartElement ==
  /\ atM = "col" /\ col < N
  /\ atM' = "inner"
  /\ k' = 0
  /\ UNCHANGED <<row, col, C>>

\* Mutant: A[i][j] instead of A[i][k].
ProductMut(r, c, m) == A(r, c) * B(m, c)

Product(r, c, m) == A(r, m) * B(m, c)

Accumulate ==
  /\ atM = "inner" /\ k < N
  /\ C' = [C EXCEPT ![row][col] = @ + Product(row, col, k)]
  /\ k' = k + 1
  /\ UNCHANGED <<atM, row, col>>

EndElement ==
  /\ atM = "inner" /\ k >= N
  /\ atM' = "col"
  /\ col' = col + 1
  /\ UNCHANGED <<row, k, C>>

EndRow ==
  /\ atM = "col" /\ col >= N
  /\ atM' = "row"
  /\ row' = row + 1
  /\ UNCHANGED <<col, k, C>>

MatrixNext ==
  \/ Row("initRow", "initCol", "row")
  \/ InitElement \/ EndInitRow
  \/ Row("row", "col", "done")
  \/ StartElement \/ Accumulate \/ EndElement \/ EndRow

MatrixSpec == MatrixInit /\ [][MatrixNext]_matrix
-----------------------------------------------------------------------------
\* The steps of a row of the product: N elements, each with N rounds of the
\* inner loop, and the tests before and behind them.
ElementSteps == N + 2
RowSteps == N * ElementSteps + 2

\* The steps that are left; a row of the initialization is as long as an
\* element of the product.
MatrixLeft ==
  CASE atM = "initRow" -> (N - row) * ElementSteps + 1 + N * RowSteps + 1
    [] atM = "initCol" ->
         (N - col) + 1 + (N - row - 1) * ElementSteps + 1 + N * RowSteps + 1
    [] atM = "row"     -> (N - row) * RowSteps + 1
    [] atM = "col"     -> (N - col) * ElementSteps + 1 + (N - row - 1) * RowSteps + 1
    [] atM = "inner"   -> (N - k) + 1 + (N - col - 1) * ElementSteps + 1
                            + (N - row - 1) * RowSteps + 1
    [] atM = "done"    -> 0

\* Row r of A times column c of B, summed up to every m.
Sums(r, c) ==
  LET sum[m \in 0 .. N] == IF m = 0 THEN 0 ELSE sum[m - 1] + A(r, m - 1) * B(m - 1, c)
  IN  sum

Entry(r, c) == Sums(r, c)[N]

\* After each round of the outer loop one more row of C is the product of A
\* and B, and all are at the end.
MatrixMultiplies ==
  LET finished == IF atM = "done" THEN N ELSE row
  IN  atM \in {"row", "done"} =>
        \A r \in 0 .. finished - 1, c \in 0 .. N - 1 : C[r][c] = Entry(r, c)
=============================================================================
