------------------------------- MODULE Bubble -------------------------------
(***************************************************************************)
(* The workload bubble2.cpp: a bubble sort of n, n - 1, ..., 1.  Each      *)
(* action is the test of a loop and, if it holds, one round of its body up *)
(* to the next test of a loop.                                             *)
(***************************************************************************)
EXTENDS Integers

CONSTANT n   \* the length of the array: 50

ASSUME BubbleAssumption == n \in Nat \ {0}

VARIABLES
  atB,    \* the loop whose test comes next
  i, j,   \* the loop variables
  arr     \* what it holds before it is filled is never read

bubble == <<atB, i, j, arr>>

BubbleInit ==
  /\ atB = "fill"
  /\ i = 0 /\ j = 0
  /\ arr = [p \in 0 .. n - 1 |-> 0]

Fill ==
  /\ atB = "fill" /\ i < n
  /\ arr' = [arr EXCEPT ![i] = n - i]
  /\ i' = i + 1
  /\ UNCHANGED <<atB, j>>

StartSort ==
  /\ atB = "fill" /\ i >= n
  /\ atB' = "outer"
  /\ i' = 0
  /\ UNCHANGED <<j, arr>>

StartPass ==
  /\ atB = "outer" /\ i < n - 1
  /\ atB' = "inner"
  /\ j' = 0
  /\ UNCHANGED <<i, arr>>

\* Mutant: every pass goes over the whole array.
InnerLong == j < n - 1

\* Mutant: the pass stops one comparison early.
InnerShort == j < n - i - 2

Inner == j < n - i - 1

OutOfOrder == arr[j] > arr[j + 1]

Compare ==
  /\ atB = "inner" /\ Inner
  /\ arr' = IF OutOfOrder
              THEN [arr EXCEPT ![j] = arr[j + 1], ![j + 1] = arr[j]]
              ELSE arr
  /\ j' = j + 1
  /\ UNCHANGED <<atB, i>>

EndPass ==
  /\ atB = "inner" /\ ~Inner
  /\ atB' = "outer"
  /\ i' = i + 1
  /\ UNCHANGED <<j, arr>>

EndSort ==
  /\ atB = "outer" /\ i >= n - 1
  /\ atB' = "done"
  /\ UNCHANGED <<i, j, arr>>

BubbleNext == Fill \/ StartSort \/ StartPass \/ Compare \/ EndPass \/ EndSort

BubbleSpec == BubbleInit /\ [][BubbleNext]_bubble
-----------------------------------------------------------------------------
\* The steps of m passes, the last of which compares once: two for the test
\* before a pass and the one behind it, and one for each comparison.
PassSteps(m) == (m * (m + 5)) \div 2

\* The steps that are left.
BubbleLeft ==
  CASE atB = "fill"  -> (n - i) + 1 + PassSteps(n - 1) + 1
    [] atB = "outer" -> PassSteps(n - 1 - i) + 1
    [] atB = "inner" -> (n - i - 1 - j) + 1 + PassSteps(n - 2 - i) + 1
    [] atB = "done"  -> 0

\* Each pass puts one more element into place, at the end of the array, and
\* the program ends with the array sorted.
BubbleSorts ==
  /\ atB = "outer" => \A p \in n - i .. n - 1 : arr[p] = p + 1
  /\ atB = "done"  => \A p \in 0 .. n - 1 : arr[p] = p + 1

\* "Reverse sorted (good branch activity)", bubble2.cpp:8: on this array the
\* only branch that depends on data goes the same way every time, also in the
\* later passes, when part of the array has been moved.
EveryTestSwaps == atB = "inner" /\ Inner => OutOfOrder
=============================================================================
