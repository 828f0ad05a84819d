-------------------------- MODULE Workloads_proofs --------------------------
(***************************************************************************)
(* The workloads bubble2, matrix3 and logs5 for arrays of every length and *)
(* matrices and graphs of every size, by themselves and under the tools.   *)
(***************************************************************************)
EXTENDS Measurement, Comparison_proofs, FiniteSetTheorems, TLAPS

(***************************************************************************)
(* bubble2: what the array holds is known at every moment.  The element    *)
(* that a pass carries is n - i, the elements behind it are in place, those*)
(* before it have moved down by one and the others are as they were at the *)
(* start of the pass.                                                      *)
(***************************************************************************)
\* The contents of the array at place p before pass i.
Before(p) == IF p < n - i THEN n - i - p ELSE p + 1

\* The contents during pass i.
During(p) == IF p < j THEN n - i - 1 - p
             ELSE IF p = j THEN n - i
             ELSE Before(p)

Place == 0 .. n - 1

Contents ==
  /\ n \in Nat \ {0}
  /\ i \in Nat /\ j \in Nat
  /\ arr \in [Place -> Int]
  /\ atB \in {"fill", "outer", "inner", "done"}
  /\ atB = "fill"  => i <= n /\ \A p \in Place : p < i => arr[p] = n - p
  /\ atB = "outer" => i <= n - 1 /\ \A p \in Place : arr[p] = Before(p)
  /\ atB = "inner" => /\ i < n - 1 /\ j <= n - i - 1
                      /\ \A p \in Place : arr[p] = During(p)
  /\ atB = "done"  => \A p \in Place : arr[p] = p + 1

LEMMA ContentsInit == BubbleInit => Contents
BY BubbleAssumption DEF BubbleInit, Contents, Place

LEMMA FillStep == Contents /\ Fill => Contents'
<1> SUFFICES ASSUME Contents, Fill
             PROVE  Contents'
  OBVIOUS
<1>1. i \in Place /\ i' = i + 1 /\ i' \in Nat /\ i' <= n
  BY DEF Contents, Fill, Place
<1>2. /\ arr' \in [Place -> Int]
      /\ \A p \in Place : arr'[p] = IF p = i THEN n - i ELSE arr[p]
  BY <1>1 DEF Contents, Fill
<1>3. \A p \in Place : p < i' => arr'[p] = n - p
  BY <1>1, <1>2 DEF Contents, Fill, Place
<1>4. QED
  BY <1>1, <1>2, <1>3 DEF Contents, Fill, Place

LEMMA StartSortStep == Contents /\ StartSort => Contents'
BY DEF Contents, StartSort, Place, Before

LEMMA StartPassStep == Contents /\ StartPass => Contents'
BY DEF Contents, StartPass, Place, Before, During

\* A comparison finds the carried element before a smaller one, and swaps.
LEMMA CompareStep == Contents /\ Compare => Contents'
<1> SUFFICES ASSUME Contents, Compare
             PROVE  Contents'
  OBVIOUS
<1>1. /\ j \in Place /\ j + 1 \in Place
      /\ arr[j] = n - i /\ arr[j + 1] = n - i - (j + 1)
  BY DEF Contents, Compare, Inner, Place, During, Before
<1>2. arr' = [arr EXCEPT ![j] = arr[j + 1], ![j + 1] = arr[j]]
  BY <1>1 DEF Contents, Compare, OutOfOrder
<1>3. \A p \in Place : arr'[p] = IF p = j THEN n - i - (j + 1)
                                 ELSE IF p = j + 1 THEN n - i ELSE arr[p]
  BY <1>1, <1>2 DEF Contents, Place
<1>4. i < n - 1 /\ j' = j + 1 /\ j' <= n - i - 1 /\ n \in Nat /\ i \in Nat /\ j \in Nat
  BY DEF Contents, Compare, Inner
<1>5. \A p \in Place : arr[p] = During(p)
  BY DEF Contents, Compare
<1>6. \A p \in Place : arr'[p] = During(p)'
  <2> SUFFICES ASSUME NEW p \in Place
               PROVE  arr'[p] = During(p)'
    OBVIOUS
  <2>1. i' = i
    BY DEF Compare
  <2>2. p \in Int
    BY <1>4 DEF Place
  <2> QED
    BY <1>3, <1>4, <1>5, <2>1, <2>2 DEF During, Before
<1>7. arr' \in [Place -> Int]
  BY <1>1, <1>2 DEF Contents, Place
<1> QED
  BY <1>4, <1>6, <1>7 DEF Contents, Compare, Place

LEMMA EndPassStep == Contents /\ EndPass => Contents'
BY DEF Contents, EndPass, Inner, Place, During, Before

LEMMA EndSortStep == Contents /\ EndSort => Contents'
BY DEF Contents, EndSort, Place, Before

LEMMA ContentsStep == Contents /\ [BubbleNext]_bubble => Contents'
<1>1. ASSUME Contents, UNCHANGED bubble
      PROVE  Contents'
  BY <1>1 DEF Contents, bubble, Before, During, Place
<1>2. QED
  BY <1>1, FillStep, StartSortStep, StartPassStep, CompareStep, EndPassStep,
     EndSortStep DEF BubbleNext

\* The bubble sort sorts, pass by pass, for every length of the array.
THEOREM BubbleSort == BubbleSpec => []BubbleSorts
<1>1. Contents => BubbleSorts
  BY DEF Contents, BubbleSorts, Place, Before
<1>2. QED
  BY <1>1, ContentsInit, ContentsStep, PTL DEF BubbleSpec

\* Its test of two elements has the same outcome every time, for every length.
THEOREM OneWayTest == BubbleSpec => []EveryTestSwaps
<1>1. Contents => EveryTestSwaps
  BY DEF Contents, EveryTestSwaps, Inner, OutOfOrder, Place, During, Before
<1>2. QED
  BY <1>1, ContentsInit, ContentsStep, PTL DEF BubbleSpec
\* A pass with one comparison more is one step longer, and makes one more test
\* before and one behind it.
LEMMA OnePassMore ==
  ASSUME NEW m \in Nat
  PROVE  PassSteps(m) \in Nat /\ PassSteps(m + 1) = PassSteps(m) + m + 3
<1> DEFINE s == m * (m + 5)
<1>1. s \in Nat /\ (m + 1) * (m + 1 + 5) = s + 2 * (m + 3)
  BY SMT
<1> HIDE DEF s
<1>2. (s + 2 * (m + 3)) \div 2 = (s \div 2) + (m + 3) /\ s \div 2 \in Nat
  BY <1>1, SMT
<1>3. PassSteps(m) = s \div 2 /\ PassSteps(m + 1) = (s + 2 * (m + 3)) \div 2
  BY <1>1 DEF PassSteps, s
<1>4. QED
  BY <1>2, <1>3, SMT

\* Every step of the sort is one step less, and the end is where none is left.
LEMMA BubbleCounts ==
  /\ Contents => BubbleLeft \in Nat /\ (BubbleLeft = 0 <=> atB = "done")
  /\ Contents /\ BubbleNext => BubbleLeft' = BubbleLeft - 1
<1>1. ASSUME Contents
      PROVE  BubbleLeft \in Nat /\ (BubbleLeft = 0 <=> atB = "done")
  <2>1. /\ n - 1 \in Nat /\ PassSteps(n - 1) \in Nat
        /\ atB = "outer" => n - 1 - i \in Nat /\ PassSteps(n - 1 - i) \in Nat
        /\ atB = "inner" => n - 2 - i \in Nat /\ PassSteps(n - 2 - i) \in Nat
    BY <1>1, OnePassMore, SMT DEF Contents
  <2>2. CASE atB = "fill"
    BY <1>1, <2>1, <2>2, SMT DEF Contents, BubbleLeft
  <2>3. CASE atB = "outer"
    BY <1>1, <2>1, <2>3, SMT DEF Contents, BubbleLeft
  <2>4. CASE atB = "inner"
    BY <1>1, <2>1, <2>4, SMT DEF Contents, BubbleLeft
  <2>5. CASE atB = "done"
    BY <2>5 DEF BubbleLeft
  <2>6. QED
    BY <1>1, <2>2, <2>3, <2>4, <2>5 DEF Contents
<1>2. ASSUME Contents, BubbleNext
      PROVE  BubbleLeft' = BubbleLeft - 1
  <2>1. n \in Nat \ {0} /\ i \in Nat /\ j \in Nat
    BY <1>2 DEF Contents
  <2>2. PassSteps(n - 1) \in Nat /\ PassSteps(0) = 0
    BY <2>1, OnePassMore, SMT DEF PassSteps
  <2>3. CASE Fill
    BY <2>1, <2>2, <2>3, SMT DEF Fill, BubbleLeft
  <2>4. CASE StartSort
    <3>1. i = n /\ n - 1 - 0 = n - 1
      BY <1>2, <2>1, <2>4, SMT DEF Contents, StartSort
    <3>2. QED
      BY <2>1, <2>2, <2>4, <3>1, SMT DEF StartSort, BubbleLeft
  <2>5. CASE StartPass
    <3>1. n - 2 - i \in Nat /\ n - 1 - i = (n - 2 - i) + 1
      BY <2>1, <2>5, SMT DEF StartPass
    <3>2. /\ PassSteps(n - 2 - i) \in Nat
          /\ PassSteps(n - 1 - i) = PassSteps(n - 2 - i) + (n - 2 - i) + 3
      BY <3>1, OnePassMore
    <3>3. /\ BubbleLeft = PassSteps(n - 1 - i) + 1
          /\ BubbleLeft' = (n - i - 1 - 0) + 1 + PassSteps(n - 2 - i) + 1
      BY <2>5 DEF StartPass, BubbleLeft
    <3>4. QED
      BY <2>1, <3>2, <3>3, SMT
  <2>6. CASE Compare
    <3>1. PassSteps(n - 2 - i) \in Nat
      BY <1>2, <2>1, <2>6, OnePassMore, SMT DEF Contents, Compare
    <3>2. QED
      BY <2>1, <2>6, <3>1, SMT DEF Compare, BubbleLeft
  <2>7. CASE EndPass
    <3>1. /\ j = n - i - 1 /\ n - 2 - i \in Nat
          /\ n - 1 - (i + 1) = n - 2 - i
      BY <1>2, <2>1, <2>7, SMT DEF Contents, EndPass, Inner
    <3>2. PassSteps(n - 2 - i) \in Nat
      BY <3>1, OnePassMore
    <3>3. QED
      BY <2>1, <2>7, <3>1, <3>2, SMT DEF EndPass, BubbleLeft
  <2>8. CASE EndSort
    <3>1. n - 1 - i = 0
      BY <1>2, <2>1, <2>8, SMT DEF Contents, EndSort
    <3>2. QED
      BY <2>2, <2>8, <3>1, SMT DEF EndSort, BubbleLeft
  <2>9. QED
    BY <1>2, <2>3, <2>4, <2>5, <2>6, <2>7, <2>8 DEF BubbleNext
<1>3. QED
  BY <1>1, <1>2
-----------------------------------------------------------------------------
(***************************************************************************)
(* logs5: at every moment the marked vertices are the nearest ones, their  *)
(* distances are final and their edges have been looked at, and each       *)
(* distance is the length of a path over marked vertices.                  *)
(***************************************************************************)
Marked == {x \in Vertices : sptSet[x]}

DijkstraType ==
  /\ atD \in {"init", "count", "find", "relax", "print", "done"}
  /\ count \in Nat /\ v \in Nat
  /\ dist \in [Vertices -> 0 .. INT_MAX]
  /\ sptSet \in [Vertices -> BOOLEAN]

\* One more vertex is marked in every round of the main loop.
RoundsMark ==
  /\ atD = "init" => Marked = {}
  /\ atD \in {"count", "find"} => Cardinality(Marked) = count
  /\ atD \in {"find", "relax"} => count < V - 1
  /\ atD = "relax" => Cardinality(Marked) = count + 1
  /\ atD \in {"print", "done"} => Cardinality(Marked) >= V - 1

Initialized ==
  atD = "init" => \A x \in Vertices : x < v => dist[x] = INT_MAX

\* The edge from y to x has been looked at since y was marked.
Looked(y, x) == sptSet[y] /\ (atD = "relax" /\ y = u => x < v \/ sptSet[x])

Tree ==
  atD # "init" =>
    /\ dist[src] = 0
    /\ \A y, x \in Vertices : sptSet[y] /\ ~sptSet[x] => dist[y] <= dist[x]
    /\ \A x \in Vertices \ {src} :
         dist[x] # INT_MAX => \E y \in Vertices \ {x} : sptSet[y] /\ Via(y, x)
    /\ \A y, x \in Vertices :
         Looked(y, x) /\ graph[y][x] # 0 /\ dist[y] # INT_MAX
           => dist[x] <= dist[y] + graph[y][x]

\* The search has the nearest of the vertices it has seen, if it has one.
Nearest ==
  atD = "find" =>
    IF min_index = NoVertex
      THEN min = INT_MAX /\ \A x \in Vertices : x < v => sptSet[x]
      ELSE /\ min_index \in Vertices /\ ~sptSet[min_index]
           /\ min = dist[min_index]
           /\ \A x \in Vertices : x < v /\ ~sptSet[x] => min <= dist[x]

\* The vertex whose edges are looked at is the last one that was marked.
Farthest ==
  atD = "relax" =>
    /\ u \in Vertices /\ sptSet[u]
    /\ \A y \in Vertices : sptSet[y] => dist[y] <= dist[u]

DijkstraInv ==
  DijkstraType /\ RoundsMark /\ Initialized /\ Tree /\ Nearest /\ Farthest

LEMMA MarkedFinite ==
  /\ IsFiniteSet(Vertices) /\ Cardinality(Vertices) = V
  /\ IsFiniteSet(Marked)
<1>1. IsFiniteSet(Vertices) /\ Cardinality(Vertices) = V
  <2>1. V \in Nat \ {0} /\ 0 \in Int /\ V - 1 \in Int
    BY DijkstraAssumption
  <2>2. QED
    BY <2>1, FS_Interval DEF Vertices
<1>2. Marked \subseteq Vertices
  BY DEF Marked
<1>3. IsFiniteSet(Marked)
  BY <1>1, <1>2, FS_Subset
<1>4. QED
  BY <1>1, <1>3

LEMMA IntMax == INT_MAX \in Nat \ {0}
BY SMT DEF INT_MAX

LEMMA Weights ==
  /\ V \in Nat \ {0} /\ src \in Vertices
  /\ \A y, x \in Vertices : graph[y][x] \in Nat
BY DijkstraAssumption DEF src, Vertices

LEMMA DijkstraInvInit == DijkstraInit => DijkstraInv
BY IntMax, Weights DEF DijkstraInit, DijkstraInv, DijkstraType, RoundsMark,
   Initialized, Tree, Nearest, Farthest, Marked, Vertices

LEMMA InitVertexStep == DijkstraInv /\ InitVertex => DijkstraInv'
<1> SUFFICES ASSUME DijkstraInv, InitVertex
             PROVE  DijkstraInv'
  OBVIOUS
<1>1. v \in Vertices /\ v' = v + 1 /\ v' \in Nat /\ atD = "init" /\ atD' = "init"
  BY Weights DEF DijkstraInv, DijkstraType, InitVertex, Vertices
<1>2. /\ dist' \in [Vertices -> 0 .. INT_MAX]
      /\ \A x \in Vertices : dist'[x] = IF x = v THEN INT_MAX ELSE dist[x]
  BY IntMax, <1>1 DEF DijkstraInv, DijkstraType, InitVertex
<1>3. /\ sptSet' \in [Vertices -> BOOLEAN]
      /\ \A x \in Vertices : sptSet'[x] = FALSE
  <2>1. \A x \in Vertices : ~sptSet[x]
    BY <1>1 DEF DijkstraInv, RoundsMark, Marked
  <2>2. sptSet' = [sptSet EXCEPT ![v] = FALSE]
    BY DEF InitVertex
  <2>3. QED
    BY <1>1, <2>1, <2>2 DEF DijkstraInv, DijkstraType
<1>4. DijkstraType'
  BY <1>1, <1>2, <1>3 DEF DijkstraInv, DijkstraType, InitVertex
<1>5. RoundsMark' /\ Tree' /\ Nearest' /\ Farthest'
  BY <1>1, <1>3 DEF RoundsMark, Marked, Tree, Nearest, Farthest
<1>6. Initialized'
  BY <1>1, <1>2 DEF DijkstraInv, DijkstraType, Initialized, Vertices
<1>7. QED
  BY <1>4, <1>5, <1>6 DEF DijkstraInv

LEMMA EndInitStep == DijkstraInv /\ EndInit => DijkstraInv'
<1> SUFFICES ASSUME DijkstraInv, EndInit
             PROVE  DijkstraInv'
  OBVIOUS
<1>1. /\ dist' \in [Vertices -> 0 .. INT_MAX]
      /\ dist'[src] = 0
      /\ \A x \in Vertices \ {src} : dist'[x] = INT_MAX
  <2>1. \A x \in Vertices : dist[x] = INT_MAX
    BY Weights DEF DijkstraInv, DijkstraType, Initialized, EndInit, Vertices
  <2>2. QED
    BY IntMax, <2>1, Weights DEF DijkstraInv, DijkstraType, EndInit
<1>2. sptSet' = sptSet /\ \A x \in Vertices : sptSet[x] = FALSE
  BY DEF DijkstraInv, DijkstraType, RoundsMark, EndInit, Marked
<1>3. DijkstraType'
  BY <1>1, <1>2 DEF DijkstraInv, DijkstraType, EndInit
<1>4. RoundsMark'
  <2>1. Marked' = {}
    BY <1>2 DEF Marked
  <2>2. Cardinality(Marked') = 0
    BY <2>1, FS_EmptySet
  <2>3. QED
    BY <2>2 DEF RoundsMark, EndInit
<1>5. Tree'
  BY <1>1, <1>2 DEF Tree, Looked
<1>6. Initialized' /\ Nearest' /\ Farthest'
  BY DEF EndInit, Initialized, Nearest, Farthest
<1>7. QED
  BY <1>3, <1>4, <1>5, <1>6 DEF DijkstraInv

\* The steps that leave the distances and the marks alone keep the tree, if
\* all edges that they count on have been looked at.
LEMMA SameTree ==
  ASSUME DijkstraInv, UNCHANGED <<dist, sptSet>>, atD # "init",
         \A y, x \in Vertices : Looked(y, x)' => Looked(y, x)
  PROVE  Tree' /\ Marked' = Marked
<1>1. dist' = dist /\ sptSet' = sptSet
  OBVIOUS
<1>2. \A y, x \in Vertices : Via(y, x)' <=> Via(y, x)
  BY <1>1 DEF Via
<1>3. QED
  BY <1>1, <1>2 DEF DijkstraInv, Tree, Marked

LEMMA StartSearchStep == DijkstraInv /\ StartSearch => DijkstraInv'
<1> SUFFICES ASSUME DijkstraInv, StartSearch
             PROVE  DijkstraInv'
  OBVIOUS
<1>1. Tree' /\ Marked' = Marked
  <2>1. UNCHANGED <<dist, sptSet>> /\ atD # "init" /\ atD = "count" /\ atD' = "find"
    BY DEF StartSearch
  <2>2. \A y, x \in Vertices : Looked(y, x)' => Looked(y, x)
    BY <2>1 DEF Looked
  <2>3. QED
    BY <2>1, <2>2, SameTree
<1>2. DijkstraType'
  BY DEF DijkstraInv, DijkstraType, StartSearch
<1>3. RoundsMark'
  BY <1>1 DEF DijkstraInv, RoundsMark, StartSearch
<1>4. Initialized' /\ Nearest' /\ Farthest'
  BY DEF StartSearch, Initialized, Nearest, Farthest, Vertices, NoVertex
<1>5. QED
  BY <1>1, <1>2, <1>3, <1>4 DEF DijkstraInv

LEMMA ExamineStep == DijkstraInv /\ Examine => DijkstraInv'
<1> SUFFICES ASSUME DijkstraInv, Examine
             PROVE  DijkstraInv'
  OBVIOUS
<1>1. /\ UNCHANGED <<dist, sptSet, count>> /\ atD = "find" /\ atD' = "find"
      /\ v \in Vertices /\ v' = v + 1 /\ v' \in Nat
  BY Weights DEF DijkstraInv, DijkstraType, Examine, Vertices
<1>2. Tree' /\ Marked' = Marked
  <2>1. \A y, x \in Vertices : Looked(y, x)' => Looked(y, x)
    BY <1>1 DEF Looked
  <2>2. QED
    BY <1>1, <2>1, SameTree
<1>3. DijkstraType' /\ RoundsMark' /\ Initialized' /\ Farthest'
  BY <1>1, <1>2 DEF DijkstraInv, DijkstraType, RoundsMark, Initialized, Farthest
<1>4. \A x \in Vertices : x < v' <=> x < v \/ x = v
  BY <1>1 DEF Vertices
<1>5. \A x \in Vertices : dist[x] \in 0 .. INT_MAX /\ sptSet[x] \in BOOLEAN
  BY DEF DijkstraInv, DijkstraType
<1>6. CASE Candidate
  <2>1. min' = dist[v] /\ min_index' = v /\ ~sptSet[v] /\ dist[v] <= min
    BY <1>6 DEF Examine, Candidate
  <2>2. \A x \in Vertices : x < v /\ ~sptSet[x] => dist[v] <= dist[x]
    BY IntMax, <1>1, <1>5, <2>1 DEF DijkstraInv, Nearest
  <2>3. v # NoVertex
    BY <1>1 DEF NoVertex, Vertices
  <2>4. Nearest'
    BY IntMax, <1>1, <1>4, <1>5, <2>1, <2>2, <2>3 DEF Nearest
  <2>5. QED
    BY <1>2, <1>3, <2>4 DEF DijkstraInv
<1>7. CASE ~Candidate
  <2>1. min' = min /\ min_index' = min_index
    BY <1>7 DEF Examine
  <2>2. sptSet[v] \/ ~(dist[v] <= min)
    BY <1>1, <1>5, <1>7 DEF Candidate
  <2>3. Nearest'
    BY IntMax, <1>1, <1>4, <1>5, <2>1, <2>2 DEF DijkstraInv, Nearest
  <2>4. QED
    BY <1>2, <1>3, <2>3 DEF DijkstraInv
<1>8. QED
  BY <1>6, <1>7

\* While rounds of the main loop are left there is a vertex that is not marked,
\* so the search finds one: min_index is not read uninitialized.
LEMMA SearchFinds ==
  ASSUME DijkstraInv, atD = "find", v >= V
  PROVE  /\ min_index \in Vertices /\ ~sptSet[min_index]
         /\ \A x \in Vertices : ~sptSet[x] => dist[min_index] <= dist[x]
<1>1. \A x \in Vertices : x < v
  BY Weights DEF DijkstraInv, DijkstraType, Vertices
<1>2. ASSUME min_index = NoVertex
      PROVE  FALSE
  <2>1. Marked = Vertices
    BY <1>1, <1>2 DEF DijkstraInv, Nearest, Marked
  <2>2. Cardinality(Marked) = count /\ count < V - 1
    BY DEF DijkstraInv, RoundsMark
  <2>3. QED
    BY <2>1, <2>2, MarkedFinite, Weights DEF DijkstraInv, DijkstraType
<1>3. QED
  BY <1>1, <1>2 DEF DijkstraInv, Nearest

LEMMA MarkVertexStep == DijkstraInv /\ MarkVertex => DijkstraInv'
<1> SUFFICES ASSUME DijkstraInv, MarkVertex
             PROVE  DijkstraInv'
  OBVIOUS
<1>1. /\ atD = "find" /\ atD' = "relax" /\ v' = 0 /\ dist' = dist /\ count' = count
      /\ min_index' = min_index /\ u' = u /\ u = min_index
  BY DEF MarkVertex, u
<1>2. /\ u \in Vertices /\ ~sptSet[u]
      /\ \A x \in Vertices : ~sptSet[x] => dist[u] <= dist[x]
  BY <1>1, SearchFinds DEF MarkVertex
<1>3. /\ sptSet' \in [Vertices -> BOOLEAN]
      /\ \A x \in Vertices : sptSet'[x] <=> sptSet[x] \/ x = u
  BY <1>1, <1>2 DEF DijkstraInv, DijkstraType, MarkVertex
<1>4. \A x \in Vertices : dist[x] \in Nat
  BY IntMax DEF DijkstraInv, DijkstraType
<1>5. DijkstraType'
  BY <1>1, <1>3 DEF DijkstraInv, DijkstraType
<1>6. RoundsMark'
  <2>1. Marked' = Marked \cup {u} /\ u \notin Marked
    BY <1>2, <1>3 DEF Marked
  <2>2. Cardinality(Marked') = Cardinality(Marked) + 1
    BY <2>1, MarkedFinite, FS_AddElement
  <2>3. QED
    BY <1>1, <2>2 DEF DijkstraInv, RoundsMark
<1>7. Tree'
  <2>1. \A y, x \in Vertices : Via(y, x)' <=> Via(y, x)
    BY <1>1 DEF Via
  <2>2. dist[src] = 0
    BY <1>1 DEF DijkstraInv, Tree
  <2>3. \A y, x \in Vertices : sptSet'[y] /\ ~sptSet'[x] => dist[y] <= dist[x]
    BY <1>1, <1>2, <1>3 DEF DijkstraInv, Tree
  <2>4. \A x \in Vertices \ {src} :
          dist[x] # INT_MAX => \E y \in Vertices \ {x} : sptSet'[y] /\ Via(y, x)
    BY <1>1, <1>3 DEF DijkstraInv, Tree
  <2>5. ASSUME NEW y \in Vertices, NEW x \in Vertices,
               Looked(y, x)', graph[y][x] # 0, dist[y] # INT_MAX
        PROVE  dist[x] <= dist[y] + graph[y][x]
    <3>1. CASE y = u
      <4>1. sptSet'[x]
        BY <1>1, <2>5, <3>1 DEF Looked, Vertices
      <4>2. dist[x] <= dist[u]
        BY <1>1, <1>2, <1>3, <1>4, <4>1 DEF DijkstraInv, Tree
      <4>3. QED
        BY <1>4, <3>1, <4>2, Weights
    <3>2. CASE y # u
      <4>1. Looked(y, x)
        BY <1>1, <1>3, <2>5, <3>2 DEF Looked
      <4>2. QED
        BY <1>1, <2>5, <4>1 DEF DijkstraInv, Tree
    <3>3. QED
      BY <3>1, <3>2
  <2>6. QED
    BY <1>1, <2>1, <2>2, <2>3, <2>4, <2>5 DEF Tree
<1>8. Initialized' /\ Nearest'
  BY <1>1 DEF Initialized, Nearest
<1>9. Farthest'
  BY <1>1, <1>2, <1>3, <1>4 DEF DijkstraInv, Tree, Farthest
<1>10. QED
  BY <1>5, <1>6, <1>7, <1>8, <1>9 DEF DijkstraInv

LEMMA RelaxStep == DijkstraInv /\ Relax => DijkstraInv'
<1> SUFFICES ASSUME DijkstraInv, Relax
             PROVE  DijkstraInv'
  OBVIOUS
<1>1. /\ atD = "relax" /\ atD' = "relax" /\ v \in Vertices /\ v' = v + 1 /\ v' \in Nat
      /\ sptSet' = sptSet /\ count' = count /\ min_index' = min_index /\ u' = u
  BY Weights DEF DijkstraInv, DijkstraType, Relax, Vertices, u
<1>2. /\ u \in Vertices /\ sptSet[u]
      /\ \A y \in Vertices : sptSet[y] => dist[y] <= dist[u]
  BY <1>1 DEF DijkstraInv, Farthest
<1>3. \A x \in Vertices : dist[x] \in 0 .. INT_MAX /\ dist[x] \in Nat
  BY IntMax DEF DijkstraInv, DijkstraType
<1>4. /\ dist' \in [Vertices -> 0 .. INT_MAX]
      /\ \A x \in Vertices \ {v} : dist'[x] = dist[x]
      /\ ~Shorter => dist'[v] = dist[v]
      /\ Shorter => dist'[v] = dist[u] + graph[u][v] /\ dist'[v] < dist[v]
  <2>1. CASE Shorter
    <3>1. dist' = [dist EXCEPT ![v] = dist[u] + graph[u][v]]
      BY <2>1 DEF Relax
    <3>2. dist[u] + graph[u][v] \in 0 .. INT_MAX /\ dist[u] + graph[u][v] < dist[v]
      BY IntMax, <1>1, <1>2, <1>3, <2>1, Weights DEF Shorter
    <3>3. QED
      BY <1>1, <2>1, <3>1, <3>2 DEF DijkstraInv, DijkstraType
  <2>2. CASE ~Shorter
    BY <2>2 DEF Relax, DijkstraInv, DijkstraType
  <2>3. QED
    BY <2>1, <2>2
<1>5. \A x \in Vertices : dist'[x] \in Nat /\ dist'[x] <= dist[x]
  BY IntMax, <1>1, <1>3, <1>4
<1>6. \A x \in Vertices : sptSet[x] => dist'[x] = dist[x]
  BY <1>1, <1>4 DEF Shorter
<1>7. DijkstraType'
  BY <1>1, <1>4 DEF DijkstraInv, DijkstraType
<1>8. RoundsMark'
  <2>1. Marked' = Marked
    BY <1>1 DEF Marked
  <2>2. QED
    BY <1>1, <2>1 DEF DijkstraInv, RoundsMark
<1>9. Tree'
  <2>1. dist'[src] = 0
    BY <1>1, <1>5, Weights DEF DijkstraInv, Tree
  <2>2. ASSUME NEW y \in Vertices, NEW x \in Vertices, sptSet[y], ~sptSet[x]
        PROVE  dist'[y] <= dist'[x]
    <3>1. dist[y] <= dist[x] /\ dist[y] <= dist[u] /\ dist'[y] = dist[y]
      BY <1>1, <1>2, <1>6, <2>2 DEF DijkstraInv, Tree
    <3>2. CASE x = v /\ Shorter
      BY <1>2, <1>3, <1>4, <3>1, <3>2, Weights
    <3>3. CASE ~(x = v /\ Shorter)
      BY <1>4, <3>1, <3>3
    <3>4. QED
      BY <3>2, <3>3
  <2>3. ASSUME NEW x \in Vertices \ {src}, dist'[x] # INT_MAX
        PROVE  \E y \in Vertices \ {x} : sptSet[y] /\ Via(y, x)'
    <3>1. CASE x = v /\ Shorter
      <4>1. PICK y \in Vertices : y = u /\ sptSet[y]
        BY <1>2
      <4>2. y # x /\ graph[y][x] # 0 /\ dist[y] # INT_MAX /\ dist'[y] = dist[y]
        BY <1>6, <3>1, <4>1 DEF Shorter
      <4>3. Via(y, x)'
        BY <1>4, <3>1, <4>1, <4>2 DEF Via
      <4>4. QED
        BY <4>1, <4>2, <4>3
    <3>2. CASE ~(x = v /\ Shorter)
      <4>1. dist'[x] = dist[x]
        BY <1>4, <3>2
      <4>2. PICK y \in Vertices \ {x} : sptSet[y] /\ Via(y, x)
        BY <1>1, <2>3, <4>1 DEF DijkstraInv, Tree
      <4>3. Via(y, x)'
        BY <1>6, <4>1, <4>2 DEF Via
      <4>4. QED
        BY <4>2, <4>3
    <3>3. QED
      BY <3>1, <3>2
  <2>4. ASSUME NEW y \in Vertices, NEW x \in Vertices,
               Looked(y, x)', graph[y][x] # 0, dist'[y] # INT_MAX
        PROVE  dist'[x] <= dist'[y] + graph[y][x]
    <3>1. sptSet[y] /\ dist'[y] = dist[y] /\ (y = u => x < v' \/ sptSet[x])
      BY <1>1, <1>6, <2>4 DEF Looked
    <3>2. CASE Looked(y, x)
      <4>1. dist[x] <= dist[y] + graph[y][x]
        BY <1>1, <2>4, <3>1, <3>2 DEF DijkstraInv, Tree
      <4>2. QED
        BY <1>3, <1>5, <3>1, <4>1, Weights
    <3>3. CASE ~Looked(y, x)
      <4>1. y = u /\ ~(x < v) /\ ~sptSet[x] /\ x < v'
        BY <1>1, <3>1, <3>3 DEF Looked
      <4>2. x = v
        BY <1>1, <4>1 DEF Vertices
      <4>3. CASE Shorter
        BY <1>3, <1>4, <3>1, <4>1, <4>2, <4>3, Weights
      <4>4. CASE ~Shorter
        <5>1. ~(dist[u] + graph[u][v] < dist[v])
          BY <2>4, <3>1, <4>1, <4>2, <4>4 DEF Shorter
        <5>2. QED
          BY <1>2, <1>3, <1>4, <3>1, <4>1, <4>2, <4>4, <5>1, Weights
      <4>5. QED
        BY <4>3, <4>4
    <3>4. QED
      BY <3>2, <3>3
  <2>5. QED
    BY <1>1, <2>1, <2>2, <2>3, <2>4 DEF Tree
<1>10. Initialized' /\ Nearest'
  BY <1>1 DEF Initialized, Nearest
<1>11. Farthest'
  BY <1>1, <1>2, <1>6 DEF Farthest
<1>12. QED
  BY <1>7, <1>8, <1>9, <1>10, <1>11 DEF DijkstraInv

LEMMA EndRelaxStep == DijkstraInv /\ EndRelax => DijkstraInv'
<1> SUFFICES ASSUME DijkstraInv, EndRelax
             PROVE  DijkstraInv'
  OBVIOUS
<1>1. UNCHANGED <<dist, sptSet, v>> /\ atD = "relax" /\ atD' = "count" /\ count' = count + 1
  BY DEF EndRelax
<1>2. Tree' /\ Marked' = Marked
  <2>1. \A x \in Vertices : x < v
    BY Weights DEF DijkstraInv, DijkstraType, EndRelax, Vertices
  <2>2. \A y, x \in Vertices : Looked(y, x)' => Looked(y, x)
    BY <1>1, <2>1 DEF Looked
  <2>3. QED
    BY <1>1, <2>2, SameTree
<1>3. DijkstraType' /\ RoundsMark'
  BY <1>1, <1>2 DEF DijkstraInv, DijkstraType, RoundsMark
<1>4. Initialized' /\ Nearest' /\ Farthest'
  BY <1>1 DEF Initialized, Nearest, Farthest
<1>5. QED
  BY <1>2, <1>3, <1>4 DEF DijkstraInv

LEMMA PrintStep == DijkstraInv /\ (StartPrint \/ PrintVertex \/ EndPrint) => DijkstraInv'
<1> SUFFICES ASSUME DijkstraInv, StartPrint \/ PrintVertex \/ EndPrint
             PROVE  DijkstraInv'
  OBVIOUS
<1>1. /\ UNCHANGED <<dist, sptSet, count>> /\ v' \in Nat
      /\ atD \in {"count", "print"} /\ atD' \in {"print", "done"}
      /\ atD = "count" => count >= V - 1
  BY DEF DijkstraInv, DijkstraType, StartPrint, PrintVertex, EndPrint
<1>2. Tree' /\ Marked' = Marked
  <2>1. \A y, x \in Vertices : Looked(y, x)' => Looked(y, x)
    BY <1>1 DEF Looked
  <2>2. QED
    BY <1>1, <2>1, SameTree
<1>3. DijkstraType' /\ RoundsMark'
  BY <1>1, <1>2 DEF DijkstraInv, DijkstraType, RoundsMark
<1>4. Initialized' /\ Nearest' /\ Farthest'
  BY <1>1 DEF Initialized, Nearest, Farthest
<1>5. QED
  BY <1>2, <1>3, <1>4 DEF DijkstraInv

LEMMA DijkstraInvStep == DijkstraInv /\ [DijkstraNext]_dijkstra => DijkstraInv'
<1>1. ASSUME DijkstraInv, UNCHANGED dijkstra
      PROVE  DijkstraInv'
  BY <1>1 DEF dijkstra, DijkstraInv, DijkstraType, RoundsMark, Marked, Initialized,
     Tree, Looked, Via, Nearest, Farthest, u
<1>2. QED
  BY <1>1, InitVertexStep, EndInitStep, StartSearchStep, ExamineStep, MarkVertexStep,
     RelaxStep, EndRelaxStep, PrintStep DEF DijkstraNext

\* At the end at most one vertex is not marked.
LEMMA OneLeft ==
  ASSUME DijkstraInv, atD \in {"print", "done"},
         NEW x \in Vertices, NEW y \in Vertices, ~sptSet[x], ~sptSet[y]
  PROVE  x = y
<1>1. SUFFICES ASSUME x # y
               PROVE  FALSE
  OBVIOUS
<1>2. DEFINE others == (Vertices \ {x}) \ {y}
<1>3. IsFiniteSet(others) /\ Cardinality(others) = V - 2
  <2>1. IsFiniteSet(Vertices \ {x}) /\ Cardinality(Vertices \ {x}) = V - 1
    BY MarkedFinite, FS_RemoveElement
  <2>2. y \in Vertices \ {x}
    BY <1>1
  <2>3. IsFiniteSet(others) /\ Cardinality(others) = (V - 1) - 1
    BY <2>1, <2>2, FS_RemoveElement
  <2>4. QED
    BY <2>3, Weights
<1>4. Marked \subseteq others
  BY DEF Marked
<1>5. Cardinality(Marked) <= V - 2
  BY <1>3, <1>4, FS_Subset
<1>6. Cardinality(Marked) >= V - 1 /\ Cardinality(Marked) \in Nat
  BY MarkedFinite, FS_CardinalityType DEF DijkstraInv, RoundsMark
<1>7. QED
  BY <1>5, <1>6, Weights

\* Dijkstra's algorithm as logs5.cpp has it finds the shortest paths, for every
\* number of vertices and every graph whose weights are not negative and whose sums fit into an int.
THEOREM ShortestPathsFound == DijkstraSpec => []ShortestPaths
<1>1. ASSUME DijkstraInv, atD \in {"print", "done"}
      PROVE  /\ dist[src] = 0
             /\ \A x \in Vertices \ {src} :
                  dist[x] # INT_MAX => \E y \in Vertices \ {x} : Via(y, x)
  BY <1>1 DEF DijkstraInv, Tree
<1>2. ASSUME DijkstraInv, atD \in {"print", "done"},
             NEW x \in Vertices, NEW y \in Vertices,
             graph[y][x] # 0, dist[y] # INT_MAX
      PROVE  dist[x] <= dist[y] + graph[y][x]
  <2>1. dist[x] \in Nat /\ dist[y] \in Nat /\ graph[y][x] \in Nat
    BY IntMax, <1>2, Weights DEF DijkstraInv, DijkstraType
  <2>2. CASE sptSet[y]
    <3>1. Looked(y, x)
      BY <1>2, <2>2 DEF Looked
    <3>2. QED
      BY <1>2, <3>1 DEF DijkstraInv, Tree
  <2>3. CASE ~sptSet[y] /\ sptSet[x]
    <3>1. dist[x] <= dist[y]
      BY <1>2, <2>3 DEF DijkstraInv, Tree
    <3>2. QED
      BY <2>1, <3>1
  <2>4. CASE ~sptSet[y] /\ ~sptSet[x]
    <3>1. x = y
      BY <1>2, <2>4, OneLeft
    <3>2. QED
      BY <2>1, <3>1
  <2>5. QED
    BY <2>2, <2>3, <2>4
<1>3. DijkstraInv => ShortestPaths
  BY <1>1, <1>2 DEF ShortestPaths
<1>4. QED
  BY <1>3, DijkstraInvInit, DijkstraInvStep, PTL DEF DijkstraSpec
-----------------------------------------------------------------------------
(***************************************************************************)
(* logs5 adds ints.  Every round of the main loop can add one edge to the  *)
(* paths, so the longest distance after so many rounds is known.           *)
(***************************************************************************)
Heaviest == INT_MAX \div V

Bounded ==
  /\ atD \in {"count", "find"} =>
       \A x \in Vertices : dist[x] # INT_MAX => dist[x] <= count * Heaviest
  /\ atD = "relax" =>
       /\ \A x \in Vertices : dist[x] # INT_MAX => dist[x] <= (count + 1) * Heaviest
       /\ dist[u] # INT_MAX => dist[u] <= count * Heaviest

\* Whenever logs5.cpp:77 adds an edge to a distance the sum is an int, and not
\* the one that stands for a vertex that is out of reach.
SumsFit ==
  atD = "relax" /\ v < V /\ ~sptSet[v] /\ graph[u][v] # 0 /\ dist[u] # INT_MAX
    => dist[u] + graph[u][v] < INT_MAX

LEMMA HeaviestEdge ==
  /\ Heaviest \in Nat
  /\ V * Heaviest <= INT_MAX
  /\ \A y, x \in Vertices : graph[y][x] <= Heaviest
<1>1. INT_MAX \in Nat /\ V \in Nat \ {0}
  BY IntMax, Weights
<1>2. \A y, x \in Vertices : graph[y][x] \in 0 .. Heaviest
  BY DijkstraAssumption DEF Heaviest
<1>3. \A m \in Nat, d \in Nat \ {0} : m \div d \in Nat /\ d * (m \div d) <= m
  BY SMT
<1>4. QED
  BY <1>1, <1>2, <1>3 DEF Heaviest

\* Multiples of the heaviest weight.
LEMMA Multiples ==
  /\ \A m \in Nat : m * Heaviest \in Nat /\ (m + 1) * Heaviest = m * Heaviest + Heaviest
  /\ \A m \in Nat : m < V => (m + 1) * Heaviest <= INT_MAX
<1>1. \A m, h \in Nat : m * h \in Nat /\ (m + 1) * h = m * h + h
  BY SMT
<1>2. \A m, h, w \in Nat : m < w => (m + 1) * h <= w * h
  BY SMT
<1>3. QED
  BY IntMax, Weights, HeaviestEdge, <1>1, <1>2

LEMMA BoundedSum ==
  ASSUME DijkstraInv, Bounded, atD = "relax", v \in Vertices, graph[u][v] # 0,
         dist[u] # INT_MAX
  PROVE  /\ dist[u] + graph[u][v] <= (count + 1) * Heaviest
         /\ dist[u] + graph[u][v] < INT_MAX
<1>1. u \in Vertices /\ count \in Nat /\ count + 1 < V /\ count + 1 \in Nat /\ dist[u] \in Nat
  <2>1. u \in Vertices /\ count \in Nat /\ count < V - 1
    BY DEF DijkstraInv, DijkstraType, RoundsMark, Farthest
  <2>2. dist[u] \in Nat
    BY IntMax, <2>1 DEF DijkstraInv, DijkstraType
  <2>3. QED
    BY Weights, <2>1, <2>2
<1>2. graph[u][v] \in Nat \ {0} /\ graph[u][v] <= Heaviest /\ Heaviest \in Nat
  BY <1>1, Weights, HeaviestEdge
<1>3. dist[u] <= count * Heaviest /\ count * Heaviest \in Nat
  BY <1>1, Multiples DEF Bounded
<1>4. (count + 1) * Heaviest = count * Heaviest + Heaviest
  BY <1>1, Multiples
<1>5. (count + 1) * Heaviest \in Nat /\ (count + 1) * Heaviest + Heaviest <= INT_MAX
  <2>1. ((count + 1) + 1) * Heaviest = (count + 1) * Heaviest + Heaviest
    BY <1>1, Multiples
  <2>2. ((count + 1) + 1) * Heaviest <= INT_MAX /\ (count + 1) * Heaviest \in Nat
    BY <1>1, Multiples
  <2>3. QED
    BY <2>1, <2>2
<1>6. dist[u] + graph[u][v] <= (count + 1) * Heaviest
  BY <1>1, <1>2, <1>3, <1>4
<1>7. QED
  BY IntMax, <1>1, <1>2, <1>5, <1>6

LEMMA BoundedStep ==
  DijkstraInv /\ Bounded /\ [DijkstraNext]_dijkstra => Bounded'
<1> SUFFICES ASSUME DijkstraInv, Bounded, [DijkstraNext]_dijkstra
             PROVE  Bounded'
  OBVIOUS
<1>1. /\ Heaviest \in Nat /\ INT_MAX \in Nat
      /\ \A x \in Vertices : dist[x] \in Nat
      /\ count \in Nat
  BY IntMax, HeaviestEdge DEF DijkstraInv, DijkstraType
<1>2. CASE EndInit
  <2>1. dist' = [dist EXCEPT ![src] = 0] /\ atD' = "count" /\ count' = 0 /\ atD = "init"
        /\ v >= V
    BY <1>2 DEF EndInit
  <2>2. \A x \in Vertices \ {src} : dist'[x] = INT_MAX
    BY <2>1, Weights DEF DijkstraInv, DijkstraType, Initialized, Vertices
  <2>3. dist'[src] = 0 /\ 0 * Heaviest \in Nat
    BY <2>1, Weights, Multiples DEF DijkstraInv, DijkstraType
  <2>4. \A x \in Vertices : dist'[x] # INT_MAX => dist'[x] <= 0 * Heaviest
    BY <2>2, <2>3
  <2>5. QED
    BY <2>1, <2>4 DEF Bounded
<1>3. CASE MarkVertex
  <2>1. /\ atD = "find" /\ atD' = "relax" /\ dist' = dist /\ count' = count
        /\ u' = u /\ u = min_index
    BY <1>3 DEF MarkVertex, u
  <2>2. u \in Vertices
    BY <1>3, <2>1, SearchFinds DEF MarkVertex
  <2>3. \A x \in Vertices : dist[x] # INT_MAX => dist[x] <= count * Heaviest
    BY <2>1 DEF Bounded
  <2>4. count * Heaviest \in Nat /\ (count + 1) * Heaviest = count * Heaviest + Heaviest
    BY <1>1, Multiples
  <2>5. \A x \in Vertices : dist[x] # INT_MAX => dist[x] <= (count + 1) * Heaviest
    BY <1>1, <2>3, <2>4
  <2>6. QED
    BY <2>1, <2>2, <2>3, <2>5 DEF Bounded
<1>4. CASE Relax
  <2>1. /\ atD = "relax" /\ atD' = "relax" /\ v \in Vertices /\ u \in Vertices /\ sptSet[u]
        /\ count' = count /\ u' = u
    BY <1>4, Weights DEF DijkstraInv, DijkstraType, Farthest, Relax, Vertices, u
  <2>2. CASE Shorter
    <3>1. dist' = [dist EXCEPT ![v] = dist[u] + graph[u][v]] /\ ~sptSet[v]
      BY <1>4, <2>2 DEF Relax, Shorter
    <3>2. dist[u] + graph[u][v] <= (count + 1) * Heaviest
      BY <2>1, <2>2, BoundedSum DEF Shorter
    <3>3. /\ dist'[v] <= (count + 1) * Heaviest
          /\ dist'[u] = dist[u]
          /\ \A x \in Vertices \ {v} : dist'[x] = dist[x]
      BY <2>1, <3>1, <3>2 DEF DijkstraInv, DijkstraType
    <3>4. QED
      BY <2>1, <3>3 DEF Bounded
  <2>3. CASE ~Shorter
    <3>1. dist' = dist
      BY <1>4, <2>3 DEF Relax
    <3>2. QED
      BY <2>1, <3>1 DEF Bounded
  <2>4. QED
    BY <2>2, <2>3
<1>5. CASE InitVertex \/ StartSearch \/ Examine \/ EndRelax \/ StartPrint \/ PrintVertex \/ EndPrint
  BY <1>5 DEF InitVertex, StartSearch, Examine, EndRelax, StartPrint, PrintVertex, EndPrint, Bounded
<1>6. CASE UNCHANGED dijkstra
  BY <1>6 DEF dijkstra, Bounded, u
<1>7. QED
  BY <1>2, <1>3, <1>4, <1>5, <1>6 DEF DijkstraNext

\* No addition of logs5 overflows, and no distance of a vertex within reach is
\* taken for that of one that is not, for every graph whose weights are at most
\* INT_MAX \div V: the unbounded integers of the model are the ints of the code.
THEOREM NoOverflow == DijkstraSpec => []SumsFit
<1>1. DijkstraInit => Bounded
  BY DEF DijkstraInit, Bounded
<1>2. DijkstraInv /\ Bounded => SumsFit
  <2> SUFFICES ASSUME DijkstraInv, Bounded, atD = "relax", v < V, graph[u][v] # 0,
                      dist[u] # INT_MAX
               PROVE  dist[u] + graph[u][v] < INT_MAX
    BY DEF SumsFit
  <2>1. v \in Vertices
    BY Weights DEF DijkstraInv, DijkstraType, Vertices
  <2>2. QED
    BY <2>1, BoundedSum
<1>3. QED
  BY <1>1, <1>2, BoundedStep, DijkstraInvInit, DijkstraInvStep, PTL DEF DijkstraSpec
-----------------------------------------------------------------------------
(***************************************************************************)
(* logs5 ends: the rounds of the main loop all have the same length.       *)
(***************************************************************************)
\* The loop variables stay in their ranges.
Loops ==
  /\ atD = "init"  => v <= V
  /\ atD = "count" => count <= V - 1
  /\ atD \in {"find", "relax", "print"} => v <= V

LEMMA LoopsInit == DijkstraInit => Loops
BY Weights, SMT DEF DijkstraInit, Loops

LEMMA LoopsStep == DijkstraInv /\ Loops /\ [DijkstraNext]_dijkstra => Loops'
<1> SUFFICES ASSUME DijkstraInv, Loops, [DijkstraNext]_dijkstra PROVE Loops'
  OBVIOUS
<1>1. V \in Nat \ {0} /\ count \in Nat /\ v \in Nat
  BY Weights DEF DijkstraInv, DijkstraType
<1>2. CASE InitVertex \/ EndInit
  BY <1>1, <1>2, SMT DEF Loops, InitVertex, EndInit
<1>3. CASE StartSearch \/ Examine \/ MarkVertex
  BY <1>1, <1>3, SMT DEF Loops, StartSearch, Examine, MarkVertex
<1>4. CASE Relax
  BY <1>1, <1>4, SMT DEF Loops, Relax
<1>5. CASE EndRelax
  <2>1. count < V - 1
    BY <1>5 DEF EndRelax, DijkstraInv, RoundsMark
  <2>2. QED
    BY <1>1, <1>5, <2>1, SMT DEF Loops, EndRelax
<1>6. CASE StartPrint \/ PrintVertex \/ EndPrint
  BY <1>1, <1>6, SMT DEF Loops, StartPrint, PrintVertex, EndPrint
<1>7. CASE UNCHANGED dijkstra
  BY <1>7 DEF Loops, dijkstra
<1>8. QED
  BY <1>2, <1>3, <1>4, <1>5, <1>6, <1>7 DEF DijkstraNext

\* Every step of Dijkstra's algorithm is one step less.
LEMMA DijkstraCounts ==
  /\ DijkstraInv /\ Loops => DijkstraLeft \in Nat /\ (DijkstraLeft = 0 <=> atD = "done")
  /\ DijkstraInv /\ Loops /\ DijkstraNext => DijkstraLeft' = DijkstraLeft - 1
<1> DEFINE times(m) == m * RoundSteps
<1>1. /\ RoundSteps \in Nat /\ PrintSteps \in Nat
      /\ RoundSteps = 2 * V + 3 /\ PrintSteps = V + 2
  BY Weights, SMT DEF RoundSteps, PrintSteps
<1>2. \A m \in Nat : times(m) \in Nat /\ times(m + 1) = times(m) + RoundSteps
  BY <1>1, SMT
<1>3. times(0) = 0
  BY <1>1, SMT
<1>4. DijkstraLeft =
        CASE atD = "init"  -> (V - v) + 1 + times(V - 1) + PrintSteps
          [] atD = "count" -> times(V - 1 - count) + PrintSteps
          [] atD = "find"  -> (V - v) + V + 2 + times(V - 2 - count) + PrintSteps
          [] atD = "relax" -> (V - v) + 1 + times(V - 2 - count) + PrintSteps
          [] atD = "print" -> (V - v) + 1
          [] atD = "done"  -> 0
  BY DEF DijkstraLeft
<1>5. DijkstraLeft' =
        CASE atD' = "init"  -> (V - v') + 1 + times(V - 1) + PrintSteps
          [] atD' = "count" -> times(V - 1 - count') + PrintSteps
          [] atD' = "find"  -> (V - v') + V + 2 + times(V - 2 - count') + PrintSteps
          [] atD' = "relax" -> (V - v') + 1 + times(V - 2 - count') + PrintSteps
          [] atD' = "print" -> (V - v') + 1
          [] atD' = "done"  -> 0
  BY DEF DijkstraLeft, RoundSteps, PrintSteps
<1> HIDE DEF times
<1>6. ASSUME DijkstraInv, Loops
      PROVE  DijkstraLeft \in Nat /\ (DijkstraLeft = 0 <=> atD = "done")
  <2>1. /\ V \in Nat \ {0} /\ count \in Nat /\ v \in Nat
        /\ atD \in {"init", "count", "find", "relax", "print", "done"}
    BY <1>6, Weights DEF DijkstraInv, DijkstraType
  <2>2. atD \in {"find", "relax"} => count < V - 1
    BY <1>6 DEF DijkstraInv, RoundsMark
  <2>3. /\ V - 1 \in Nat /\ times(V - 1) \in Nat
        /\ atD = "count" => times(V - 1 - count) \in Nat
        /\ atD \in {"find", "relax"} => times(V - 2 - count) \in Nat
    BY <1>2, <1>6, <2>1, <2>2, SMT DEF Loops
  <2>4. CASE atD \in {"init", "count", "print", "done"}
    BY <1>1, <1>4, <1>6, <2>1, <2>3, <2>4, SMT DEF Loops
  <2>5. CASE atD \in {"find", "relax"}
    BY <1>1, <1>4, <1>6, <2>1, <2>3, <2>5, SMT DEF Loops
  <2>6. QED
    BY <2>1, <2>4, <2>5
<1>7. ASSUME DijkstraInv, Loops, DijkstraNext
      PROVE  DijkstraLeft' = DijkstraLeft - 1
  <2>1. V \in Nat \ {0} /\ count \in Nat /\ v \in Nat
    BY <1>7, Weights DEF DijkstraInv, DijkstraType
  <2>2. atD \in {"find", "relax"} => count < V - 1
    BY <1>7 DEF DijkstraInv, RoundsMark
  <2>3. V - 1 \in Nat /\ times(V - 1) \in Nat
    BY <1>2, <2>1, SMT
  <2>4. CASE InitVertex
    BY <1>1, <1>4, <1>5, <2>1, <2>3, <2>4, SMT DEF InitVertex
  <2>5. CASE EndInit
    <3>1. v = V /\ V - 1 - 0 = V - 1
      BY <1>7, <2>1, <2>5, SMT DEF Loops, EndInit
    <3>2. QED
      BY <1>1, <1>4, <1>5, <2>1, <2>3, <2>5, <3>1, SMT DEF EndInit
  <2>6. CASE StartSearch
    <3>1. V - 2 - count \in Nat /\ V - 1 - count = (V - 2 - count) + 1
      BY <2>1, <2>6, SMT DEF StartSearch
    <3>2. /\ times(V - 2 - count) \in Nat
          /\ times(V - 1 - count) = times(V - 2 - count) + RoundSteps
      BY <1>2, <3>1
    <3>3. QED
      BY <1>1, <1>4, <1>5, <2>1, <2>6, <3>2, SMT DEF StartSearch
  <2>7. CASE Examine \/ MarkVertex \/ Relax
    <3>1. times(V - 2 - count) \in Nat
      BY <1>2, <2>1, <2>2, <2>7, SMT DEF Examine, MarkVertex, Relax
    <3>2. CASE Examine
      BY <1>1, <1>4, <1>5, <2>1, <3>1, <3>2, SMT DEF Examine
    <3>3. CASE MarkVertex
      <4>1. v = V
        BY <1>7, <2>1, <3>3, SMT DEF Loops, MarkVertex
      <4>2. QED
        BY <1>1, <1>4, <1>5, <2>1, <3>1, <3>3, <4>1, SMT DEF MarkVertex
    <3>4. CASE Relax
      BY <1>1, <1>4, <1>5, <2>1, <3>1, <3>4, SMT DEF Relax
    <3>5. QED
      BY <2>7, <3>2, <3>3, <3>4
  <2>8. CASE EndRelax
    <3>1. v = V /\ V - 2 - count \in Nat /\ V - 1 - (count + 1) = V - 2 - count
      BY <1>7, <2>1, <2>2, <2>8, SMT DEF Loops, EndRelax
    <3>2. times(V - 2 - count) \in Nat
      BY <1>2, <3>1
    <3>3. QED
      BY <1>1, <1>4, <1>5, <2>1, <2>8, <3>1, <3>2, SMT DEF EndRelax
  <2>9. CASE StartPrint
    <3>1. V - 1 - count = 0
      BY <1>7, <2>1, <2>9, SMT DEF Loops, StartPrint
    <3>2. QED
      BY <1>1, <1>3, <1>4, <1>5, <2>1, <2>9, <3>1, SMT DEF StartPrint
  <2>10. CASE PrintVertex
    BY <1>4, <1>5, <2>1, <2>10, SMT DEF PrintVertex
  <2>11. CASE EndPrint
    <3>1. v = V
      BY <1>7, <2>1, <2>11, SMT DEF Loops, EndPrint
    <3>2. QED
      BY <1>4, <1>5, <2>1, <2>11, <3>1, SMT DEF EndPrint
  <2>12. QED
    BY <1>7, <2>4, <2>5, <2>6, <2>7, <2>8, <2>9, <2>10, <2>11 DEF DijkstraNext
<1>8. QED
  BY <1>6, <1>7
-----------------------------------------------------------------------------
(***************************************************************************)
(* matrix3: the entries of C are complete up to the one that the inner     *)
(* loop works on, that one is the sum up to k, and those behind it are     *)
(* still 0.                                                                *)
(***************************************************************************)
Index == 0 .. N - 1

\* A set of natural numbers with an element has a first one.
LEMMA FirstNumber ==
  ASSUME NEW T \in SUBSET Nat, T # {}
  PROVE  \E x \in T : x # 0 => x - 1 \notin T
<1> DEFINE Less == {pair \in Nat \X Nat : pair[1] < pair[2]}
<1>1. IsWellFoundedOn(Less, Nat)
  BY NatLessThanWellFounded DEF OpToRel
<1>2. \A x, y \in Nat : x < y => <<x, y>> \in Less
  OBVIOUS
<1> HIDE DEF Less
<1>3. PICK x \in T : \A y \in T : ~ (<<y, x>> \in Less)
  BY <1>1, WFMin
<1>4. x # 0 /\ x - 1 \in T => <<x - 1, x>> \in Less
  BY <1>2
<1>5. QED
  BY <1>3, <1>4

\* f holds the sums of the products of row r and column c up to m.
SumsUpTo(f, r, c, m) ==
  f = [x \in 0 .. m |-> IF x = 0 THEN 0 ELSE f[x - 1] + A(r, x - 1) * B(x - 1, c)]

LEMMA EntriesAreNumbers ==
  ASSUME NEW r \in Nat, NEW c \in Nat, NEW m \in Nat
  PROVE  A(r, m) * B(m, c) \in Int
<1>1. A(r, m) \in Int
  BY DEF A
<1>2. B(m, c) \in Int
  <2>1. m * c \in Nat
    OBVIOUS
  <2>2. QED
    BY <2>1 DEF B
<1>3. QED
  BY <1>1, <1>2

\* The sums exist, up to every m: a first m without them would be behind one
\* that has them.
LEMMA SumsExist ==
  ASSUME NEW r \in Nat, NEW c \in Nat, NEW m \in Nat
  PROVE  \E f \in [0 .. m -> Int] : SumsUpTo(f, r, c, m)
<1> DEFINE T == {x \in Nat : ~ \E f \in [0 .. x -> Int] : SumsUpTo(f, r, c, x)}
<1>1. SUFFICES ASSUME T # {} PROVE FALSE
  OBVIOUS
<1>2. PICK x \in T : x # 0 => x - 1 \notin T
  BY <1>1, FirstNumber
<1>3. CASE x = 0
  <2>1. [y \in 0 .. 0 |-> 0] \in [0 .. x -> Int] /\ SumsUpTo([y \in 0 .. 0 |-> 0], r, c, x)
    BY <1>3 DEF SumsUpTo
  <2>2. QED
    BY <2>1
<1>4. CASE x # 0
  <2>1. x - 1 \in Nat
    BY <1>4
  <2>2. PICK f \in [0 .. x - 1 -> Int] : SumsUpTo(f, r, c, x - 1)
    BY <1>2, <1>4, <2>1
  <2> DEFINE next == f[x - 1] + A(r, x - 1) * B(x - 1, c)
             g == [y \in 0 .. x |-> IF y = x THEN next ELSE f[y]]
  <2>3. next \in Int
    <3>1. f[x - 1] \in Int
      BY <2>1
    <3>2. A(r, x - 1) * B(x - 1, c) \in Int
      BY <2>1, EntriesAreNumbers
    <3>3. QED
      BY <3>1, <3>2
  <2>4. g \in [0 .. x -> Int]
    BY <2>1, <2>3
  <2>5. \A y \in 0 .. x : g[y] = IF y = 0 THEN 0 ELSE g[y - 1] + A(r, y - 1) * B(y - 1, c)
    <3>1. \A y \in 0 .. x - 1 :
            f[y] = IF y = 0 THEN 0 ELSE f[y - 1] + A(r, y - 1) * B(y - 1, c)
      BY <2>2 DEF SumsUpTo
    <3>2. QED
      BY <1>4, <2>1, <3>1
  <2>6. SumsUpTo(g, r, c, x)
    BY <2>4, <2>5 DEF SumsUpTo
  <2>7. QED
    BY <2>4, <2>6
<1>5. QED
  BY <1>3, <1>4

\* What the recursion of Sums computes.
LEMMA SumsUnfold ==
  ASSUME NEW r \in Nat, NEW c \in Nat
  PROVE  /\ Sums(r, c)[0] = 0
         /\ \A m \in 0 .. N - 1 :
              Sums(r, c)[m + 1] = Sums(r, c)[m] + A(r, m) * B(m, c)
<1>1. \E f : SumsUpTo(f, r, c, N)
  BY SumsExist, MatrixAssumption
<1>2. Sums(r, c) = CHOOSE f : SumsUpTo(f, r, c, N)
  BY DEF Sums, SumsUpTo
<1>3. SumsUpTo(Sums(r, c), r, c, N)
  BY <1>1, <1>2
<1>4. \A x \in 0 .. N :
        Sums(r, c)[x] = IF x = 0 THEN 0 ELSE Sums(r, c)[x - 1] + A(r, x - 1) * B(x - 1, c)
  BY <1>3 DEF SumsUpTo
<1>5. QED
  BY <1>4, MatrixAssumption

Finished(r, c) == r < row \/ (r = row /\ c < col)

MatrixInv ==
  /\ row \in Nat /\ col \in Nat /\ k \in Nat
  /\ C \in [Index -> [Index -> Int]]
  /\ atM \in {"initRow", "initCol", "row", "col", "inner", "done"}
  /\ atM = "initRow" =>
       row <= N /\ \A r, c \in Index : r < row => C[r][c] = 0
  /\ atM = "initCol" =>
       row < N /\ col <= N /\ \A r, c \in Index : Finished(r, c) => C[r][c] = 0
  /\ atM = "row" =>
       row <= N /\ \A r, c \in Index : C[r][c] = IF r < row THEN Entry(r, c) ELSE 0
  /\ atM = "col" =>
       /\ row < N /\ col <= N
       /\ \A r, c \in Index : C[r][c] = IF Finished(r, c) THEN Entry(r, c) ELSE 0
  /\ atM = "inner" =>
       /\ row < N /\ col < N /\ k <= N
       /\ \A r, c \in Index :
            C[r][c] = IF Finished(r, c) THEN Entry(r, c)
                      ELSE IF r = row /\ c = col THEN Sums(r, c)[k] ELSE 0
  /\ atM = "done" => \A r, c \in Index : C[r][c] = Entry(r, c)

LEMMA MatrixInvInit == MatrixInit => MatrixInv
BY MatrixAssumption DEF MatrixInit, MatrixInv, Index

\* The entry that a step writes, and the others.
LEMMA WriteEntry ==
  ASSUME C \in [Index -> [Index -> Int]], row \in Index, col \in Index,
         NEW value \in Int, C' = [C EXCEPT ![row][col] = value]
  PROVE  /\ C' \in [Index -> [Index -> Int]]
         /\ \A r, c \in Index :
              C'[r][c] = IF r = row /\ c = col THEN value ELSE C[r][c]
OBVIOUS

LEMMA InitElementStep == MatrixInv /\ InitElement => MatrixInv'
<1> SUFFICES ASSUME MatrixInv, InitElement
             PROVE  MatrixInv'
  OBVIOUS
<1>1. row \in Index /\ col \in Index
  BY MatrixAssumption DEF MatrixInv, InitElement, Index
<1>2. /\ C' \in [Index -> [Index -> Int]]
      /\ \A r, c \in Index : C'[r][c] = IF r = row /\ c = col THEN 0 ELSE C[r][c]
  BY <1>1, WriteEntry DEF MatrixInv, InitElement
<1>3. \A r, c \in Index : Finished(r, c)' <=> Finished(r, c) \/ (r = row /\ c = col)
  BY DEF MatrixInv, InitElement, Finished, Index
<1>4. /\ row' = row /\ col' = col + 1 /\ k' = k /\ atM = "initCol" /\ atM' = "initCol"
      /\ row < N /\ col' \in Nat /\ col' <= N
  BY MatrixAssumption DEF MatrixInv, InitElement
<1>5. \A r, c \in Index : Finished(r, c)' => C'[r][c] = 0
  BY <1>2, <1>3, <1>4 DEF MatrixInv
<1>6. QED
  BY <1>2, <1>4, <1>5 DEF MatrixInv

LEMMA AccumulateStep == MatrixInv /\ Accumulate => MatrixInv'
<1> SUFFICES ASSUME MatrixInv, Accumulate
             PROVE  MatrixInv'
  OBVIOUS
<1>1. row \in Index /\ col \in Index /\ k \in Index /\ ~Finished(row, col)
  BY MatrixAssumption DEF MatrixInv, Accumulate, Index, Finished
<1>2. C[row][col] = Sums(row, col)[k] /\ C[row][col] \in Int
  BY <1>1 DEF MatrixInv, Accumulate
<1> DEFINE value == C[row][col] + Product(row, col, k)
<1>3. Product(row, col, k) = A(row, k) * B(k, col)
  BY DEF Product
<1>4. value \in Int
  <2>1. A(row, k) * B(k, col) \in Int
    BY <1>1, EntriesAreNumbers DEF Index
  <2>2. QED
    BY <1>2, <1>3, <2>1
<1>5. Sums(row, col)[k + 1] = value
  BY <1>1, <1>2, <1>3, SumsUnfold DEF Index
<1>6. C' = [C EXCEPT ![row][col] = value]
  BY <1>1 DEF MatrixInv, Accumulate
<1> HIDE DEF value
<1>7. /\ C' \in [Index -> [Index -> Int]]
      /\ \A r, c \in Index : C'[r][c] = IF r = row /\ c = col THEN value ELSE C[r][c]
  BY <1>1, <1>4, <1>6, WriteEntry DEF MatrixInv
<1>8. /\ row' = row /\ col' = col /\ k' = k + 1 /\ atM = "inner" /\ atM' = "inner"
      /\ k' \in Nat /\ k' <= N
  BY <1>1, MatrixAssumption DEF Accumulate, Index
<1>9. \A r, c \in Index :
        C'[r][c] = IF Finished(r, c) THEN Entry(r, c)
                   ELSE IF r = row /\ c = col THEN Sums(r, c)[k + 1] ELSE 0
  BY <1>1, <1>5, <1>7, <1>8 DEF MatrixInv
<1>10. QED
  BY <1>7, <1>8, <1>9 DEF MatrixInv, Finished

LEMMA EndElementStep == MatrixInv /\ EndElement => MatrixInv'
<1> SUFFICES ASSUME MatrixInv, EndElement
             PROVE  MatrixInv'
  OBVIOUS
<1>1. k = N /\ row < N /\ col < N
  BY MatrixAssumption DEF MatrixInv, EndElement
<1>2. \A r, c \in Index : Finished(r, c)' <=> Finished(r, c) \/ (r = row /\ c = col)
  BY DEF MatrixInv, EndElement, Finished, Index
<1>3. \A r, c \in Index : C'[r][c] = IF Finished(r, c)' THEN Entry(r, c) ELSE 0
  BY <1>1, <1>2 DEF MatrixInv, EndElement, Entry
<1>4. QED
  BY <1>1, <1>3, MatrixAssumption DEF MatrixInv, EndElement

LEMMA StartElementStep == MatrixInv /\ StartElement => MatrixInv'
<1> SUFFICES ASSUME MatrixInv, StartElement
             PROVE  MatrixInv'
  OBVIOUS
<1>1. row < N /\ col < N /\ row \in Index /\ col \in Index
  BY MatrixAssumption DEF MatrixInv, StartElement, Index
<1>2. Sums(row, col)[0] = 0
  BY <1>1, SumsUnfold DEF Index
<1>3. \A r, c \in Index : Finished(r, c)' <=> Finished(r, c)
  BY DEF StartElement, Finished
<1>4. \A r, c \in Index :
        C'[r][c] = IF Finished(r, c)' THEN Entry(r, c)
                   ELSE IF r = row' /\ c = col' THEN Sums(r, c)[k'] ELSE 0
  BY <1>2, <1>3 DEF MatrixInv, StartElement
<1>5. QED
  BY <1>1, <1>4, MatrixAssumption DEF MatrixInv, StartElement

\* The ends of the inner loops.
LEMMA EndRowStep == MatrixInv /\ (EndInitRow \/ EndRow) => MatrixInv'
<1> SUFFICES ASSUME MatrixInv, EndInitRow \/ EndRow
             PROVE  MatrixInv'
  OBVIOUS
<1>1. col = N /\ row < N /\ row' = row + 1 /\ C' = C
  BY MatrixAssumption DEF MatrixInv, EndInitRow, EndRow
<1>2. \A r, c \in Index : Finished(r, c) <=> r < row'
  BY <1>1, MatrixAssumption DEF MatrixInv, Finished, Index
<1>3. CASE EndInitRow
  BY <1>1, <1>2, <1>3, MatrixAssumption DEF MatrixInv, EndInitRow
<1>4. CASE EndRow
  BY <1>1, <1>2, <1>4, MatrixAssumption DEF MatrixInv, EndRow
<1>5. QED
  BY <1>3, <1>4

\* The tests of the outer loops.
LEMMA RowStep ==
  MatrixInv /\ (Row("initRow", "initCol", "row") \/ Row("row", "col", "done")) => MatrixInv'
<1> SUFFICES ASSUME MatrixInv,
                    Row("initRow", "initCol", "row") \/ Row("row", "col", "done")
             PROVE  MatrixInv'
  OBVIOUS
<1>1. CASE Row("initRow", "initCol", "row") /\ row < N
  BY <1>1, MatrixAssumption DEF MatrixInv, Row, Finished, Index
<1>2. CASE Row("initRow", "initCol", "row") /\ ~(row < N)
  BY <1>2, MatrixAssumption DEF MatrixInv, Row, Index
<1>3. CASE Row("row", "col", "done") /\ row < N
  <2>1. row' = row /\ col' = 0 /\ k' = k /\ C' = C /\ atM = "row" /\ atM' = "col"
    BY <1>3 DEF Row
  <2>2. \A r, c \in Index : Finished(r, c)' <=> r < row
    BY <2>1 DEF MatrixInv, Finished, Index
  <2>3. QED
    BY <1>3, <2>1, <2>2, MatrixAssumption DEF MatrixInv
<1>4. CASE Row("row", "col", "done") /\ ~(row < N)
  BY <1>4, MatrixAssumption DEF MatrixInv, Row, Index
<1>5. QED
  BY <1>1, <1>2, <1>3, <1>4

LEMMA MatrixInvStep == MatrixInv /\ [MatrixNext]_matrix => MatrixInv'
<1>1. ASSUME MatrixInv, UNCHANGED matrix
      PROVE  MatrixInv'
  BY <1>1 DEF matrix, MatrixInv, Finished
<1>2. QED
  BY <1>1, InitElementStep, AccumulateStep, EndElementStep, StartElementStep,
     EndRowStep, RowStep DEF MatrixNext

\* The three loops of matrix3 compute the product, for matrices of any size.
THEOREM MatrixProduct == MatrixSpec => []MatrixMultiplies
<1>1. MatrixInv => MatrixMultiplies
  BY MatrixAssumption DEF MatrixInv, MatrixMultiplies, Index
<1>2. QED
  BY <1>1, MatrixInvInit, MatrixInvStep, PTL DEF MatrixSpec

\* Every step of the multiplication is one step less.
LEMMA MatrixCounts ==
  /\ MatrixInv => MatrixLeft \in Nat /\ (MatrixLeft = 0 <=> atM = "done")
  /\ MatrixInv /\ MatrixNext => MatrixLeft' = MatrixLeft - 1
<1> DEFINE elements(m) == m * ElementSteps
           rows(m) == m * RowSteps
<1>1. /\ N \in Nat /\ ElementSteps \in Nat /\ RowSteps \in Nat
      /\ ElementSteps = N + 2 /\ RowSteps = elements(N) + 2
      /\ elements(N) \in Nat
  <2>1. N \in Nat /\ ElementSteps \in Nat /\ ElementSteps = N + 2
    BY MatrixAssumption, SMT DEF ElementSteps
  <2>2. N * ElementSteps \in Nat
    BY <2>1, SMT
  <2>3. QED
    BY <2>1, <2>2, SMT DEF RowSteps
<1>2. /\ \A m \in Nat : elements(m) \in Nat /\ elements(m + 1) = elements(m) + ElementSteps
      /\ elements(0) = 0
  BY <1>1, SMT
<1>3. /\ \A m \in Nat : rows(m) \in Nat /\ rows(m + 1) = rows(m) + RowSteps
      /\ rows(0) = 0
  BY <1>1, SMT
<1>4. MatrixLeft =
        CASE atM = "initRow" -> elements(N - row) + 1 + rows(N) + 1
          [] atM = "initCol" -> (N - col) + 1 + elements(N - row - 1) + 1 + rows(N) + 1
          [] atM = "row"     -> rows(N - row) + 1
          [] atM = "col"     -> elements(N - col) + 1 + rows(N - row - 1) + 1
          [] atM = "inner"   -> (N - k) + 1 + elements(N - col - 1) + 1
                                  + rows(N - row - 1) + 1
          [] atM = "done"    -> 0
  BY DEF MatrixLeft
<1>5. MatrixLeft' =
        CASE atM' = "initRow" -> elements(N - row') + 1 + rows(N) + 1
          [] atM' = "initCol" -> (N - col') + 1 + elements(N - row' - 1) + 1 + rows(N) + 1
          [] atM' = "row"     -> rows(N - row') + 1
          [] atM' = "col"     -> elements(N - col') + 1 + rows(N - row' - 1) + 1
          [] atM' = "inner"   -> (N - k') + 1 + elements(N - col' - 1) + 1
                                   + rows(N - row' - 1) + 1
          [] atM' = "done"    -> 0
  BY DEF MatrixLeft, RowSteps, ElementSteps
<1> HIDE DEF elements, rows
<1>6. ASSUME MatrixInv
      PROVE  /\ row \in Nat /\ col \in Nat /\ k \in Nat
             /\ atM \in {"initRow", "initCol", "row", "col", "inner", "done"}
             /\ atM \in {"initRow", "row"} => row <= N
             /\ atM \in {"initCol", "col"} => row < N /\ col <= N
             /\ atM = "inner" => row < N /\ col < N /\ k <= N
  BY <1>6 DEF MatrixInv
\* One row, or one element, less to go.
<1>7. ASSUME NEW x \in Nat, x < N
      PROVE  /\ N - x - 1 \in Nat /\ N - (x + 1) = N - x - 1
             /\ elements(N - x - 1) \in Nat /\ rows(N - x - 1) \in Nat
             /\ elements(N - x) = elements(N - x - 1) + ElementSteps
             /\ rows(N - x) = rows(N - x - 1) + RowSteps
  <2>1. N - x - 1 \in Nat /\ N - (x + 1) = N - x - 1 /\ N - x = (N - x - 1) + 1
    BY <1>1, <1>7, SMT
  <2>2. QED
    BY <1>2, <1>3, <2>1
<1>8. ASSUME MatrixInv
      PROVE  MatrixLeft \in Nat /\ (MatrixLeft = 0 <=> atM = "done")
  <2>1. rows(N) \in Nat /\ elements(N) \in Nat
    BY <1>1, <1>3
  <2>2. CASE atM \in {"initRow", "row"}
    <3>1. elements(N - row) \in Nat /\ rows(N - row) \in Nat
      <4>1. N - row \in Nat
        BY <1>1, <1>6, <1>8, <2>2, SMT
      <4>2. QED
        BY <1>2, <1>3, <4>1
    <3>2. QED
      BY <1>4, <2>1, <2>2, <3>1, SMT
  <2>3. CASE atM = "initCol"
    <3>1. elements(N - row - 1) \in Nat /\ N - col \in Nat
      BY <1>1, <1>6, <1>7, <1>8, <2>3, SMT
    <3>2. QED
      BY <1>4, <2>1, <2>3, <3>1, SMT
  <2>4. CASE atM = "col"
    <3>1. rows(N - row - 1) \in Nat
      BY <1>6, <1>7, <1>8, <2>4
    <3>2. N - col \in Nat
      BY <1>1, <1>6, <1>8, <2>4, SMT
    <3>3. elements(N - col) \in Nat
      BY <1>2, <3>2
    <3>4. QED
      BY <1>4, <2>4, <3>1, <3>3, SMT
  <2>5. CASE atM = "inner"
    <3>1. rows(N - row - 1) \in Nat /\ elements(N - col - 1) \in Nat
      BY <1>6, <1>7, <1>8, <2>5
    <3>2. N - k \in Nat
      BY <1>1, <1>6, <1>8, <2>5, SMT
    <3>3. QED
      BY <1>4, <2>5, <3>1, <3>2, SMT
  <2>6. CASE atM = "done"
    BY <1>4, <2>6
  <2>7. QED
    BY <1>6, <1>8, <2>2, <2>3, <2>4, <2>5, <2>6
<1>9. ASSUME MatrixInv, MatrixNext
      PROVE  MatrixLeft' = MatrixLeft - 1
  <2>1. rows(N) \in Nat /\ row \in Nat /\ col \in Nat /\ k \in Nat
    BY <1>1, <1>3, <1>6, <1>9
  <2>2. CASE Row("initRow", "initCol", "row")
    <3>1. CASE row < N
      <4>1. /\ atM = "initRow" /\ atM' = "initCol"
            /\ row' = row /\ col' = 0
        BY <2>2, <3>1 DEF Row
      <4>2. /\ MatrixLeft = elements(N - row) + 1 + rows(N) + 1
            /\ MatrixLeft' = (N - 0) + 1 + elements(N - row - 1) + 1 + rows(N) + 1
        BY <1>4, <1>5, <4>1
      <4>3. /\ elements(N - row - 1) \in Nat
            /\ elements(N - row) = elements(N - row - 1) + ElementSteps
        BY <1>7, <2>1, <3>1
      <4>4. QED
        BY <1>1, <2>1, <4>2, <4>3, SMT
    <3>2. CASE ~(row < N)
      <4>1. atM = "initRow" /\ atM' = "row" /\ row' = 0
        BY <2>2, <3>2 DEF Row
      <4>2. N - row = 0 /\ N - 0 = N
        BY <1>1, <1>6, <1>9, <3>2, <4>1, SMT
      <4>3. /\ MatrixLeft = 0 + 1 + rows(N) + 1
            /\ MatrixLeft' = rows(N) + 1
        BY <1>2, <1>4, <1>5, <4>1, <4>2
      <4>4. QED
        BY <2>1, <4>3, SMT
    <3>3. QED
      BY <3>1, <3>2
  <2>3. CASE Row("row", "col", "done")
    <3>1. CASE row < N
      <4>1. /\ atM = "row" /\ atM' = "col"
            /\ row' = row /\ col' = 0
        BY <2>3, <3>1 DEF Row
      <4>2. N - 0 = N
        BY <1>1, SMT
      <4>3. /\ MatrixLeft = rows(N - row) + 1
            /\ MatrixLeft' = elements(N) + 1 + rows(N - row - 1) + 1
        BY <1>4, <1>5, <4>1, <4>2
      <4>4. /\ rows(N - row - 1) \in Nat
            /\ rows(N - row) = rows(N - row - 1) + RowSteps
        BY <1>7, <2>1, <3>1
      <4>5. QED
        BY <1>1, <4>3, <4>4, SMT
    <3>2. CASE ~(row < N)
      <4>1. atM = "row" /\ atM' = "done"
        BY <2>3, <3>2 DEF Row
      <4>2. N - row = 0
        BY <1>1, <1>6, <1>9, <3>2, <4>1, SMT
      <4>3. MatrixLeft = 0 + 1 /\ MatrixLeft' = 0
        BY <1>3, <1>4, <1>5, <4>1, <4>2
      <4>4. QED
        BY <4>3, SMT
    <3>3. QED
      BY <3>1, <3>2
  <2>4. CASE InitElement
    <3>1. elements(N - row - 1) \in Nat
      BY <1>6, <1>7, <1>9, <2>4 DEF InitElement
    <3>2. QED
      BY <1>1, <1>4, <1>5, <2>1, <2>4, <3>1, SMT DEF InitElement
  <2>5. CASE EndInitRow
    <3>1. col = N
      BY <1>1, <1>6, <1>9, <2>5, SMT DEF EndInitRow
    <3>2. /\ elements(N - row - 1) \in Nat
          /\ N - (row + 1) = N - row - 1
      BY <1>6, <1>7, <1>9, <2>5 DEF EndInitRow
    <3>3. QED
      BY <1>1, <1>4, <1>5, <2>1, <2>5, <3>1, <3>2, SMT DEF EndInitRow
  <2>6. CASE StartElement
    <3>1. rows(N - row - 1) \in Nat
      BY <1>6, <1>7, <1>9, <2>6 DEF StartElement
    <3>2. /\ elements(N - col - 1) \in Nat
          /\ elements(N - col) = elements(N - col - 1) + ElementSteps
      BY <1>7, <2>1, <2>6 DEF StartElement
    <3>3. QED
      BY <1>1, <1>4, <1>5, <2>1, <2>6, <3>1, <3>2, SMT DEF StartElement
  <2>7. CASE Accumulate
    <3>1. rows(N - row - 1) \in Nat /\ elements(N - col - 1) \in Nat
      BY <1>6, <1>7, <1>9, <2>7 DEF Accumulate
    <3>2. QED
      BY <1>1, <1>4, <1>5, <2>1, <2>7, <3>1, SMT DEF Accumulate
  <2>8. CASE EndElement
    <3>1. /\ rows(N - row - 1) \in Nat /\ elements(N - col - 1) \in Nat
          /\ N - (col + 1) = N - col - 1
      BY <1>6, <1>7, <1>9, <2>8 DEF EndElement
    <3>2. k = N
      BY <1>1, <1>6, <1>9, <2>8, SMT DEF EndElement
    <3>3. QED
      BY <1>1, <1>4, <1>5, <2>1, <2>8, <3>1, <3>2, SMT DEF EndElement
  <2>9. CASE EndRow
    <3>1. rows(N - row - 1) \in Nat /\ N - (row + 1) = N - row - 1
      BY <1>6, <1>7, <1>9, <2>9 DEF EndRow
    <3>2. N - col = 0
      BY <1>1, <1>6, <1>9, <2>9, SMT DEF EndRow
    <3>3. QED
      BY <1>2, <1>4, <1>5, <2>1, <2>9, <3>1, <3>2, SMT DEF EndRow
  <2>10. QED
    BY <1>9, <2>2, <2>3, <2>4, <2>5, <2>6, <2>7, <2>8, <2>9 DEF MatrixNext
<1>10. QED
  BY <1>8, <1>9
-----------------------------------------------------------------------------
(***************************************************************************)
(* Under the tools.                                                        *)
(***************************************************************************)
LEMMA MainImageLoads == MainImage \in Images
BY ImagesAssumption DEF MainImage

\* What each step of a measurement is to the tools and to the programs.
LEMMA MeasureSteps ==
  MeasureNext =>
    /\ [BothNext]_bothVars
    /\ [BubbleNext]_bubble
    /\ [MatrixNext]_matrix
    /\ [DijkstraNext]_dijkstra
<1> SUFFICES ASSUME MeasureNext
             PROVE  /\ [BothNext]_bothVars
                    /\ [BubbleNext]_bubble
                    /\ [MatrixNext]_matrix
                    /\ [DijkstraNext]_dijkstra
  OBVIOUS
<1>1. CASE Launch
  <2>1. BothNext
    BY <1>1, MainImageLoads DEF Launch, BothNext
  <2>2. QED
    BY <1>1, <2>1 DEF Launch, algorithms
<1>2. CASE Compute
  BY <1>2 DEF Compute
<1>3. CASE Branch
  <2>1. BothNext
    BY <1>3 DEF Branch, BothNext
  <2>2. QED
    BY <1>3, <2>1 DEF Branch, algorithms
<1>4. CASE Exit
  <2>1. BothNext
    BY <1>4 DEF Exit, BothNext
  <2>2. QED
    BY <1>4, <2>1 DEF Exit, algorithms
<1>5. CASE Rest
  BY <1>5 DEF Rest, all, algorithms
<1>6. QED
  BY <1>1, <1>2, <1>3, <1>4, <1>5 DEF MeasureNext

\* A measurement is a run of both tools, and the program runs under them as
\* it runs alone: the instrumentation changes none of its steps, whatever
\* branches the compiler makes of them.
THEOREM MeasurementRuns ==
  MeasureSpec => BothSpec /\ BubbleSpec /\ MatrixSpec /\ DijkstraSpec
<1>1. MeasureInit => BothInit /\ BubbleInit /\ MatrixInit /\ DijkstraInit
  BY DEF MeasureInit
<1>2. UNCHANGED all =>
        UNCHANGED bothVars /\ UNCHANGED bubble /\ UNCHANGED matrix /\ UNCHANGED dijkstra
  BY DEF all, algorithms
<1>3. [MeasureNext]_all =>
        /\ [BothNext]_bothVars
        /\ [BubbleNext]_bubble
        /\ [MatrixNext]_matrix
        /\ [DijkstraNext]_dijkstra
  BY <1>2, MeasureSteps
<1>4. QED
  BY <1>1, <1>3, PTL DEF MeasureSpec, BothSpec, BubbleSpec, MatrixSpec, DijkstraSpec

\* What is measured is right: the programs compute what they should while the
\* tools watch them, and the page names the better tool.
THEOREM MeasurementRight ==
  MeasureSpec => [](/\ BubbleSorts /\ MatrixMultiplies /\ ShortestPaths
                    /\ BaseIsTwoBit /\ OneProgram /\ WinnerIsBetter)
BY MeasurementRuns, BubbleSort, MatrixProduct, ShortestPathsFound,
   BaseTwoBit, SameProgram, WinnerRight, PTL
-----------------------------------------------------------------------------
(***************************************************************************)
(* The programs end.                                                       *)
(***************************************************************************)
OnCourse ==
  /\ program \in {"bubble2", "matrix3", "logs5"}
  /\ Contents /\ MatrixInv /\ DijkstraInv /\ Loops

LEMMA OnCourseInit == MeasureInit => OnCourse
BY ContentsInit, MatrixInvInit, DijkstraInvInit, LoopsInit, ProgramsAssumption
   DEF MeasureInit, OnCourse

LEMMA OnCourseStep == OnCourse /\ [MeasureNext]_all => OnCourse'
<1>1. UNCHANGED all => UNCHANGED bubble /\ UNCHANGED matrix /\ UNCHANGED dijkstra
  BY DEF all, algorithms
<1>2. [MeasureNext]_all => program' = program
  BY DEF MeasureNext, Launch, Compute, Branch, Exit, Rest, all
<1>3. QED
  BY <1>1, <1>2, MeasureSteps, ContentsStep, MatrixInvStep, DijkstraInvStep, LoopsStep
     DEF OnCourse

\* The number of steps left is a natural number, and zero only at the end.
LEMMA NoneLeftAtEnd == OnCourse => StepsLeft >= 0 /\ (Ended <=> StepsLeft = 0)
<1> SUFFICES ASSUME OnCourse
             PROVE  StepsLeft >= 0 /\ (Ended <=> StepsLeft = 0)
  OBVIOUS
<1>1. CASE program = "bubble2"
  <2>1. StepsLeft = BubbleLeft /\ (Ended <=> atB = "done")
    BY <1>1 DEF StepsLeft, Ended
  <2>2. BubbleLeft \in Nat /\ (BubbleLeft = 0 <=> atB = "done")
    BY BubbleCounts DEF OnCourse
  <2>3. QED
    BY <2>1, <2>2, SMT
<1>2. CASE program = "matrix3"
  <2>1. StepsLeft = MatrixLeft /\ (Ended <=> atM = "done")
    BY <1>2 DEF StepsLeft, Ended
  <2>2. MatrixLeft \in Nat /\ (MatrixLeft = 0 <=> atM = "done")
    BY MatrixCounts DEF OnCourse
  <2>3. QED
    BY <2>1, <2>2, SMT
<1>3. CASE program = "logs5"
  <2>1. StepsLeft = DijkstraLeft /\ (Ended <=> atD = "done")
    BY <1>3 DEF StepsLeft, Ended
  <2>2. DijkstraLeft \in Nat /\ (DijkstraLeft = 0 <=> atD = "done")
    BY DijkstraCounts DEF OnCourse
  <2>3. QED
    BY <2>1, <2>2, SMT
<1>4. QED
  BY <1>1, <1>2, <1>3 DEF OnCourse

\* A step of the program is one step less, and the tools take none.
LEMMA OneStepLess ==
  OnCourse /\ [MeasureNext]_all => UNCHANGED algorithms \/ StepsLeft' = StepsLeft - 1
<1> SUFFICES ASSUME OnCourse, Compute
             PROVE  StepsLeft' = StepsLeft - 1
  BY DEF MeasureNext, Launch, Branch, Exit, Rest, all
<1>1. program' = program
  BY DEF Compute
<1>2. CASE program = "bubble2"
  <2>1. StepsLeft = BubbleLeft /\ StepsLeft' = BubbleLeft'
    BY <1>1, <1>2 DEF StepsLeft
  <2>2. BubbleNext
    BY <1>2 DEF Compute
  <2>3. QED
    BY <2>1, <2>2, BubbleCounts DEF OnCourse
<1>3. CASE program = "matrix3"
  <2>1. StepsLeft = MatrixLeft /\ StepsLeft' = MatrixLeft'
    BY <1>1, <1>3 DEF StepsLeft
  <2>2. MatrixNext
    BY <1>3 DEF Compute
  <2>3. QED
    BY <2>1, <2>2, MatrixCounts DEF OnCourse
<1>4. CASE program = "logs5"
  <2>1. StepsLeft = DijkstraLeft /\ StepsLeft' = DijkstraLeft'
    BY <1>1, <1>4 DEF StepsLeft
  <2>2. DijkstraNext
    BY <1>4 DEF Compute
  <2>3. QED
    BY <2>1, <2>2, DijkstraCounts DEF OnCourse
<1>5. QED
  BY <1>2, <1>3, <1>4 DEF OnCourse

\* A sort of every length, a product of every size and shortest paths on
\* every graph take exactly the number of steps that StepsLeft has at the
\* start, under the tools as by themselves, and end there.
THEOREM WorkloadsEnd == MeasureSpec => ProgramsEnd
<1>1. OnCourse' => StepsLeft' >= 0 /\ (Ended' <=> StepsLeft' = 0)
  <2>1. (OnCourse => StepsLeft >= 0 /\ (Ended <=> StepsLeft = 0))'
    BY NoneLeftAtEnd, PTL
  <2>2. QED
    BY <2>1
<1>2. OnCourse /\ [MeasureNext]_all =>
        [/\ UNCHANGED algorithms \/ StepsLeft' = StepsLeft - 1
         /\ StepsLeft' >= 0 /\ (Ended' <=> StepsLeft' = 0)]_all
  BY <1>1, OneStepLess, OnCourseStep
<1>3. QED
  BY <1>2, OnCourseInit, OnCourseStep, PTL DEF MeasureSpec, ProgramsEnd
=============================================================================
