---------------------------- MODULE MCMeasurement ----------------------------
(***************************************************************************)
(* The executables bubble2, matrix3 and logs5 of the project: the branch   *)
(* instructions behind every condition, by their offset in the image, and  *)
(* the results that were committed for them.                               *)
(***************************************************************************)
EXTENDS Measurement, TLC

MCImages == { [main |-> TRUE, low |-> \h1000, high |-> \h1fff] }

\* The graph of main (logs5.cpp:89-97).
MCGraph ==
  LET rows ==
  << << 0,  4,  0,  0,  0,  0,  0,  8,  0>>,
     << 4,  0,  8,  0,  0,  0,  0, 11,  0>>,
     << 0,  8,  0,  7,  0,  4,  0,  0,  2>>,
     << 0,  0,  7,  0,  9, 14,  0,  0,  0>>,
     << 0,  0,  0,  9,  0, 10,  0,  0,  0>>,
     << 0,  0,  4, 14, 10,  0,  2,  0,  0>>,
     << 0,  0,  0,  0,  0,  2,  0,  1,  6>>,
     << 8, 11,  0,  0,  0,  0,  1,  0,  7>>,
     << 0,  0,  2,  0,  0,  0,  6,  7,  0>> >>
  IN  [x \in 0 .. 8 |-> [y \in 0 .. 8 |-> rows[x + 1][y + 1]]]

Either(yes, no) == [holds \in BOOLEAN |-> IF holds THEN yes ELSE no]

MCBubble ==
  [start |-> Either(<<<<\h1012, "T">>, <<\h1144, "T">>, <<\h10e2, "T">>, <<\h117b, "T">>>>, <<>>),
   fill |-> Either(<<<<\h11a7, "T">>>>, <<<<\h11a7, "N">>, <<\h11b3, "T">>>>),
   outer |-> Either(<<<<\h1263, "T">>, <<\h11c2, "T">>>>,
                <<<<\h1263, "N">>, <<\h127b, "T">>, <<\h110b, "N">>, <<\h1119, "N">>, <<\h1044, "T">>, <<\h10a1, "T">>>>),
   inner |-> Either(<<<<\h124f, "T">>>>, <<<<\h124f, "N">>>>),
   if |-> Either(<<<<\h11e7, "N">>>>, <<<<\h11e7, "T">>>>)]

MCMatrix ==
  [start |-> Either(<<<<\h1012, "T">>, <<\h1144, "T">>, <<\h10e2, "T">>, <<\h1187, "T">>>>, <<>>),
   initRow |-> Either(<<<<\h12ab, "T">>, <<\h1196, "T">>>>, <<<<\h12ab, "N">>, <<\h12bb, "T">>>>),
   initCol |-> Either(<<<<\h1297, "T">>>>, <<<<\h1297, "N">>>>),
   row |-> Either(<<<<\h13c2, "T">>, <<\h12ca, "T">>>>,
                <<<<\h13c2, "N">>, <<\h13da, "T">>, <<\h110b, "N">>, <<\h1119, "N">>, <<\h1044, "T">>, <<\h10a1, "T">>>>),
   col |-> Either(<<<<\h13ae, "T">>, <<\h12d9, "T">>>>, <<<<\h13ae, "N">>>>),
   inner |-> Either(<<<<\h139a, "T">>>>, <<<<\h139a, "N">>>>)]

MCDijkstra ==
  [start |-> Either(<<<<\h1012, "T">>, <<\h1184, "T">>, <<\h1122, "T">>, <<\h129a, "T">>>>, <<>>),
   init |-> Either(<<<<\h12bb, "T">>>>, <<<<\h12bb, "N">>, <<\h12d1, "T">>>>),
   count |-> Either(<<<<\h13e5, "T">>, <<\h11a7, "T">>>>, <<<<\h13e5, "N">>, <<\h1074, "T">>, <<\h1232, "T">>>>),
   find |-> Either(<<<<\h1202, "T">>>>, <<<<\h1202, "N">>, <<\h12fd, "T">>>>),
   candidate |-> Either(<<<<\h11be, "N">>>>, <<<<\h11be, "T">>>>),
   closer |-> Either(<<<<\h11d9, "N">>>>, <<<<\h11d9, "T">>>>),
   relax |-> Either(<<<<\h13d7, "T">>>>, <<<<\h13d7, "N">>>>),
   unmarked |-> Either(<<<<\h1311, "N">>>>, <<<<\h1311, "T">>>>),
   edge |-> Either(<<<<\h133f, "N">>>>, <<<<\h133f, "T">>>>),
   reached |-> Either(<<<<\h1353, "N">>>>, <<<<\h1353, "T">>>>),
   shorter |-> Either(<<<<\h1392, "N">>>>, <<<<\h1392, "T">>>>),
   print |-> Either(<<<<\h126b, "T">>, <<\h1094, "T">>>>,
                <<<<\h126b, "N">>, <<\h140a, "T">>, <<\h147d, "T">>, <<\h114b, "N">>, <<\h1159, "N">>, <<\h1064, "T">>, <<\h10e1, "T">>>>)]

MCPrograms == {"bubble2", "matrix3", "logs5"}

MCCode == [bubble2 |-> MCBubble, matrix3 |-> MCMatrix, logs5 |-> MCDijkstra]

\* The addresses in the code.
MCAddresses ==
  {b[1] : b \in UNION { {s[m] : m \in DOMAIN s} :
      s \in UNION { {code[c][holds] : c \in DOMAIN code, holds \in BOOLEAN} :
                    code \in {MCBubble, MCMatrix, MCDijkstra} } } }

\* test2.json and test2_tage.json.
MCBubbleResults ==
  [hybrid |-> [total |-> 2659, best_accuracy |-> 979692, winner |-> "Hybrid",
               mispred |-> 54,
               predictors |-> [one |-> 962768, two |-> 979692, hybrid |-> 979692],
               branches |-> \h110b :> 1 @@ \h1119 :> 1 @@ \h11a7 :> 1 @@ \h11e7 :> 1 @@
                           \h124f :> 49 @@ \h1263 :> 1],
   tage   |-> [total |-> 2659, best_accuracy |-> 979316, winner |-> "TAGE",
               mispred |-> 55,
               predictors |-> [tage |-> 979316]]]

\* test3.json and test3_tage.json.
MCMatrixResults ==
  [hybrid |-> [total |-> 9732, best_accuracy |-> 954377, winner |-> "Hybrid",
               mispred |-> 444,
               predictors |-> [one |-> 909679, two |-> 954377, hybrid |-> 954377],
               branches |-> \h110b :> 1 @@ \h1119 :> 1 @@ \h1297 :> 20 @@ \h12ab :> 1 @@
                           \h139a :> 400 @@ \h13ae :> 20 @@ \h13c2 :> 1],
   tage   |-> [total |-> 9732, best_accuracy |-> 954172, winner |-> "TAGE",
               mispred |-> 446,
               predictors |-> [tage |-> 954172]]]

\* test5.json and test5_tage.json.
MCDijkstraResults ==
  [hybrid |-> [total |-> 479, best_accuracy |-> 772443, winner |-> "Hybrid",
               mispred |-> 109,
               predictors |-> [one |-> 745303, two |-> 762004, hybrid |-> 772443],
               branches |-> \h114b :> 1 @@ \h1159 :> 1 @@ \h11be :> 26 @@ \h11d9 :> 14 @@
                           \h1202 :> 8 @@ \h126b :> 1 @@ \h12bb :> 1 @@ \h1311 :> 25 @@
                           \h133f :> 16 @@ \h1353 :> 1 @@ \h1392 :> 6 @@ \h13d7 :> 8 @@
                           \h13e5 :> 1],
   tage   |-> [total |-> 479, best_accuracy |-> 762004, winner |-> "TAGE",
               mispred |-> 114,
               predictors |-> [tage |-> 762004]]]

MCMeasured ==
  [bubble2 |-> MCBubbleResults, matrix3 |-> MCMatrixResults, logs5 |-> MCDijkstraResults]
=============================================================================
