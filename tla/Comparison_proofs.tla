-------------------------- MODULE Comparison_proofs --------------------------
(***************************************************************************)
(* For every program, every table size and every history length: the base  *)
(* predictor of MyTage and the 2-bit predictor of MyBranch stay the same,  *)
(* the page names the tool that made fewer mispredictions, and the paired  *)
(* runs are runs of both tools.                                            *)
(***************************************************************************)
EXTENDS Comparison, MyBranch_proofs, TLAPS

\* Two tools that watch the same range and have room for the same number of
\* branches record the same ones; the counters are in the range where the
\* two ways to saturate them agree.
Paired ==
  /\ BaseIsTwoBit
  /\ IsMap(BHT2, Addresses, 0 .. 3)
  /\ lowT = low /\ highT = high
  /\ totalT = total

\* The two tools train a two-bit counter in different words (MyBranch.cpp:71,
\* MyTage.cpp:125-126), with the same result, and it stays a two-bit counter.
LEMMA SameTraining ==
  ASSUME Paired, NEW ip \in Addresses, NEW actual \in Outcome
  PROVE  /\ Tage!BaseAfter(ip, actual) = TwoBitAfter(ip, actual)
         /\ TwoBitAfter(ip, actual) \in 0 .. 3
<1>1. TwoBitState(ip) \in 0 .. 3
  BY DEF Paired, IsMap, TwoBitState, Lookup
<1>2. Tage!Lookup(T0, ip, 2) = TwoBitState(ip)
  BY DEF Paired, BaseIsTwoBit, TwoBitState, Lookup, Tage!Lookup
<1>3. CASE actual = "T"
  BY <1>1, <1>2, <1>3 DEF Tage!BaseAfter, Tage!Saturate, Tage!Step, TwoBitAfter
<1>4. CASE actual = "N"
  BY <1>1, <1>2, <1>4 DEF Tage!BaseAfter, Tage!Saturate, Tage!Step, TwoBitAfter
<1>5. QED
  BY <1>3, <1>4 DEF Outcome

\* Writing the same value under the same key keeps two maps equal.
LEMMA PutBoth ==
  ASSUME Paired, NEW ip \in Addresses, NEW value \in 0 .. 3
  PROVE  /\ Tage!Put(T0, ip, value) = Put(BHT2, ip, value)
         /\ IsMap(Put(BHT2, ip, value), Addresses, 0 .. 3)
BY DEF Paired, BaseIsTwoBit, IsMap, Put, Tage!Put

\* A branch recorded by both tools keeps them paired.
LEMMA RecordedByBoth ==
  ASSUME Paired, NEW ip \in Addresses, NEW actual \in Outcome,
         RecordBranch(ip, actual), Tage!RecordBranch(ip, actual)
  PROVE  Paired'
<1>1. /\ T0' = Tage!Put(T0, ip, Tage!BaseAfter(ip, actual))
      /\ BHT2' = Put(BHT2, ip, TwoBitAfter(ip, actual))
  BY DEF RecordBranch, Tage!RecordBranch, Tage!Predict
<1>2. BaseIsTwoBit' /\ IsMap(BHT2, Addresses, 0 .. 3)'
  BY <1>1, SameTraining, PutBoth DEF BaseIsTwoBit
<1>3. /\ lowT' = low' /\ highT' = high'
      /\ totalT' = total'
  BY DEF Paired, RecordBranch, Tage!RecordBranch, range, Tage!range
<1>4. QED
  BY <1>2, <1>3 DEF Paired

\* A branch that one tool ignores is ignored by the other.
LEMMA BranchKeepsPaired ==
  ASSUME Paired, NEW ip \in Addresses, NEW actual \in Outcome,
         BothExecute(ip, actual)
  PROVE  Paired'
<1>1. Watched(ip) <=> Tage!Watched(ip)
  BY DEF Paired, Watched, Tage!Watched
<1>2. CASE Watched(ip)
  <2>1. RecordBranch(ip, actual) /\ Tage!RecordBranch(ip, actual)
    BY <1>1, <1>2 DEF BothExecute, ExecuteBranch, Tage!ExecuteBranch,
                      IgnoreBranch, Tage!IgnoreBranch
  <2>2. QED
    BY <2>1, RecordedByBoth
<1>3. CASE ~Watched(ip)
  <2>1. UNCHANGED vars /\ UNCHANGED Tage!vars
    BY <1>1, <1>3 DEF BothExecute, ExecuteBranch, Tage!ExecuteBranch,
                      IgnoreBranch, Tage!IgnoreBranch,
                      RecordBranch, Tage!RecordBranch
  <2>2. QED
    BY <2>1 DEF Paired, BaseIsTwoBit, IsMap, vars, range, tables, counts,
                Tage!vars, Tage!range, Tage!counts, Tage!predictor
<1>4. QED
  BY <1>2, <1>3

LEMMA PairedInit == BothInit => Paired
BY DEF BothInit, Init, Tage!Init, Tage!PredictorInit, Paired, BaseIsTwoBit,
       IsMap, EmptyMap, Tage!EmptyMap

\* Every step of the two runs keeps the tools paired.
LEMMA PairedStep == Paired /\ [BothNext]_bothVars => Paired'
<1> SUFFICES ASSUME Paired, [BothNext]_bothVars
             PROVE  Paired'
  OBVIOUS
<1>1. ASSUME NEW img \in Images, BothImage(img)
      PROVE  Paired'
  BY <1>1 DEF BothImage, Image, Tage!Image, Watch, Paired, BaseIsTwoBit, IsMap,
              range, tables, counts, Tage!range, Tage!counts, Tage!predictor
<1>2. ASSUME NEW ip \in Addresses, NEW actual \in Outcome, BothExecute(ip, actual)
      PROVE  Paired'
  BY <1>2, BranchKeepsPaired
<1>3. ASSUME NEW opened \in BOOLEAN, NEW openedT \in BOOLEAN, BothFini(opened, openedT)
      PROVE  Paired'
  BY <1>3 DEF BothFini, Fini, Tage!Fini, Paired, BaseIsTwoBit, IsMap,
              range, tables, counts, Tage!range, Tage!counts, Tage!predictor
<1>4. CASE UNCHANGED bothVars
  BY <1>4 DEF bothVars, Paired, BaseIsTwoBit, IsMap, vars, range, tables, counts
<1>5. QED
  BY <1>1, <1>2, <1>3, <1>4 DEF BothNext

\* Whatever the program and whatever the tagged tables hold, the base
\* predictor of TAGE is the 2-bit predictor it is compared with.
THEOREM BaseTwoBit == BothSpec => []BaseIsTwoBit
<1>1. Paired => BaseIsTwoBit
  BY DEF Paired
<1>2. QED
  BY <1>1, PairedInit, PairedStep, PTL DEF BothSpec
-----------------------------------------------------------------------------
(***************************************************************************)
(* The winner.  An accuracy is the quotient of two counters, rounded to    *)
(* the last digit that the files have.                                     *)
(***************************************************************************)
\* Integer division by its quotient and remainder.
LEMMA Quotient ==
  ASSUME NEW a \in Nat, NEW p \in Nat \ {0}
  PROVE  /\ a \div p \in Nat /\ a % p \in Nat
         /\ a % p < p
         /\ a = (a \div p) * p + (a % p)
BY SMT

\* Multiplication by a natural number is monotone.
LEMMA TimesMonotone ==
  ASSUME NEW a \in Nat, NEW b \in Nat, NEW p \in Nat, a <= b
  PROVE  a * p <= b * p
BY SMT

\* a is c / p in units of the last digit: the quotient q, rounded to nearest.
Rounded(a, c, p, q, rem) ==
  /\ 1000000 * c = q * p + rem
  /\ rem < p
  /\ \/ a = q /\ 2 * rem <= p
     \/ a = q + 1 /\ 2 * rem >= p

\* The digits of c / p are the quotient q of 10^6 c by p, rounded to nearest:
\* the two divisions of Accuracy lose nothing (the %f-like conversion of the
\* files, MyBranch.cpp:156-166).
LEMMA AccuracyRounds ==
  ASSUME NEW c \in Nat, NEW p \in Nat \ {0}
  PROVE  /\ Accuracy(c, p) \in Nat
         /\ \E q, rem \in Nat : Rounded(Accuracy(c, p), c, p, q, rem)
<1> DEFINE first == (1000 * c) \div p
           rest  == (1000 * c) % p
           last  == (1000 * rest) \div p
           rem   == (1000 * rest) % p
           q     == 1000 * first + last
<1>1. /\ first \in Nat /\ rest \in Nat
      /\ 1000 * c = first * p + rest
  BY Quotient, 1000 * c \in Nat
<1>2. /\ last \in Nat /\ rem \in Nat /\ rem < p
      /\ 1000 * rest = last * p + rem
  BY <1>1, Quotient, 1000 * rest \in Nat
<1>3. Accuracy(c, p) = q + (IF 2 * rem > p \/ (2 * rem = p /\ last % 2 = 1) THEN 1 ELSE 0)
  BY DEF Accuracy
<1> HIDE DEF first, rest, last, rem
<1>4. q \in Nat /\ 1000000 * c = q * p + rem
  BY <1>1, <1>2, SMT
<1>5. \/ Accuracy(c, p) = q /\ 2 * rem <= p
      \/ Accuracy(c, p) = q + 1 /\ 2 * rem >= p
  BY <1>2, <1>3, <1>4, SMT
<1>6. Rounded(Accuracy(c, p), c, p, q, rem)
  BY <1>2, <1>4, <1>5, SMT DEF Rounded
<1>7. QED
  BY <1>2, <1>4, <1>5, <1>6, SMT

\* In a program of up to 10^6 branches one more right prediction is at least
\* one more unit of the last digit.  The rounding moves each accuracy by half
\* a unit at most; at exactly 10^6 branches nothing is rounded at all.
LEMMA AccuracyStrict ==
  ASSUME NEW c \in Nat, NEW d \in Nat, NEW p \in Nat \ {0},
         c < d, d <= p, p <= RoundingLimit
  PROVE  Accuracy(c, p) < Accuracy(d, p)
<1> DEFINE ac == Accuracy(c, p)
           ad == Accuracy(d, p)
<1>1. ac \in Nat /\ \E q, rem \in Nat : Rounded(ac, c, p, q, rem)
  BY AccuracyRounds
<1>2. ad \in Nat /\ \E q, rem \in Nat : Rounded(ad, d, p, q, rem)
  BY AccuracyRounds
<1> HIDE DEF ac, ad
<1>3. PICK qc \in Nat, rc \in Nat : Rounded(ac, c, p, qc, rc)
  BY <1>1
<1>4. PICK qd \in Nat, rd \in Nat : Rounded(ad, d, p, qd, rd)
  BY <1>2
<1>5. CASE p = 1000000
  <2>1. qc = c /\ rc = 0 /\ qd = d /\ rd = 0
    BY <1>3, <1>4, <1>5, SMT DEF Rounded
  <2>2. QED
    BY <2>1, <1>3, <1>4, <1>5, SMT DEF Rounded, ac, ad
<1>6. CASE p < 1000000
  <2>1. 2 * (ac * p) <= 2000000 * c + p
    <3>1. CASE ac = qc /\ 2 * rc <= p
      BY <1>3, <3>1, SMT DEF Rounded
    <3>2. CASE ac = qc + 1 /\ 2 * rc >= p
      <4>1. ac * p = qc * p + p
        BY <3>2, SMT
      <4>2. QED
        BY <1>3, <3>2, <4>1, SMT DEF Rounded
    <3>3. QED
      BY <1>3, <3>1, <3>2, SMT DEF Rounded
  <2>2. 2 * (ad * p) >= 2000000 * d - p
    <3>1. CASE ad = qd /\ 2 * rd <= p
      BY <1>4, <3>1, SMT DEF Rounded
    <3>2. CASE ad = qd + 1 /\ 2 * rd >= p
      <4>1. ad * p = qd * p + p
        BY <3>2, SMT
      <4>2. QED
        BY <1>4, <3>2, <4>1, SMT DEF Rounded
    <3>3. QED
      BY <1>4, <3>1, <3>2, SMT DEF Rounded
  <2>3. ac * p < ad * p
    BY <2>1, <2>2, <1>1, <1>2, <1>6, SMT
  <2>4. QED
    BY <2>3, <1>1, <1>2, TimesMonotone, SMT DEF ac, ad
<1>7. QED
  BY <1>5, <1>6, SMT DEF RoundingLimit

\* What the two files say of the counters.  The tools write them when the
\* program exits, once, and count nothing afterwards.
Scored ==
  /\ total \in Nat /\ predH = total
  /\ correctH \in Nat /\ correctH <= predH
  /\ totalT = total /\ tagePred = total
  /\ tageCorrect \in Nat /\ tageCorrect <= tagePred
  /\ Running => json = NoFile
  /\ Tage!Running => jsonT = Tage!NoFile
  /\ json # NoFile =>
       /\ json.best_accuracy = Accuracy(correctH, predH)
       /\ json.predictors.hybrid = Accuracy(correctH, predH)
  /\ jsonT # Tage!NoFile =>
       /\ jsonT.best_accuracy = Accuracy(tageCorrect, tagePred)
       /\ jsonT.predictors.tage = Accuracy(tageCorrect, tagePred)

LEMMA ScoredInit == BothInit => Scored
BY DEF BothInit, Init, Tage!Init, Scored, Running, Tage!Running

\* Every step of the two runs keeps the files true to the counters.
LEMMA ScoredStep ==
  Paired /\ Scored /\ [BothNext]_bothVars => Scored'
<1> SUFFICES ASSUME Paired, Scored, [BothNext]_bothVars
             PROVE  Scored'
  OBVIOUS
<1>1. ASSUME NEW img \in Images, BothImage(img)
      PROVE  Scored'
  BY <1>1 DEF BothImage, Image, Tage!Image, Scored, Running, Tage!Running,
              counts, output, Tage!counts, Tage!output
<1>2. ASSUME NEW ip \in Addresses, NEW actual \in Outcome, BothExecute(ip, actual)
      PROVE  Scored'
  <2>1. Watched(ip) <=> Tage!Watched(ip)
    BY DEF Paired, Watched, Tage!Watched
  <2>2. CASE RecordBranch(ip, actual) /\ Tage!RecordBranch(ip, actual)
    BY <1>2, <2>2 DEF BothExecute, ExecuteBranch, Tage!ExecuteBranch,
         RecordBranch, Tage!RecordBranch, Scored, Running, Tage!Running,
         output, Tage!output, Same, Tage!Same
  <2>3. CASE UNCHANGED vars /\ UNCHANGED Tage!vars
    BY <2>3 DEF Scored, Running, Tage!Running, vars, counts, output,
                Tage!vars, Tage!counts, Tage!output
  <2>4. QED
    BY <1>2, <2>1, <2>2, <2>3 DEF BothExecute, ExecuteBranch, Tage!ExecuteBranch,
         IgnoreBranch, Tage!IgnoreBranch, RecordBranch, Tage!RecordBranch
<1>3. ASSUME NEW opened \in BOOLEAN, NEW openedT \in BOOLEAN, BothFini(opened, openedT)
      PROVE  Scored'
  <2>1. ~Running' /\ ~(Tage!Running')
    BY <1>3 DEF BothFini, Fini, Tage!Fini, Running, Tage!Running, Scored,
                NoReport, Tage!NoReport
  <2>2. UNCHANGED <<counts, Tage!counts>>
    BY <1>3 DEF BothFini, Fini, Tage!Fini
  <2>3. json' # NoFile =>
          /\ json'.best_accuracy = Accuracy(correctH, predH)
          /\ json'.predictors.hybrid = Accuracy(correctH, predH)
    BY <1>3 DEF BothFini, Fini, Scored
  <2>4. jsonT' # Tage!NoFile =>
          /\ jsonT'.best_accuracy = Accuracy(tageCorrect, tagePred)
          /\ jsonT'.predictors.tage = Accuracy(tageCorrect, tagePred)
    <3>1. jsonT = Tage!NoFile
      BY <1>3 DEF BothFini, Tage!Fini, Scored
    <3>2. Tage!Accuracy(tageCorrect, tagePred) = Accuracy(tageCorrect, tagePred)
      BY SMT DEF Tage!Accuracy, Accuracy
    <3>3. CASE openedT
      BY <1>3, <3>2, <3>3 DEF BothFini, Tage!Fini
    <3>4. CASE ~openedT
      BY <1>3, <3>1, <3>4 DEF BothFini, Tage!Fini
    <3>5. QED
      BY <3>3, <3>4
  <2>5. QED
    BY <2>1, <2>2, <2>3, <2>4 DEF Scored, counts, Tage!counts
<1>4. CASE UNCHANGED bothVars
  BY <1>4 DEF bothVars, Scored, Running, Tage!Running, vars, counts, output
<1>5. QED
  BY <1>1, <1>2, <1>3, <1>4 DEF BothNext

\* Two accuracies of the same program compare as the counters do.
LEMMA RoundedRace ==
  ASSUME NEW c \in Nat, NEW d \in Nat, NEW p \in Nat,
         c <= p, d <= p, p <= RoundingLimit
  PROVE  /\ Accuracy(c, p) \in Nat /\ Accuracy(d, p) \in Nat
         /\ Accuracy(d, p) > Accuracy(c, p) <=> d > c
<1>1. CASE p = 0
  <2>1. c = 0 /\ d = 0
    BY <1>1, SMT
  <2>2. QED
    BY <1>1, <2>1, SMT DEF Accuracy
<1>2. CASE p # 0
  <2>1. Accuracy(c, p) \in Nat /\ Accuracy(d, p) \in Nat
    BY <1>2, AccuracyRounds
  <2>2. c < d => Accuracy(c, p) < Accuracy(d, p)
    BY <1>2, AccuracyStrict
  <2>3. d < c => Accuracy(d, p) < Accuracy(c, p)
    BY <1>2, AccuracyStrict
  <2>4. QED
    BY <2>1, <2>2, <2>3, SMT
<1>3. QED
  BY <1>1, <1>2

\* The page names the winner from rounded numbers of two files, and the name
\* and the accuracy above it are right in every program of up to 10^6
\* branches: the rounding never hides a difference and never makes one.
THEOREM WinnerRight == BothSpec => []WinnerIsBetter
<1>1. Scored => WinnerIsBetter
  <2> SUFFICES ASSUME Scored, Written, total <= RoundingLimit
               PROVE  /\ Shown.winner = "TAGE wins" <=> MispredT < MispredH
                      /\ Shown.best = Bars(json, jsonT)[IF MispredT < MispredH THEN 1 ELSE 2]
    BY DEF WinnerIsBetter
  <2> DEFINE h == Accuracy(correctH, total)
             t == Accuracy(tageCorrect, total)
  <2>1. /\ json.best_accuracy = h /\ json.predictors.hybrid = h
        /\ jsonT.best_accuracy = t /\ jsonT.predictors.tage = t
    BY DEF Scored, Written, NoFile, Tage!NoFile
  <2>2. /\ h \in Nat /\ t \in Nat
        /\ t > h <=> tageCorrect > correctH
    BY RoundedRace, SMT DEF Scored
  <2>3. tageCorrect > correctH <=> MispredT < MispredH
    BY SMT DEF Scored, MispredT, MispredH
  <2> HIDE DEF h, t
  <2>4. Shown.winner = "TAGE wins" <=> t > h
    BY <2>1 DEF Shown, Cards, Winner
  <2>5. Shown.best = IF h > t THEN h ELSE t
    BY <2>1 DEF Shown, Cards, Larger
  <2>6. /\ Bars(json, jsonT)[1] = t
        /\ Bars(json, jsonT)[2] = h
    BY <2>1 DEF Bars
  <2>7. h > t \/ t > h \/ h = t
    BY <2>2, SMT
  <2>8. CASE t > h
    <3>1. MispredT < MispredH /\ ~(h > t)
      BY <2>2, <2>3, <2>8, SMT
    <3>2. QED
      BY <2>4, <2>5, <2>6, <2>8, <3>1
  <2>9. CASE ~(t > h)
    <3>1. ~(MispredT < MispredH)
      BY <2>2, <2>3, <2>9
    <3>2. QED
      BY <2>4, <2>5, <2>6, <2>7, <2>9, <3>1
  <2>10. QED
    BY <2>8, <2>9
<1>2. QED
  BY <1>1, PairedInit, PairedStep, ScoredInit, ScoredStep, PTL DEF BothSpec
-----------------------------------------------------------------------------
(***************************************************************************)
(* The paired runs are runs of the two tools: what is proved of MyBranch   *)
(* and of MyTage alone holds when they are compared.                       *)
(***************************************************************************)
\* What the comparison does is, seen from MyBranch alone, one of its runs.
THEOREM RunsMyBranch == BothSpec => Spec
<1>1. BothInit => Init
  BY DEF BothInit
<1>2. [BothNext]_bothVars => [Next]_vars
  <2>1. BothNext => Next
    BY DEF BothNext, Next, BothImage, BothExecute, BothFini
  <2>2. UNCHANGED bothVars => UNCHANGED vars
    BY DEF bothVars
  <2>3. QED
    BY <2>1, <2>2
<1>3. QED
  BY <1>1, <1>2, PTL DEF BothSpec, Spec

\* ... and seen from MyTage alone one of its runs.
THEOREM RunsMyTage == BothSpec => Tage!Spec
<1>1. BothInit => Tage!Init
  BY DEF BothInit
<1>2. [BothNext]_bothVars => [Tage!Next]_(Tage!vars)
  <2>1. BothNext => Tage!Next
    BY DEF BothNext, Tage!Next, BothImage, BothExecute, BothFini,
           Outcome, Tage!Outcome
  <2>2. UNCHANGED bothVars => UNCHANGED Tage!vars
    BY DEF bothVars, vars, Tage!vars, Tage!predictor, Tage!range,
           Tage!counts, Tage!traces, Tage!output
  <2>3. QED
    BY <2>1, <2>2
<1>3. QED
  BY <1>1, <1>2, PTL DEF BothSpec, Tage!Spec

-----------------------------------------------------------------------------
(***************************************************************************)
(* One program.  The two traces grow together, each file is written once   *)
(* with the total of its run, and the total is the length of the trace.    *)
(***************************************************************************)
OneRecord ==
  /\ historyT = history
  /\ json # NoFile => json.total = total
  /\ jsonT # NoFile => jsonT.total = total

LEMMA OneRecordInit == BothInit => OneRecord
BY DEF BothInit, Init, Tage!Init, OneRecord, EmptyMap, Tage!EmptyMap,
       NoFile, Tage!NoFile

\* Every step of the two runs keeps the two traces the same and the files
\* true to their length.
LEMMA OneRecordStep ==
  Paired /\ Scored /\ OneRecord /\ [BothNext]_bothVars => OneRecord'
<1> SUFFICES ASSUME Paired, Scored, OneRecord, [BothNext]_bothVars
             PROVE  OneRecord'
  OBVIOUS
<1>1. ASSUME NEW img \in Images, BothImage(img)
      PROVE  OneRecord'
  BY <1>1 DEF BothImage, Image, Tage!Image, OneRecord,
              counts, traces, output, Tage!traces, Tage!output
<1>2. ASSUME NEW ip \in Addresses, NEW actual \in Outcome, BothExecute(ip, actual)
      PROVE  OneRecord'
  <2>1. Watched(ip) <=> Tage!Watched(ip)
    BY DEF Paired, Watched, Tage!Watched
  <2>2. CASE RecordBranch(ip, actual) /\ Tage!RecordBranch(ip, actual)
    <3>1. historyT' = history'
      BY <2>2 DEF RecordBranch, Tage!RecordBranch, OneRecord,
                  Put, Tage!Put, Lookup, Tage!Lookup
    <3>2. json' = NoFile /\ jsonT' = NoFile
      BY <1>2, <2>2 DEF BothExecute, ExecuteBranch, Tage!ExecuteBranch,
           RecordBranch, Tage!RecordBranch, Scored, output, Tage!output,
           NoFile, Tage!NoFile
    <3>3. QED
      BY <3>1, <3>2 DEF OneRecord, NoFile
  <2>3. CASE UNCHANGED vars /\ UNCHANGED Tage!vars
    BY <2>3 DEF OneRecord, vars, counts, traces, output,
                Tage!vars, Tage!traces, Tage!output
  <2>4. QED
    BY <1>2, <2>1, <2>2, <2>3 DEF BothExecute, ExecuteBranch, Tage!ExecuteBranch,
         IgnoreBranch, Tage!IgnoreBranch, RecordBranch, Tage!RecordBranch
<1>3. ASSUME NEW opened \in BOOLEAN, NEW openedT \in BOOLEAN, BothFini(opened, openedT)
      PROVE  OneRecord'
  <2>1. json = NoFile /\ jsonT = NoFile
    BY <1>3 DEF BothFini, Fini, Tage!Fini, Scored, NoFile, Tage!NoFile
  <2>2. historyT' = history' /\ total' = total
    BY <1>3 DEF BothFini, Fini, Tage!Fini, OneRecord, traces, Tage!traces, counts
  <2>3. json' = NoFile \/ json'.total = total
    BY <1>3, <2>1 DEF BothFini, Fini
  <2>4. jsonT' = NoFile \/ jsonT'.total = total
    BY <1>3, <2>1 DEF BothFini, Tage!Fini, Paired
  <2>5. QED
    BY <2>2, <2>3, <2>4 DEF OneRecord, NoFile
<1>4. CASE UNCHANGED bothVars
  BY <1>4 DEF bothVars, OneRecord, vars, counts, traces, output
<1>5. QED
  BY <1>1, <1>2, <1>3, <1>4 DEF BothNext

\* The page compares percentages of one and the same sequence of executions,
\* and the total that it shows is the number of them.
THEOREM SameProgram == BothSpec => []OneProgram
<1>1. OneRecord /\ Totals => OneProgram
  BY DEF OneRecord, Totals, OneProgram, Written, Shown, Cards, Calls, Cells
<1>2. QED
  BY <1>1, PairedInit, PairedStep, ScoredInit, ScoredStep,
     OneRecordInit, OneRecordStep, RunsMyBranch, TotalsHold, PTL DEF BothSpec
-----------------------------------------------------------------------------
\* The limit is exact: with one branch more than a million the page can show
\* two different tallies as the same accuracy.
THEOREM LimitIsExact ==
  \E d, e \in 0 .. RoundingLimit + 1 :
    d # e /\ Accuracy(d, RoundingLimit + 1) = Accuracy(e, RoundingLimit + 1)
<1> DEFINE c == 500000
           p == RoundingLimit + 1
<1>1. Accuracy(c, p) = 500000 /\ Accuracy(c + 1, p) = 500000
  BY SMT DEF Accuracy, RoundingLimit
<1>2. c \in Nat /\ c + 1 \in Nat /\ p \in Nat /\ c <= p /\ c + 1 <= p /\ c # c + 1
  BY SMT DEF RoundingLimit
<1>3. Accuracy(c, p) = Accuracy(c + 1, p)
  BY SMT, <1>1
<1> HIDE DEF c, p
<1>4. \E d, e \in 0 .. p : d # e /\ Accuracy(d, p) = Accuracy(e, p)
  <2>1. c \in 0 .. p /\ c + 1 \in 0 .. p
    BY <1>2
  <2>2. QED
    BY <1>2, <1>3, <2>1
<1>5. QED
  BY <1>4 DEF p
=============================================================================
